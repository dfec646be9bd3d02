------------------------------ MODULE Composer -------------------------------
(***************************************************************************)
(* The question box (ui/src/components/taqr/query-composer.tsx) with the       *)
(* benchmark lookup its submissions meet (api.py, _resolve_benchmark): random *)
(* suggestions load, possibly several at once and in any order, while the     *)
(* user edits the text and submits it.  Each callback of the component is an   *)
(* action; the state it sets between two awaits changes at once.             *)
(*                                                                         *)
(* A text is its words with a flag for white space around them.             *)
(***************************************************************************)
EXTENDS Naturals

CONSTANTS Bank,     \* benchmark questions: records [id, text, kind]
          Typed,    \* texts a user may type
          NoId,     \* undefined
          MaxLoads  \* bound on the suggestions that load at once

Ids == {q.id : q \in Bank}
Texts == Typed \cup {q.text : q \in Bank}
Empty == [words |-> "", ragged |-> FALSE]

ASSUME BankAssumption ==
  /\ \A q \in Bank : q.kind \in {"benchmark", "adversarial"}
  \* Only the adversarial questions' ids are checked to differ, among themselves.
  /\ \A q, r \in Bank : q.id = r.id /\ q.kind = "adversarial" /\ r.kind = q.kind => q = r
  /\ Texts \subseteq [words : STRING, ragged : BOOLEAN]
  /\ Empty \in Typed
  /\ NoId \notin Ids

ASSUME LoadsAssumption == MaxLoads \in Nat \ {0}

VARIABLES question,    \* text in the box
          activeId,
          suggested,   \* {} or the suggestion on display
          kind,        \* kind of suggestion last asked for
          loading,     \* suggestionLoading
          loads,       \* suggestions under way, by kind
          posted,      \* {} or what onSubmit was given, with its kind
          answer       \* of the last submission: known or 404, benchmarks it may carry

suggestion == <<suggested, activeId, question>>
boxVars == <<suggestion, kind, loading, loads, posted, answer>>

Kinds == {"benchmark", "adversarial"}
Trim(text) == [text EXCEPT !.ragged = FALSE]

BoxTypeOK ==
  /\ question \in Texts
  /\ activeId \in Ids \cup {NoId}
  /\ suggested \in {{}} \cup {{q} : q \in Bank}
  /\ kind \in Kinds
  /\ loading \in BOOLEAN
  /\ loads \in [Kinds -> 0..MaxLoads]
  /\ \A p \in posted : p.question = Trim(p.question) /\ p.id \in Ids \cup {NoId}
  /\ answer \in [known : BOOLEAN, found : SUBSET Bank]

BoxInit ==
  /\ question = Empty /\ activeId = NoId /\ suggested = {}
  /\ kind = "benchmark" /\ loading = TRUE           \* the effect on mount
  /\ loads = [k \in Kinds |-> IF k = "benchmark" THEN 1 ELSE 0]
  /\ posted = {} /\ answer = [known |-> TRUE, found |-> {}]

-----------------------------------------------------------------------------

LoadSuggestion(k) ==
  /\ loads[k] < MaxLoads
  /\ loads' = [loads EXCEPT ![k] = @ + 1]
  /\ loading' = TRUE /\ kind' = k

\* "Another question", "Adversarial question": disabled while one loads.
AskForSuggestion(k) ==
  /\ ~loading /\ posted = {}
  /\ LoadSuggestion(k)
  /\ UNCHANGED <<suggestion, posted, answer>>

Settle(k) ==
  /\ loads[k] > 0
  /\ loads' = [loads EXCEPT ![k] = @ - 1]
  /\ loading' = FALSE

\* Whatever was loaded last wins, also over what was typed meanwhile.
SuggestionArrives(k) ==
  /\ Settle(k)
  /\ \E q \in Bank :
       q.kind = k /\ suggested' = {q} /\ question' = q.text /\ activeId' = q.id
  /\ UNCHANGED <<kind, posted, answer>>

SuggestionFails(k) ==
  /\ Settle(k)
  /\ UNCHANGED <<suggestion, kind, posted, answer>>

\* Bug: an edit keeps the id of the suggestion.
TypeKeepingId(text) ==
  /\ question' = text
  /\ UNCHANGED <<suggested, activeId, kind, loading, loads, posted, answer>>

\* handleQuestionChange.
Type(text) ==
  /\ question' = text
  /\ activeId' = IF suggested = {} THEN activeId
                 ELSE IF \E q \in suggested : q.text = text
                      THEN (CHOOSE q \in suggested : TRUE).id
                      ELSE NoId
  /\ UNCHANGED <<suggested, kind, loading, loads, posted, answer>>

\* The id submitted: of a suggestion with exactly the trimmed text, or activeId.
QuestionId ==
  IF \E q \in suggested : q.text = Trim(question)
  THEN (CHOOSE q \in suggested : TRUE).id ELSE activeId

\* On Enter or the button, while no other question is under way.
SubmitQuestion ==
  /\ Trim(question) # Empty
  /\ posted = {}
  /\ posted' = {[question |-> Trim(question), id |-> QuestionId, kind |-> kind]}
  /\ UNCHANGED <<suggestion, kind, loading, loads, answer>>

\* A trap with the value goes before a benchmark question with it; of several benchmark
\* questions with it the first is taken, here any of them.
FirstOf(matches) ==
  IF \E q \in matches : q.kind = "adversarial"
  THEN {q \in matches : q.kind = "adversarial"} ELSE matches

\* _resolve_benchmark, for a run that was posted: the questions it may find.
Resolve(id, text) ==
  IF id \in Ids THEN FirstOf({q \in Bank : q.id = id})
  ELSE FirstOf({q \in Bank : q.text = text})

\* create_run's answer; then the next suggestion, of the kind on display when the
\* question was submitted.  A run that failed is not told apart from one that ended.
QuestionAnswered ==
  \E p \in posted :
    /\ answer' = [known |-> p.id # NoId => Resolve(p.id, p.question) # {},
                  found |-> Resolve(p.id, p.question)]
    /\ posted' = {}
    /\ LoadSuggestion(p.kind)
    /\ UNCHANGED suggestion

BoxNext ==
  \/ \E k \in Kinds : AskForSuggestion(k) \/ SuggestionArrives(k) \/ SuggestionFails(k)
  \/ \E t \in Typed \cup {q.text : q \in suggested} : Type(t)
  \/ SubmitQuestion \/ QuestionAnswered

BoxSpec == BoxInit /\ [][BoxNext]_boxVars

-----------------------------------------------------------------------------
(* Properties.                                                              *)

\* q stands for what was posted: it has its words, or the posted id, under which the
\* bank also holds a question with these words.
Stands(q, p) ==
  \/ q.text.words = p.question.words
  \/ /\ q.id = p.id
     /\ \E r \in Bank \ {q} : r.id = q.id /\ r.text.words = p.question.words

\* The benchmark (and with it the gold answer) a question is judged by is one of
\* the same words, whatever was suggested, typed and loaded before it was sent, or has
\* the very id under which the bank also holds a question of these words (the lookup
\* goes by id first, _resolve_benchmark); and the server knows it.
BenchmarkFits ==
  [][\A p \in posted : posted' = {} =>
       answer'.known /\ \A q \in answer'.found : Stands(q, p)]_boxVars
=============================================================================
