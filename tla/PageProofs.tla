------------------------------ MODULE PageProofs ------------------------------
(***************************************************************************)
(* Proofs about the page: what it shows of a run (RunWatcher), for any set of  *)
(* runs and any number of failed calls, and the question box below that         *)
(* (Composer), for any benchmark, texts and loads.                            *)
(***************************************************************************)
EXTENDS RunWatcher, Composer, SequenceTheorems, TLAPS

-----------------------------------------------------------------------------
(* Trails.  To the page a run has one that is verified, a plan or nothing.    *)

P  == <<"PLAN">>
PV == <<"PLAN", "VERIFICATION">>

Verified == {t \in Seq(EventType) : Len(t) >= 2 /\ t[1] = "PLAN" /\ t[2] = "VERIFICATION"}

LEMMA VerifiedTrails ==
  ASSUME NEW t
  PROVE  t \in Verified <=> /\ t \in Seq(EventType) /\ Len(t) >= 2
                            /\ t[1] = "PLAN" /\ t[2] = "VERIFICATION"
  BY Zenon DEF Verified

LEMMA TrailsDiffer ==
  /\ <<>> # P /\ <<>> \notin Verified /\ P \notin Verified
  /\ PV \in Verified
<1>1. Len(<<>>) = 0 /\ Len(P) = 1
  BY DEF P
<1>2. PV \in Seq(EventType) /\ Len(PV) = 2 /\ PV[1] = "PLAN" /\ PV[2] = "VERIFICATION"
  BY DEF PV, EventType, Verdicts
<1>3. <<>> # P
  BY <1>1
<1>4. <<>> \notin Verified /\ P \notin Verified
  BY <1>1, VerifiedTrails
<1>5. PV \in Verified
  <2>1. Len(PV) >= 2
    BY <1>2
  <2> QED BY <1>2, <2>1, VerifiedTrails, Zenon
<1>. QED
  BY <1>3, <1>4, <1>5

LEMMA VerdictsFollow ==
  ASSUME NEW t \in Verified, NEW v \in Verdicts
  PROVE  Append(t, v) \in Verified
<1>1. t \in Seq(EventType) /\ Len(t) >= 2 /\ t[1] = "PLAN" /\ t[2] = "VERIFICATION"
  BY VerifiedTrails
<1>2. v \in EventType
  BY DEF EventType
<1>3. /\ Append(t, v) \in Seq(EventType) /\ Len(Append(t, v)) = Len(t) + 1
      /\ \A i \in 1..Len(t) : Append(t, v)[i] = t[i]
  BY <1>1, <1>2, AppendProperties
<1>4. Len(t) \in Nat /\ 1 \in 1..Len(t) /\ 2 \in 1..Len(t)
  BY <1>1, LenProperties
<1>5. Len(Append(t, v)) >= 2
  BY <1>1, <1>3, <1>4
<1>6. Append(t, v)[1] = "PLAN" /\ Append(t, v)[2] = "VERIFICATION"
  BY <1>1, <1>3, <1>4, Zenon
<1>. QED
  BY <1>3, <1>5, <1>6, VerifiedTrails, Zenon

\* What readers make of each.
LEMMA Seen ==
  ASSUME NEW t \in {<<>>, P} \cup Verified
  PROVE  /\ JudgeStatus(t) \in JudgeStatuses
         /\ JudgeStatus(t) # "not_started" <=> t \in Verified
         /\ Logged(t, "VERIFICATION") => t \in Verified
         /\ t # <<>> => Logged(t, "PLAN")
<1>1. JudgeStatus(t) \in JudgeStatuses
  BY DEF JudgeStatus, JudgeStatuses
<1>2. CASE t \in Verified
  <2>1. 1 \in DOMAIN t /\ 2 \in DOMAIN t /\ t[1] = "PLAN" /\ t[2] = "VERIFICATION"
    BY <1>2 DEF Verified
  <2>2. Logged(t, "PLAN") /\ Logged(t, "VERIFICATION")
    BY <2>1 DEF Logged
  <2>. QED
    BY <1>1, <1>2, <2>2 DEF JudgeStatus
<1>3. CASE t \in {<<>>, P}
  <2>1. t \notin Verified /\ (t # <<>> => t = P)
    BY <1>3, TrailsDiffer
  <2>2. \A i \in DOMAIN t : t[i] = "PLAN"
    BY <1>3 DEF P
  <2>3. ~Logged(t, "VERIFICATION") /\ \A v \in Verdicts : ~LastVerdict(t, v)
    BY <2>2 DEF Logged, LastVerdict, Verdicts
  <2>4. Logged(P, "PLAN")
    <3>1. 1 \in DOMAIN P /\ P[1] = "PLAN"
      BY DEF P
    <3>. QED
      BY <3>1 DEF Logged
  <2>. QED
    BY <1>1, <2>1, <2>3, <2>4 DEF JudgeStatus, Verdicts
<1>. QED
  BY <1>2, <1>3

LEMMA VerificationIsSeen == Logged(PV, "PLAN") /\ JudgeStatus(PV) = "running"
<1>1. DOMAIN PV = 1..2 /\ PV[1] = "PLAN" /\ PV[2] = "VERIFICATION"
  BY DEF PV
<1>2. \A v \in Verdicts : ~LastVerdict(PV, v)
  BY <1>1 DEF LastVerdict, Verdicts
<1>3. Logged(PV, "PLAN") /\ Logged(PV, "VERIFICATION")
  BY <1>1 DEF Logged
<1>. QED
  BY <1>2, <1>3 DEF JudgeStatus, Verdicts

-----------------------------------------------------------------------------
(***************************************************************************)
(* The inductive invariant.  A detail is a report of the store that may be    *)
(* out of date, so what it says is tied to the record it was read from         *)
(* (Faithful), and a call that is out to what is on screen (Newer): had it      *)
(* read the row before the run was closed, the detail on screen would not be    *)
(* able to show the run closed.  That a call cannot be overtaken by the answer   *)
(* to a question rests on nothing being out while a question is (Quiet).         *)
(***************************************************************************)
RecordOK(r) ==
  /\ row[r] \in Statuses
  /\ trail[r] \in {<<>>, P} \cup Verified
  /\ row[r] = "absent" => trail[r] = <<>>
  /\ row[r] = "COMPLETED" => trail[r] # <<>>
  /\ trail[r] \in Verified => row[r] = "COMPLETED"

\* A detail on screen or in a response.
Faithful(d) ==
  /\ d \in Details
  /\ row[d.of] # "absent"
  /\ d.row \in RunStatus => row[d.of] = d.row
  /\ d.row = "COMPLETED" => d.plan
  /\ d.judge # "not_started" => trail[d.of] \in Verified

\* A call out has read nothing, the row, or both.
CallOK(call) ==
  \/ call = NoCall
  \/ \E r \in Runs : row[r] # "absent" /\ call = Issue(r)
  \/ \E r \in Runs, s \in RunStatus \cup {"running"} :
       /\ row[r] # "absent" /\ (s \in RunStatus => row[r] = s)
       /\ call = [for |-> r, row |-> s, got |-> Nothing]
  \/ \E d \in Details : Faithful(d) /\ call = [for |-> d.of, row |-> d.row, got |-> d]

\* What a call for the run on screen has read is not older than the screen in
\* what must not be taken back.
Newer(call) ==
  /\ shown.row \in RunStatus => call.row \in {"unread", shown.row}
  /\ shown.judge # "not_started" =>
       /\ call.row \in {"unread", "COMPLETED"}
       /\ call.got # Nothing => call.got.judge # "not_started"

Quiet == shown = Nothing /\ calls["load"] = NoCall /\ calls["poll"] = NoCall

CallsOK ==
  /\ calls = [c \in {"load", "poll"} |-> calls[c]]
  /\ \A c \in {"load", "poll"} : CallOK(calls[c])
  /\ calls["load"].for \in {NoRun, selected}
  /\ calls["poll"].for # NoRun =>
       /\ calls["poll"].for = selected /\ shown.of = selected
       /\ shown.judge = "running"

PageOK ==
  /\ asking \in Runs \cup {NoRun}
  /\ selected \in Runs \cup {NoRun}
  /\ selected # NoRun => row[selected] # "absent"
  /\ shown = Nothing \/ Faithful(shown)
  /\ failures \in Nat
  /\ asking # NoRun => Quiet

IInv ==
  /\ row = [r \in Runs |-> row[r]] /\ trail = [r \in Runs |-> trail[r]]
  /\ \A r \in Runs : RecordOK(r)
  /\ PageOK
  /\ CallsOK
  /\ \A c \in {"load", "poll"} : calls[c].for = shown.of => Newer(calls[c])
  /\ SelectedIsShown

-----------------------------------------------------------------------------
(* The records.                                                              *)

RecordsOK ==
  /\ row = [r \in Runs |-> row[r]] /\ trail = [r \in Runs |-> trail[r]]
  /\ \A r \in Runs : RecordOK(r)

\* What a step of the store keeps of each run.
Kept(r) ==
  /\ row[r] # "absent" => row'[r] # "absent"
  /\ row[r] \in RunStatus => row'[r] = row[r]
  /\ trail[r] \in Verified => trail'[r] \in Verified

LEMMA RecordStep ==
  ASSUME RecordsOK, Next
  PROVE  RecordsOK' /\ \A r \in Runs : Kept(r)
<1> USE DEF RecordsOK, RecordOK, Kept, Statuses, RunStatus
<1>1. PICK r \in Runs : \/ Open(r) \/ Plan(r) \/ Complete(r) \/ Fail(r)
                        \/ Verify(r) \/ Amend(r)
                        \/ \E v \in Verdicts : Report(r, v)
  BY DEF Next
<1>2. CASE Open(r)
  BY <1>2 DEF Open
<1>3. CASE Plan(r)
  BY <1>3, TrailsDiffer DEF Plan, P
<1>4. CASE Complete(r)
  BY <1>4, TrailsDiffer DEF Complete, P
<1>5. CASE Fail(r)
  BY <1>5 DEF Fail
<1>6. CASE Verify(r)
  <2>1. trail' = [trail EXCEPT ![r] = PV] /\ row' = row /\ row[r] = "COMPLETED"
    BY <1>6 DEF Verify, PV
  <2> QED BY <2>1, TrailsDiffer
<1>7. CASE Amend(r)
  <2>1. /\ trail[r] = <<"PLAN", "VERIFICATION", "JUDGE">> /\ row' = row
        /\ trail' = [trail EXCEPT ![r] = Append(trail[r], "JUDGE_ERROR")]
    BY <1>7 DEF Amend
  <2>2. trail[r] \in Verified
    <3>1. Len(trail[r]) = 3
      <4>1. Len(<<"PLAN", "VERIFICATION", "JUDGE">>) = 3
        OBVIOUS
      <4>. QED
        BY <2>1, <4>1, Zenon
    <3>2. trail[r] \notin {<<>>, P}
      BY <3>1 DEF P
    <3>. QED
      BY <3>2
  <2>3. Append(trail[r], "JUDGE_ERROR") \in Verified
    BY <2>2, VerdictsFollow DEF Verdicts
  <2> QED BY <2>1, <2>2, <2>3, TrailsDiffer
<1>8. CASE \E v \in Verdicts : Report(r, v)
  <2>1. PICK v \in Verdicts : Report(r, v)
    BY <1>8
  <2>2. trail[r] = PV /\ row' = row /\ trail' = [trail EXCEPT ![r] = Append(PV, v)]
    BY <2>1 DEF Report, PV
  <2>3. Append(PV, v) \in Verified
    BY TrailsDiffer, VerdictsFollow
  <2> QED BY <2>2, <2>3, TrailsDiffer
<1> QED
  BY <1>1, <1>2, <1>3, <1>4, <1>5, <1>6, <1>7, <1>8

\* A detail is faithful if its row was read first.
LEMMA DetailsAreFaithful ==
  ASSUME RecordsOK, NEW r \in Runs, row[r] # "absent",
         NEW s \in RunStatus \cup {"running"}, s \in RunStatus => row[r] = s
  PROVE  /\ Faithful(Detail(r, s, trail[r]))
         /\ Detail(r, s, trail[r]).of = r /\ Detail(r, s, trail[r]).row = s
         /\ Detail(r, s, trail[r]).judge # "not_started" <=> trail[r] \in Verified
<1>1. trail[r] \in {<<>>, P} \cup Verified /\ (row[r] = "COMPLETED" => trail[r] # <<>>)
  BY DEF RecordsOK, RecordOK
<1>2. Logged(trail[r], "PLAN") \in BOOLEAN
  BY DEF Logged
<1>3. s = "COMPLETED" => Logged(trail[r], "PLAN")
  BY <1>1, Seen DEF RunStatus
<1>4. Detail(r, s, trail[r]) \in Details
  BY <1>1, <1>2, Seen DEF Detail, Details
<1> QED
  BY <1>1, <1>3, <1>4, Seen DEF Detail, Faithful

-----------------------------------------------------------------------------
(* The page.                                                                 *)

\* Calls that have read nothing yet.
LEMMA FreshCalls ==
  /\ CallOK(NoCall) /\ NoCall.for = NoRun /\ NoCall.row = "unread" /\ NoCall.got = Nothing
  /\ Newer(NoCall)
  /\ \A r \in Runs : /\ Issue(r).for = r /\ Issue(r).row = "unread" /\ Issue(r).got = Nothing
                      /\ row[r] # "absent" => CallOK(Issue(r))
                      /\ Newer(Issue(r))
  /\ \A r \in Runs \cup {NoRun}, ask \in Runs \cup {NoRun} :
       LoadEffect(r, ask) = IF r \in Runs /\ ask = NoRun THEN Issue(r) ELSE NoCall
BY WatchAssumption DEF CallOK, NoCall, Issue, Newer, LoadEffect, Nothing

\* No detail at all.
LEMMA NothingShown ==
  /\ Nothing.of = NoRun /\ Nothing.row \notin RunStatus /\ Nothing.judge = "not_started"
  /\ \A d : Faithful(d) => /\ d # Nothing /\ d.of \in Runs /\ d.of # NoRun
                          /\ d.row \in RunStatus \cup {"running"} /\ d.judge \in JudgeStatuses
BY WatchAssumption DEF Nothing, Faithful, Details, RunStatus

\* What is known of a call that is out.
Out(call) ==
  /\ call.for \in Runs \cup {NoRun}
  /\ call.for = NoRun <=> call = NoCall
  /\ call.for # NoRun => row[call.for] # "absent"
  /\ call.row = "unread" => call.got = Nothing
  /\ call.row # "unread" => call.row \in RunStatus \cup {"running"}
  /\ call.row \in RunStatus => row[call.for] = call.row
  /\ call.got # Nothing => /\ Faithful(call.got) /\ call.got.of = call.for
                          /\ call.got.row = call.row

LEMMA CallsOut ==
  ASSUME NEW call, CallOK(call)
  PROVE  Out(call)
<1> USE NothingShown, WatchAssumption
<1>1. CASE call = NoCall
  <2>1. NoCall.for = NoRun /\ NoCall.row = "unread" /\ NoCall.got = Nothing
    BY FreshCalls
  <2> QED BY <1>1, <2>1 DEF Out, RunStatus
<1>2. ASSUME NEW r \in Runs, row[r] # "absent", call = Issue(r) PROVE Out(call)
  <2>1. call.for = r /\ call.row = "unread" /\ call.got = Nothing
    BY <1>2 DEF Issue, NoCall
  <2>2. call # NoCall
    BY <2>1, FreshCalls
  <2> QED BY <1>2, <2>1, <2>2 DEF Out, RunStatus
<1>3. ASSUME NEW r \in Runs, NEW s \in RunStatus \cup {"running"}, row[r] # "absent",
             s \in RunStatus => row[r] = s, call = [for |-> r, row |-> s, got |-> Nothing]
      PROVE  Out(call)
  BY <1>3 DEF Out, RunStatus, NoCall
<1>4. ASSUME NEW d \in Details, Faithful(d), call = [for |-> d.of, row |-> d.row, got |-> d]
      PROVE  Out(call)
  <2>1. call.for = d.of /\ call.row = d.row /\ call.got = d
    BY <1>4
  <2>2. /\ d.of \in Runs /\ d.of # NoRun /\ d.row \in RunStatus \cup {"running"}
        /\ row[d.of] # "absent" /\ (d.row \in RunStatus => row[d.of] = d.row)
    BY <1>4, NothingShown DEF Faithful
  <2>3. call # NoCall
    BY <2>1, <2>2, FreshCalls
  <2> QED BY <1>4, <2>1, <2>2, <2>3 DEF Out, RunStatus
<1> QED
  BY <1>1, <1>2, <1>3, <1>4 DEF CallOK

LEMMA InitIInv == WatchInit => IInv
<1> SUFFICES ASSUME WatchInit PROVE IInv
  OBVIOUS
<1>1. \A r \in Runs : RecordOK(r)
  BY TrailsDiffer DEF WatchInit, Init, RecordOK, Statuses
<1>2. calls["load"] = NoCall /\ calls["poll"] = NoCall /\ shown = Nothing
  BY DEF WatchInit
<1>3. PageOK
  BY DEF WatchInit, PageOK
<1>4. CallsOK
  BY <1>2, FreshCalls DEF WatchInit, CallsOK
<1>5. \A c \in {"load", "poll"} : Newer(calls[c])
  BY <1>2, FreshCalls
<1> QED
  BY <1>1, <1>3, <1>4, <1>5 DEF IInv, WatchInit, Init, SelectedIsShown

\* A step of the store leaves the page as right as it was.
LEMMA StoreStep ==
  ASSUME IInv, Next, UNCHANGED pageVars
  PROVE  IInv'
<1>1. RecordsOK' /\ \A r \in Runs : Kept(r)
  BY RecordStep DEF IInv, RecordsOK
<1>2. UNCHANGED <<asking, selected, shown, calls, failures>>
  BY DEF pageVars
<1>3. PageOK'
  <2>1. ASSUME Faithful(shown) PROVE Faithful(shown)'
    BY <1>1, <1>2, <2>1, NothingShown DEF Faithful, Kept
  <2> QED BY <1>1, <1>2, <2>1 DEF IInv, PageOK, Quiet, Kept
<1>4. CallsOK'
  <2>1. ASSUME NEW c \in {"load", "poll"} PROVE CallOK(calls[c])'
    <3>1. calls'[c] = calls[c] /\ CallOK(calls[c])
      BY <1>2 DEF IInv, CallsOK
    <3>2. CASE calls[c] = NoCall
      BY <3>1, <3>2 DEF CallOK
    <3>3. ASSUME NEW r \in Runs, row[r] # "absent", calls[c] = Issue(r)
          PROVE  CallOK(calls[c])'
      BY <1>1, <3>1, <3>3 DEF CallOK, Kept
    <3>4. ASSUME NEW r \in Runs, NEW s \in RunStatus \cup {"running"}, row[r] # "absent",
                 s \in RunStatus => row[r] = s,
                 calls[c] = [for |-> r, row |-> s, got |-> Nothing]
          PROVE  CallOK(calls[c])'
      BY <1>1, <3>1, <3>4 DEF CallOK, Kept
    <3>5. ASSUME NEW d \in Details, Faithful(d),
                 calls[c] = [for |-> d.of, row |-> d.row, got |-> d]
          PROVE  CallOK(calls[c])'
      <4>1. Faithful(d)'
        BY <1>1, <3>5, NothingShown DEF Faithful, Kept
      <4> QED BY <3>1, <3>5, <4>1 DEF CallOK
    <3> QED BY <3>1, <3>2, <3>3, <3>4, <3>5 DEF CallOK
  <2> QED BY <1>2, <2>1 DEF IInv, CallsOK
<1>5. \A c \in {"load", "poll"} : calls'[c].for = shown'.of => Newer(calls[c])'
  BY <1>2 DEF IInv, Newer
<1> QED
  BY <1>1, <1>2, <1>3, <1>4, <1>5 DEF IInv, RecordsOK, SelectedIsShown

\* A page step changes no record, so that it is right about what it leaves alone.
LEMMA SameRecords ==
  ASSUME IInv, UNCHANGED recordVars
  PROVE  /\ RecordsOK /\ RecordsOK'
         /\ \A d : Faithful(d) => Faithful(d)'
         /\ \A call : CallOK(call) => CallOK(call)'
BY DEF IInv, RecordsOK, RecordOK, recordVars, Faithful, CallOK

\* The calls as the two they are.
LEMMA TwoCalls ==
  ASSUME CallsOK
  PROVE  /\ calls = [load |-> calls["load"], poll |-> calls["poll"]]
         /\ Out(calls["load"]) /\ Out(calls["poll"])
BY CallsOut DEF CallsOK

\* Two fresh calls, of which only the load is out, suit any page.
LEMMA FreshPage ==
  ASSUME IInv, UNCHANGED recordVars, PageOK', SelectedIsShown',
         calls' = [load |-> LoadEffect(selected', asking'), poll |-> NoCall]
  PROVE  IInv'
<1>1. /\ calls'["load"] = LoadEffect(selected', asking') /\ calls'["poll"] = NoCall
      /\ calls' = [c \in {"load", "poll"} |-> calls'[c]]
  OBVIOUS
<1>2. \/ calls'["load"] = NoCall
      \/ /\ selected' \in Runs /\ row'[selected'] # "absent"
         /\ calls'["load"] = Issue(selected')
  BY <1>1, FreshCalls, WatchAssumption DEF PageOK
<1>3. CallOK(calls["load"])' /\ CallOK(calls["poll"])'
  BY <1>1, <1>2 DEF CallOK
<1>4. calls'["load"].for \in {NoRun, selected'} /\ calls'["poll"].for = NoRun
  BY <1>1, <1>2 DEF Issue, NoCall
<1>5. CallsOK'
  BY <1>1, <1>3, <1>4 DEF CallsOK
<1>6. \A c \in {"load", "poll"} : calls'[c].row = "unread" /\ calls'[c].got = Nothing
  BY <1>1, <1>2 DEF Issue, NoCall
<1>7. \A c \in {"load", "poll"} : Newer(calls[c])'
  BY <1>6 DEF Newer
<1> QED
  BY <1>5, <1>7, SameRecords DEF IInv, RecordsOK

LEMMA IdleStep ==
  ASSUME IInv, UNCHANGED <<row, trail, asking, selected, shown, calls, failures>>
  PROVE  IInv'
<1>1. RecordsOK'
  BY DEF IInv, RecordsOK, RecordOK
<1>2. PageOK'
  BY DEF IInv, PageOK, Faithful, Quiet
<1>3. ASSUME NEW c \in {"load", "poll"} PROVE CallOK(calls[c])'
  <2>1. UNCHANGED recordVars /\ calls'[c] = calls[c] /\ CallOK(calls[c])
    BY DEF IInv, CallsOK, recordVars
  <2> QED BY <2>1, SameRecords
<1>4. CallsOK'
  BY <1>3 DEF IInv, CallsOK
<1>5. SelectedIsShown' /\ \A c \in {"load", "poll"} : calls'[c].for = shown'.of => Newer(calls[c])'
  BY DEF IInv, Newer, SelectedIsShown
<1> QED
  BY <1>1, <1>2, <1>4, <1>5 DEF IInv, RecordsOK

LEMMA SelectStep ==
  ASSUME IInv, UNCHANGED <<recordVars, asking, shown, failures>>,
         NEW r \in Runs, row[r] # "absent", ChangeSelection(r)
  PROVE  IInv'
<1>1. CASE r = selected
  BY <1>1, IdleStep DEF ChangeSelection, recordVars
<1>2. CASE r # selected
  <2>1. /\ selected' = r /\ r # NoRun
        /\ calls' = [load |-> LoadEffect(r, asking), poll |-> NoCall]
    BY <1>2, WatchAssumption DEF ChangeSelection
  <2>2. asking # NoRun => LoadEffect(r, asking) = NoCall
    BY DEF LoadEffect
  <2>3. asking = NoRun => LoadEffect(r, asking).for = r
    BY <2>1 DEF LoadEffect, Issue, NoCall
  <2>4. PageOK'
    BY <2>1, <2>2, SameRecords DEF IInv, PageOK, Quiet, recordVars
  <2>5. SelectedIsShown'
    BY <2>1, <2>3 DEF SelectedIsShown
  <2> QED BY <2>1, <2>4, <2>5, FreshPage
<1> QED
  BY <1>1, <1>2

LEMMA SubmitStep ==
  ASSUME IInv, NEW r \in Runs, Submit(r)
  PROVE  IInv'
<1>1. /\ UNCHANGED <<recordVars, failures>>
      /\ asking' = r /\ r # NoRun /\ selected' = NoRun /\ shown' = Nothing
      /\ calls' = [load |-> NoCall, poll |-> NoCall]
      /\ calls' = [load |-> LoadEffect(selected', asking'), poll |-> NoCall]
  BY WatchAssumption DEF Submit, LoadEffect
<1>2. PageOK' /\ SelectedIsShown'
  BY <1>1 DEF IInv, PageOK, Quiet, SelectedIsShown
<1> QED
  BY <1>1, <1>2, FreshPage

\* The detail that answers a question.
LEMMA AnswerIsFaithful ==
  ASSUME IInv, NEW r \in Runs, Answered(r)
  PROVE  /\ shown' = Detail(r, row[r], <<"PLAN", "VERIFICATION">>)
         /\ Faithful(shown)' /\ shown'.of = r /\ row[r] # "absent"
<1>1. trail[r] \in Verified /\ row[r] = "COMPLETED"
  BY Seen DEF IInv, RecordOK, Answered
<1>2. shown' = [of |-> r, row |-> row[r], plan |-> Logged(PV, "PLAN"), judge |-> JudgeStatus(PV)]
  BY DEF Answered, Detail, PV
<1>3. Logged(PV, "PLAN") = TRUE /\ JudgeStatus(PV) = "running"
  <2>1. Logged(PV, "PLAN") \in BOOLEAN
    BY DEF Logged
  <2> QED BY <2>1, VerificationIsSeen
<1>4. shown' \in Details
  BY <1>1, <1>2, <1>3 DEF Details, RunStatus, JudgeStatuses
<1>5. UNCHANGED <<row, trail>>
  BY DEF Answered, recordVars
<1> QED
  BY <1>1, <1>2, <1>3, <1>4, <1>5 DEF Faithful, Answered

LEMMA AnsweredStep ==
  ASSUME IInv, NEW r \in Runs, Answered(r)
  PROVE  IInv'
<1>1. /\ UNCHANGED <<recordVars, failures>>
      /\ asking' = NoRun /\ selected' = r
      /\ calls' = [load |-> LoadEffect(selected', asking'), poll |-> NoCall]
  BY DEF Answered
<1>2. PageOK' /\ SelectedIsShown'
  BY <1>1, AnswerIsFaithful DEF IInv, PageOK, SelectedIsShown, recordVars
<1> QED
  BY <1>1, <1>2, FreshPage

LEMMA AskFailsStep ==
  ASSUME IInv, AskFails
  PROVE  IInv'
<1>1. /\ UNCHANGED <<recordVars, selected, shown, failures>> /\ asking' = NoRun
      /\ calls' = [calls EXCEPT !["load"] = LoadEffect(selected, NoRun)]
  BY DEF AskFails
<1>2. calls["poll"] = NoCall /\ calls = [load |-> calls["load"], poll |-> calls["poll"]]
  BY TwoCalls DEF IInv, PageOK, Quiet, AskFails
<1>3. calls' = [load |-> LoadEffect(selected', asking'), poll |-> NoCall]
  BY <1>1, <1>2
<1>4. PageOK'
  BY <1>1, SameRecords DEF IInv, PageOK, recordVars
<1>5. selected # NoRun => LoadEffect(selected, NoRun).for = selected
  BY DEF LoadEffect, Issue, NoCall
<1>6. SelectedIsShown'
  BY <1>1, <1>3, <1>5 DEF SelectedIsShown
<1> QED
  BY <1>1, <1>3, <1>4, <1>6, FreshPage

-----------------------------------------------------------------------------
(* One GET.                                                                  *)

LEMMA PollStep ==
  ASSUME IInv, Poll
  PROVE  IInv'
<1>1. /\ UNCHANGED <<recordVars, asking, selected, shown, failures>>
      /\ shown.of = selected /\ shown.judge = "running"
      /\ calls' = [calls EXCEPT !["poll"] = Issue(selected)]
  BY DEF Poll, PollNeeded
<1>2. Faithful(shown) /\ selected \in Runs /\ row[selected] # "absent"
  BY <1>1, NothingShown DEF IInv, PageOK
<1>3. /\ calls'["load"] = calls["load"] /\ calls'["poll"] = Issue(selected)
      /\ calls' = [c \in {"load", "poll"} |-> calls'[c]]
  BY <1>1 DEF IInv, CallsOK
<1>4. PageOK'
  <2>1. asking = NoRun
    BY <1>2, NothingShown DEF IInv, PageOK, Quiet
  <2> QED BY <1>1, <2>1, SameRecords DEF IInv, PageOK, recordVars
<1>5. CallOK(calls["load"])' /\ CallOK(calls["poll"])'
  <2>1. CallOK(calls["load"])'
    BY <1>1, <1>3, SameRecords DEF IInv, CallsOK
  <2> QED BY <1>1, <1>2, <1>3, <2>1 DEF CallOK, recordVars
<1>6. Issue(selected).for = selected /\ Issue(selected).row = "unread"
      /\ Issue(selected).got = Nothing
  BY DEF Issue, NoCall
<1>7. CallsOK'
  BY <1>1, <1>3, <1>5, <1>6 DEF IInv, CallsOK
<1>8. \A c \in {"load", "poll"} : calls'[c].for = shown'.of => Newer(calls[c])'
  BY <1>1, <1>3, <1>6 DEF IInv, Newer
<1>9. SelectedIsShown'
  BY <1>1, <1>3 DEF IInv, SelectedIsShown
<1> QED
  BY <1>1, <1>4, <1>7, <1>8, <1>9, SameRecords DEF IInv, RecordsOK

LEMMA ReadStep ==
  ASSUME IInv, NEW c \in {"load", "poll"}, Read(c)
  PROVE  IInv'
<1> DEFINE call == calls[c]
           r    == call.for
<1>1. /\ UNCHANGED <<recordVars, asking, selected, shown, failures>>
      /\ r # NoRun /\ call.got = Nothing
      /\ calls' = [calls EXCEPT ![c] =
           IF call.row = "unread" THEN [call EXCEPT !.row = row[r]]
           ELSE [call EXCEPT !.got = Detail(r, call.row, trail[r])]]
  BY DEF Read
<1>2. CallOK(call) /\ Out(call) /\ r \in Runs /\ row[r] # "absent" /\ RecordOK(r)
  <2>1. CallOK(call)
    BY DEF IInv, CallsOK
  <2> QED BY <1>1, <2>1, CallsOut DEF Out, IInv
<1>3. /\ \A b \in {"load", "poll"} \ {c} : calls'[b] = calls[b]
      /\ calls' = [b \in {"load", "poll"} |-> calls'[b]]
  BY <1>1 DEF IInv, CallsOK
<1>4. ASSUME call.row = "unread"
      PROVE  calls'[c].for = r /\ CallOK(calls[c])' /\ (r = shown.of => Newer(calls[c])')
  <2>1. call = Issue(r)
    <3>1. ASSUME NEW q \in Runs, call = Issue(q) PROVE call = Issue(r)
      BY <3>1 DEF Issue, NoCall
    <3>2. ASSUME NEW q \in Runs, NEW s \in RunStatus \cup {"running"},
                 call = [for |-> q, row |-> s, got |-> Nothing]
          PROVE  FALSE
      BY <1>4, <3>2 DEF RunStatus
    <3>3. ASSUME NEW d \in Details, Faithful(d), call = [for |-> d.of, row |-> d.row, got |-> d]
          PROVE  FALSE
      BY <1>4, <3>3, NothingShown DEF RunStatus
    <3>4. call # NoCall
      BY <1>1 DEF NoCall
    <3> HIDE DEF call, r
    <3> QED BY <1>2, <3>1, <3>2, <3>3, <3>4 DEF CallOK
  <2>2. calls'[c] = [for |-> r, row |-> row[r], got |-> Nothing]
    BY <1>1, <1>4, <2>1 DEF Issue, NoCall, IInv, CallsOK
  <2>3. row[r] \in RunStatus \cup {"running"}
    BY <1>2 DEF RecordOK, Statuses
  <2>4. CallOK(calls[c])'
    BY <1>1, <1>2, <2>2, <2>3 DEF CallOK, recordVars
  <2>5. r = shown.of => Newer(calls[c])'
    <3>1. SUFFICES ASSUME r = shown.of PROVE Newer(calls[c])'
      OBVIOUS
    <3>2. Faithful(shown)
      BY <1>1, <3>1, NothingShown DEF IInv, PageOK
    <3> QED BY <1>1, <1>2, <2>2, <3>1, <3>2 DEF Faithful, RecordOK, Newer
  <2> QED BY <2>2, <2>4, <2>5
<1>5. ASSUME call.row # "unread"
      PROVE  calls'[c].for = r /\ CallOK(calls[c])' /\ (r = shown.of => Newer(calls[c])')
  <2> DEFINE d == Detail(r, call.row, trail[r])
  <2>1. /\ Faithful(d) /\ d.of = r /\ d.row = call.row
        /\ d.judge # "not_started" <=> trail[r] \in Verified
    BY <1>2, <1>5, DetailsAreFaithful DEF Out, IInv, RecordsOK
  <2>2. call = [for |-> r, row |-> call.row, got |-> Nothing]
    BY <1>1, <1>2, <1>5, NothingShown DEF CallOK, Issue, NoCall
  <2> HIDE DEF d
  <2>3. calls'[c] = [for |-> r, row |-> call.row, got |-> d]
    BY <1>1, <1>5, <2>2 DEF IInv, CallsOK, d
  <2>4. CallOK(calls[c])'
    BY <1>1, <2>1, <2>3, SameRecords DEF CallOK, Faithful
  <2>5. r = shown.of => Newer(calls[c])'
    <3>1. SUFFICES ASSUME r = shown.of PROVE Newer(calls[c])'
      OBVIOUS
    <3>2. Faithful(shown) /\ Newer(call)
      BY <1>1, <3>1, NothingShown DEF IInv, PageOK
    <3> QED BY <1>1, <2>1, <2>3, <3>1, <3>2 DEF Faithful, Newer
  <2> QED BY <2>3, <2>4, <2>5
<1>6. calls'[c].for = r /\ CallOK(calls[c])' /\ (r = shown.of => Newer(calls[c])')
  BY <1>4, <1>5
<1>7. CallsOK'
  <2>1. \A b \in {"load", "poll"} : CallOK(calls[b])'
    <3> SUFFICES ASSUME NEW b \in {"load", "poll"}, b # c PROVE CallOK(calls[b])'
      BY <1>6
    <3> QED BY <1>1, <1>3, SameRecords DEF IInv, CallsOK
  <2>2. \A b \in {"load", "poll"} : calls'[b].for = calls[b].for
    BY <1>3, <1>6
  <2> QED BY <1>1, <1>3, <2>1, <2>2 DEF IInv, CallsOK
<1>8. \A b \in {"load", "poll"} : calls'[b].for = shown'.of => Newer(calls[b])'
  <2> SUFFICES ASSUME NEW b \in {"load", "poll"}, calls'[b].for = shown'.of
               PROVE  Newer(calls[b])'
    OBVIOUS
  <2>1. CASE b = c
    BY <1>1, <1>6, <2>1
  <2>2. CASE b # c
    BY <1>1, <1>3, <2>2 DEF IInv, Newer
  <2> QED BY <2>1, <2>2
<1>9. PageOK'
  <2>1. asking = NoRun
    BY <1>1, NothingShown DEF IInv, PageOK, Quiet, NoCall
  <2> QED BY <1>1, <2>1, SameRecords DEF IInv, PageOK, recordVars
<1>10. SelectedIsShown'
  <2>1. calls'["load"].for = calls["load"].for
    BY <1>3, <1>6
  <2> QED BY <1>1, <2>1 DEF IInv, SelectedIsShown
<1> QED
  BY <1>1, <1>7, <1>8, <1>9, <1>10, SameRecords DEF IInv, RecordsOK

\* What no step may do to the detail on screen (VerificationIsNotTakenBack).
NotTakenBack ==
  shown.of # NoRun /\ shown'.of = shown.of =>
    /\ shown.row \in RunStatus => shown'.row = shown.row
    /\ shown'.judge = "not_started" => shown.judge = "not_started"

\* A response that arrives, with what is known of it.
LEMMA Response ==
  ASSUME IInv, NEW c \in {"load", "poll"}, Deliver(c)
  PROVE  /\ shown' = calls[c].got /\ Faithful(calls[c].got) /\ Faithful(shown)'
         /\ shown'.of = selected /\ calls[c].for = selected /\ selected # NoRun
         /\ shown'.row = calls[c].row /\ calls[c].row # "unread"
         /\ shown.of = selected => Newer(calls[c])
<1>1. shown' = calls[c].got /\ calls[c].got # Nothing /\ UNCHANGED recordVars
  BY DEF Deliver
<1>2. Out(calls[c])
  BY TwoCalls DEF IInv
<1>3. /\ Faithful(calls[c].got) /\ calls[c].got.of = calls[c].for
      /\ calls[c].got.row = calls[c].row /\ calls[c].row # "unread"
  BY <1>1, <1>2 DEF Out
<1>4. calls[c].for # NoRun
  BY <1>3, NothingShown
<1>5. calls[c].for = selected
  BY <1>4 DEF IInv, CallsOK
<1>6. Faithful(shown)'
  BY <1>1, <1>3, SameRecords DEF recordVars, Faithful
<1> QED
  BY <1>1, <1>3, <1>4, <1>5, <1>6 DEF IInv

LEMMA DeliverStep ==
  ASSUME IInv, NEW c \in {"load", "poll"}, Deliver(c)
  PROVE  IInv' /\ NotTakenBack
<1>1. /\ UNCHANGED <<recordVars, asking, selected, failures>>
      /\ calls' = [calls EXCEPT ![c] = NoCall, !["poll"] = NoCall]
  BY DEF Deliver
<1>2. /\ shown' = calls[c].got /\ Faithful(calls[c].got) /\ Faithful(shown)'
      /\ shown'.of = selected /\ calls[c].for = selected /\ selected # NoRun
      /\ shown'.row = calls[c].row /\ calls[c].row # "unread"
      /\ shown.of = selected => Newer(calls[c])
  BY Response
<1>3. NotTakenBack
  <2> SUFFICES ASSUME shown.of # NoRun, shown'.of = shown.of PROVE NotTakenBack
    BY DEF NotTakenBack
  <2>1. Newer(calls[c]) /\ calls[c].got # Nothing
    BY <1>2, NothingShown
  <2> QED BY <1>2, <2>1 DEF Newer, NotTakenBack
<1>4. /\ calls'["poll"] = NoCall
      /\ calls'["load"] \in {NoCall, calls["load"]} /\ (c = "load" => calls'["load"] = NoCall)
      /\ calls' = [b \in {"load", "poll"} |-> calls'[b]]
  BY <1>1 DEF IInv, CallsOK
<1>5. CallOK(calls["load"])' /\ CallOK(calls["poll"])'
  <2>1. CASE calls'["load"] = NoCall
    BY <1>4, <2>1 DEF CallOK
  <2>2. CASE calls'["load"] = calls["load"]
    <3>1. CallOK(calls["load"])'
      BY <1>1, <2>2, SameRecords DEF IInv, CallsOK
    <3> QED BY <1>4, <3>1 DEF CallOK
  <2> QED BY <1>4, <2>1, <2>2
<1>6. NoCall.for = NoRun
  BY DEF NoCall
<1>7. CallsOK'
  BY <1>1, <1>4, <1>5, <1>6 DEF IInv, CallsOK
<1>8. \A b \in {"load", "poll"} : calls'[b].for = shown'.of => Newer(calls[b])'
  <2> SUFFICES ASSUME calls'["load"].for = selected, calls'["load"] = calls["load"], c = "poll"
               PROVE  Newer(calls["load"])'
    BY <1>2, <1>4, <1>6
  <2>1. shown.of = selected /\ shown.judge = "running"
    BY <1>2 DEF IInv, CallsOK
  <2>2. Faithful(shown) /\ Newer(calls["load"]) /\ Newer(calls["poll"])
    BY <1>2, <2>1, NothingShown DEF IInv, PageOK
  <2>3. shown'.row = "COMPLETED"
    BY <1>2, <2>1, <2>2 DEF Newer
  <2> QED BY <2>1, <2>2, <2>3 DEF Newer
<1>9. PageOK'
  <2>1. asking = NoRun
    BY <1>2, NothingShown DEF IInv, PageOK, Quiet, NoCall
  <2> QED BY <1>1, <1>2, <2>1 DEF IInv, PageOK, recordVars
<1>10. SelectedIsShown'
  BY <1>1, <1>2 DEF SelectedIsShown
<1> QED
  BY <1>1, <1>3, <1>7, <1>8, <1>9, <1>10, SameRecords DEF IInv, RecordsOK

LEMMA CallFailsStep ==
  ASSUME IInv, NEW c \in {"load", "poll"}, CallFails(c)
  PROVE  IInv'
<1>1. /\ UNCHANGED <<recordVars, asking, selected, shown>> /\ failures' = failures + 1
      /\ calls' = [calls EXCEPT ![c] = NoCall] /\ calls[c].for # NoRun
  BY DEF CallFails
<1>2. /\ \A b \in {"load", "poll"} : calls'[b] \in {NoCall, calls[b]}
      /\ calls' = [b \in {"load", "poll"} |-> calls'[b]]
  BY <1>1 DEF IInv, CallsOK
<1>3. \A b \in {"load", "poll"} : CallOK(calls[b])'
  <2> SUFFICES ASSUME NEW b \in {"load", "poll"} PROVE CallOK(calls[b])'
    OBVIOUS
  <2>1. CASE calls'[b] = NoCall
    BY <2>1 DEF CallOK
  <2>2. CASE calls'[b] = calls[b]
    BY <1>1, <2>2, SameRecords DEF IInv, CallsOK
  <2> QED BY <1>2, <2>1, <2>2
<1>4. NoCall.for = NoRun
  BY DEF NoCall
<1>5. CallsOK'
  BY <1>1, <1>2, <1>3, <1>4 DEF IInv, CallsOK
<1>6. \A b \in {"load", "poll"} : calls'[b].for = shown'.of => Newer(calls[b])'
  <2> SUFFICES ASSUME NEW b \in {"load", "poll"}, calls'[b].for = shown'.of
               PROVE  Newer(calls[b])'
    OBVIOUS
  <2>1. CASE calls'[b] = NoCall
    <3>1. shown = Nothing
      BY <1>1, <1>4, <2>1, NothingShown DEF IInv, PageOK
    <3> QED BY <1>1, <3>1, NothingShown DEF Newer
  <2>2. CASE calls'[b] = calls[b]
    BY <1>1, <2>2 DEF IInv, Newer
  <2> QED BY <1>2, <2>1, <2>2
<1>7. PageOK'
  <2>1. asking = NoRun
    BY <1>1, <1>4 DEF IInv, PageOK, Quiet
  <2> QED BY <1>1, <2>1, SameRecords DEF IInv, PageOK, recordVars
<1>8. SelectedIsShown'
  BY <1>1 DEF IInv, PageOK, SelectedIsShown
<1> QED
  BY <1>1, <1>5, <1>6, <1>7, <1>8, SameRecords DEF IInv, RecordsOK

-----------------------------------------------------------------------------

LEMMA StepIInv ==
  ASSUME IInv, [WatchNext]_allVars
  PROVE  IInv' /\ NotTakenBack
<1>1. ASSUME shown' = shown PROVE NotTakenBack
  BY <1>1 DEF NotTakenBack
<1>2. CASE Next /\ UNCHANGED pageVars
  BY <1>1, <1>2, StoreStep DEF pageVars
<1>3. ASSUME NEW c \in {"load", "poll"}, Get(c) PROVE IInv' /\ NotTakenBack
  <2>1. CASE Read(c)
    BY <1>1, <2>1, ReadStep DEF Read
  <2>2. CASE Deliver(c)
    BY <2>2, DeliverStep
  <2>3. CASE CallFails(c)
    BY <1>1, <2>3, CallFailsStep DEF CallFails
  <2> QED BY <1>3, <2>1, <2>2, <2>3 DEF Get
<1>4. CASE Poll
  BY <1>1, <1>4, PollStep DEF Poll
<1>5. CASE RunsListed
  <2>1. UNCHANGED <<recordVars, asking, shown, failures>>
    BY <1>5 DEF RunsListed
  <2>2. CASE UNCHANGED <<selected, calls>>
    BY <1>1, <2>1, <2>2, IdleStep DEF recordVars
  <2>3. ASSUME NEW r \in Runs, row[r] # "absent", ChangeSelection(r) PROVE IInv' /\ NotTakenBack
    BY <1>1, <2>1, <2>3, SelectStep
  <2> QED BY <1>5, <2>2, <2>3 DEF RunsListed
<1>6. CASE AskFails
  BY <1>1, <1>6, AskFailsStep DEF AskFails
<1>7. ASSUME NEW r \in Runs, Select(r) PROVE IInv' /\ NotTakenBack
  BY <1>1, <1>7, SelectStep DEF Select
<1>8. ASSUME NEW r \in Runs, Submit(r) PROVE IInv' /\ NotTakenBack
  <2>1. shown'.of = NoRun
    BY <1>8, NothingShown DEF Submit
  <2> QED BY <1>8, <2>1, SubmitStep DEF NotTakenBack
<1>9. ASSUME NEW r \in Runs, Answered(r) PROVE IInv' /\ NotTakenBack
  <2>1. shown.of = NoRun
    BY <1>9, NothingShown, WatchAssumption DEF Answered, IInv, PageOK, Quiet
  <2> QED BY <1>9, <2>1, AnsweredStep DEF NotTakenBack
<1>10. CASE UNCHANGED allVars
  BY <1>1, <1>10, IdleStep DEF allVars, recordVars, pageVars
<1> QED
  BY <1>2, <1>3, <1>4, <1>5, <1>6, <1>7, <1>8, <1>9, <1>10 DEF WatchNext, Page

LEMMA Invariance == WatchSpec => []IInv
  BY InitIInv, StepIInv, PTL DEF WatchSpec

Counted == listed \in BOOLEAN /\ failures \in 0..MaxFailures

LEMMA CountedInvariance == WatchSpec => []Counted
<1>1. WatchInit => Counted
  <2> SUFFICES ASSUME WatchInit PROVE Counted
    OBVIOUS
  <2>1. listed \in BOOLEAN
    BY Zenon DEF WatchInit
  <2>2. failures \in 0..MaxFailures
    <3>1. failures = 0
      BY Zenon DEF WatchInit
    <3> QED
      BY <3>1, WatchAssumption
  <2> QED
    BY <2>1, <2>2 DEF Counted
<1>2. Counted /\ [WatchNext]_allVars => Counted'
  <2> SUFFICES ASSUME Counted, [WatchNext]_allVars
               PROVE  Counted'
    OBVIOUS
  <2> USE WatchAssumption DEF Counted
  <2>1. ASSUME UNCHANGED <<listed, failures>> PROVE Counted'
    BY <2>1
  <2>2. ASSUME NEW c \in {"load", "poll"}, Get(c) PROVE Counted'
    BY <2>1, <2>2 DEF Get, Read, Deliver, CallFails
  <2>3. CASE Poll \/ RunsListed \/ AskFails
    BY <2>1, <2>3 DEF Poll, RunsListed, AskFails
  <2>4. ASSUME NEW r \in Runs, Select(r) \/ Submit(r) \/ Answered(r) PROVE Counted'
    BY <2>1, <2>4 DEF Select, Submit, Answered
  <2>5. CASE UNCHANGED pageVars \/ UNCHANGED allVars
    BY <2>1, <2>5 DEF pageVars, allVars
  <2> QED
    BY <2>2, <2>3, <2>4, <2>5 DEF WatchNext, Page
<1> QED
  BY <1>1, <1>2, PTL DEF WatchSpec

\* WatchTypeOK: what is on screen is a detail of a run or nothing, and a call out has
\* the fields its two reads leave in it, whatever is overtaken, dropped or failed.
THEOREM PageTypeCorrect == WatchSpec => []WatchTypeOK
<1>1. IInv /\ Counted => WatchTypeOK
  <2> SUFFICES ASSUME IInv, Counted PROVE WatchTypeOK
    OBVIOUS
  <2> DEFINE Call == [for : Runs \cup {NoRun}, row : RunStatus \cup {"running", "unread"},
                      got : Details \cup {Nothing}]
  <2>1. ASSUME NEW c \in {"load", "poll"} PROVE calls[c] \in Call
    <3>1. CallOK(calls[c])
      BY DEF IInv, CallsOK
    <3>2. NoCall \in Call /\ \A r \in Runs : Issue(r) \in Call
      BY DEF NoCall, Issue
    <3>3. ASSUME NEW d \in Details
          PROVE  [for |-> d.of, row |-> d.row, got |-> d] \in Call
      BY DEF Details
    <3>4. ASSUME NEW r \in Runs, NEW t \in RunStatus \cup {"running"}
          PROVE  [for |-> r, row |-> t, got |-> Nothing] \in Call
      OBVIOUS
    <3> HIDE DEF Call
    <3> QED
      BY Zenon, <3>1, <3>2, <3>3, <3>4 DEF CallOK
  <2> HIDE DEF Call
  <2>2. calls \in [{"load", "poll"} -> Call]
    BY <2>1 DEF IInv, CallsOK
  <2>3. shown \in Details \cup {Nothing}
    BY DEF IInv, PageOK, Faithful
  <2> QED
    BY <2>2, <2>3 DEF IInv, PageOK, Counted, WatchTypeOK, Call
<1> QED
  BY <1>1, Invariance, CountedInvariance, PTL

\* For any number of runs and of failed calls: a run shown as COMPLETED is shown
\* with its plan, however long before the response its row and events were read.
THEOREM CompletedIsShownWithPlan == WatchSpec => []ShownCompletedHasPlan
<1>1. IInv => ShownCompletedHasPlan
  BY NothingShown DEF IInv, PageOK, ShownCompletedHasPlan, Faithful, RunStatus
<1> QED
  BY <1>1, Invariance, PTL

\* The page is never left behind the selection, whatever the user selects while a
\* question is in flight or calls are out.
THEOREM SelectionIsFollowed == WatchSpec => []SelectedIsShown
<1>1. IInv => SelectedIsShown
  BY DEF IInv
<1> QED
  BY <1>1, Invariance, PTL

\* A slow response never takes a closed row or a verification off the screen.
THEOREM ScreenIsNotTakenBack == WatchSpec => VerificationIsNotTakenBack
<1>1. IInv /\ [WatchNext]_allVars => NotTakenBack
  BY StepIInv
<1>2. IInv /\ [WatchNext]_allVars => [NotTakenBack]_allVars
  BY <1>1
<1> QED
  BY <1>2, Invariance, PTL DEF WatchSpec, VerificationIsNotTakenBack, NotTakenBack

-----------------------------------------------------------------------------
(***************************************************************************)
(* The question box.  An id outlives the suggestion it came with: what is kept  *)
(* is that an id, of the box or of a question that was sent, is one of a         *)
(* benchmark question with the words it stands next to.                        *)
(***************************************************************************)

\* The id names a benchmark question with these words, or nothing.
Names(id, words) == id = NoId \/ \E q \in Bank : q.id = id /\ q.text.words = words

BoxInv ==
  /\ question \in Texts
  /\ suggested \subseteq Bank /\ \A q, r \in suggested : q = r
  /\ suggested = {} => activeId = NoId
  /\ Names(activeId, question.words)
  /\ \A p \in posted : Names(p.id, p.question.words)
  /\ \A p, r \in posted : p = r

LEMMA TrimKeepsWords ==
  ASSUME NEW text \in Texts
  PROVE  Trim(text).words = text.words
  BY BankAssumption DEF Trim

LEMMA BoxInitInv == BoxInit => BoxInv
<1>1. Empty \in Texts
  BY BankAssumption DEF Texts
<1>. QED
  BY <1>1 DEF BoxInit, BoxInv, Names

LEMMA BoxStepInv == BoxInv /\ [BoxNext]_boxVars => BoxInv'
<1>. SUFFICES ASSUME BoxInv, [BoxNext]_boxVars
              PROVE  BoxInv'
  OBVIOUS
<1>. USE DEF BoxInv, Names, suggestion
<1>1. ASSUME NEW k \in Kinds, AskForSuggestion(k) \/ SuggestionFails(k)
      PROVE  BoxInv'
  BY <1>1 DEF AskForSuggestion, SuggestionFails
<1>2. ASSUME NEW k \in Kinds, SuggestionArrives(k)
      PROVE  BoxInv'
  <2>1. PICK q \in Bank : suggested' = {q} /\ question' = q.text /\ activeId' = q.id
    BY <1>2 DEF SuggestionArrives
  <2>2. q.text \in Texts
    BY DEF Texts
  <2>3. posted' = posted
    BY <1>2 DEF SuggestionArrives
  <2>. QED
    BY <2>1, <2>2, <2>3
<1>3. ASSUME NEW t \in Typed \cup {q.text : q \in suggested}, Type(t)
      PROVE  BoxInv'
  <2>1. question' = t /\ suggested' = suggested /\ posted' = posted
    BY <1>3 DEF Type
  <2>2. t \in Texts
    BY DEF Texts
  <2>3. CASE suggested = {}
    <3>1. activeId' = NoId
      BY <1>3, <2>3 DEF Type
    <3>. QED
      BY <2>1, <2>2, <2>3, <3>1
  <2>4. CASE suggested # {}
    <3>1. PICK q \in suggested : suggested = {q}
      BY <2>4
    <3>2. (CHOOSE r \in suggested : TRUE) = q
      BY <3>1
    <3>3. activeId' = IF q.text = t THEN q.id ELSE NoId
      BY <1>3, <2>4, <3>1, <3>2 DEF Type
    <3>. QED
      BY <2>1, <2>2, <2>4, <3>1, <3>3
  <2>. QED
    BY <2>3, <2>4
<1>4. CASE SubmitQuestion
  <2>1. /\ posted' = {[question |-> Trim(question), id |-> QuestionId, kind |-> kind]}
        /\ UNCHANGED suggestion
    BY <1>4 DEF SubmitQuestion
  <2>2. Trim(question).words = question.words
    BY TrimKeepsWords
  <2>3. Names(QuestionId, question.words)
    <3>1. CASE \E q \in suggested : q.text = Trim(question)
      <4>1. PICK q \in suggested : suggested = {q} /\ q.text = Trim(question)
        BY <3>1
      <4>2. (CHOOSE r \in suggested : TRUE) = q
        BY <4>1
      <4>. QED
        BY <2>2, <3>1, <4>1, <4>2 DEF QuestionId
    <3>2. CASE ~ \E q \in suggested : q.text = Trim(question)
      BY <3>2 DEF QuestionId
    <3>. QED
      BY <3>1, <3>2
  <2>. QED
    BY <2>1, <2>2, <2>3
<1>5. CASE QuestionAnswered
  BY <1>5 DEF QuestionAnswered
<1>6. CASE UNCHANGED boxVars
  BY <1>6 DEF boxVars
<1>. QED
  BY <1>1, <1>2, <1>3, <1>4, <1>5, <1>6 DEF BoxNext

\* BoxTypeOK: the box shows at most one suggestion, no more suggestions load than may,
\* and what is sent is trimmed text under a known id, however callbacks interleave.
THEOREM BoxTypeCorrect == BoxSpec => []BoxTypeOK
<1> DEFINE Sent == \A p \in posted : p.kind \in Kinds
           Everything == BoxTypeOK /\ Sent
<1>1. BoxInit => Everything
  <2>1. Empty \in Texts
    BY BankAssumption DEF Texts
  <2> QED
    BY <2>1, LoadsAssumption DEF BoxInit, BoxTypeOK, Kinds
<1>2. Everything /\ [BoxNext]_boxVars => Everything'
  <2> SUFFICES ASSUME BoxTypeOK, Sent, [BoxNext]_boxVars
               PROVE  BoxTypeOK' /\ Sent'
    OBVIOUS
  <2>1. ASSUME NEW k \in Kinds, LoadSuggestion(k)
        PROVE  loads' \in [Kinds -> 0..MaxLoads] /\ loading' \in BOOLEAN /\ kind' \in Kinds
    BY <2>1, LoadsAssumption DEF LoadSuggestion, BoxTypeOK
  <2>2. ASSUME NEW k \in Kinds, Settle(k)
        PROVE  loads' \in [Kinds -> 0..MaxLoads] /\ loading' \in BOOLEAN
    <3>1. loads[k] \in 1..MaxLoads /\ loads[k] - 1 \in 0..MaxLoads
      BY <2>2, LoadsAssumption DEF Settle, BoxTypeOK
    <3>2. loads' \in [Kinds -> 0..MaxLoads]
      BY <2>2, <3>1 DEF Settle, BoxTypeOK
    <3>3. loading' \in BOOLEAN
      BY <2>2, Zenon DEF Settle
    <3> QED
      BY <3>2, <3>3
  <2>3. ASSUME NEW k \in Kinds, AskForSuggestion(k)
        PROVE  BoxTypeOK' /\ Sent'
    BY <2>1, <2>3 DEF AskForSuggestion, BoxTypeOK, suggestion
  <2>4. ASSUME NEW k \in Kinds, SuggestionArrives(k)
        PROVE  BoxTypeOK' /\ Sent'
    BY <2>2, <2>4 DEF SuggestionArrives, BoxTypeOK, Texts, Ids
  <2>5. ASSUME NEW k \in Kinds, SuggestionFails(k)
        PROVE  BoxTypeOK' /\ Sent'
    BY <2>2, <2>5 DEF SuggestionFails, BoxTypeOK, suggestion
  <2>6. ASSUME NEW q \in suggested
        PROVE  /\ q \in Bank /\ q.id \in Ids /\ q.text \in Texts
               /\ (CHOOSE r \in suggested : TRUE) = q
    BY DEF BoxTypeOK, Ids, Texts
  <2>7. ASSUME NEW t \in Typed \cup {q.text : q \in suggested}, Type(t)
        PROVE  BoxTypeOK' /\ Sent'
    <3>1. question' \in Texts
      BY <2>6, <2>7 DEF Type, Texts
    <3>2. activeId' \in Ids \cup {NoId}
      BY <2>6, <2>7 DEF Type, BoxTypeOK
    <3> QED
      BY <2>7, <3>1, <3>2 DEF Type, BoxTypeOK
  <2>8. CASE SubmitQuestion
    <3>1. QuestionId \in Ids \cup {NoId}
      BY <2>6 DEF QuestionId, BoxTypeOK
    <3>2. Trim(Trim(question)) = Trim(question)
      BY BankAssumption DEF Trim, BoxTypeOK
    <3> QED
      BY <2>8, <3>1, <3>2 DEF SubmitQuestion, BoxTypeOK, suggestion
  <2>9. CASE QuestionAnswered
    <3>1. PICK p \in posted :
            /\ answer' = [known |-> p.id # NoId => Resolve(p.id, p.question) # {},
                          found |-> Resolve(p.id, p.question)]
            /\ posted' = {} /\ LoadSuggestion(p.kind) /\ UNCHANGED suggestion
      BY <2>9 DEF QuestionAnswered
    <3>2. Resolve(p.id, p.question) \subseteq Bank
      BY DEF Resolve, FirstOf
    <3>3. answer' \in [known : BOOLEAN, found : SUBSET Bank]
      BY <3>1, <3>2
    <3> QED
      BY <2>1, <3>1, <3>3 DEF BoxTypeOK, suggestion
  <2>10. CASE UNCHANGED boxVars
    BY <2>10 DEF boxVars, suggestion, BoxTypeOK
  <2> QED
    BY <2>3, <2>4, <2>5, <2>7, <2>8, <2>9, <2>10 DEF BoxNext
<1> QED
  BY <1>1, <1>2, PTL DEF BoxSpec

\* A question is judged by a benchmark question with its own words, or by none, unless
\* the bank holds its id twice; and an id it carries is one the server knows: for any
\* bank (only the adversarial ids are known to differ among themselves), and however
\* loads, edits and submissions overlap.
THEOREM QuestionsMeetTheirBenchmark == BoxSpec => BenchmarkFits
<1>1. BoxInv /\ [BoxNext]_boxVars =>
        [\A p \in posted : posted' = {} =>
           answer'.known /\ \A q \in answer'.found : Stands(q, p)]_boxVars
  <2>. SUFFICES ASSUME BoxInv, BoxNext, NEW p \in posted, posted' = {}
                PROVE  answer'.known /\ \A q \in answer'.found : Stands(q, p)
    OBVIOUS
  <2>1. QuestionAnswered
    BY DEF BoxNext, AskForSuggestion, SuggestionArrives, SuggestionFails, Type, SubmitQuestion
  <2>2. answer' = [known |-> p.id # NoId => Resolve(p.id, p.question) # {},
                   found |-> Resolve(p.id, p.question)]
    BY <2>1 DEF QuestionAnswered, BoxInv
  <2>3. Names(p.id, p.question.words)
    BY DEF BoxInv
  <2>4. CASE p.id = NoId
    <3>1. Resolve(p.id, p.question) \subseteq {q \in Bank : q.text = p.question}
      BY <2>4, BankAssumption DEF Resolve, FirstOf
    <3>. QED
      BY <2>2, <2>4, <3>1 DEF Stands
  <2>5. CASE p.id # NoId
    <3>1. PICK r \in Bank : r.id = p.id /\ r.text.words = p.question.words
      BY <2>3, <2>5 DEF Names
    <3>2. Resolve(p.id, p.question) = FirstOf({q \in Bank : q.id = p.id})
      BY <3>1 DEF Resolve, Ids
    <3>3. Resolve(p.id, p.question) # {}
      BY <3>1, <3>2 DEF FirstOf
    <3>4. \A q \in Resolve(p.id, p.question) : q \in Bank /\ q.id = p.id
      BY <3>2 DEF FirstOf
    <3>5. ASSUME NEW q \in Resolve(p.id, p.question)
          PROVE  Stands(q, p)
      <4>1. CASE q = r
        BY <3>1, <4>1 DEF Stands
      <4>2. CASE q # r
        BY <3>1, <3>4, <4>2 DEF Stands
      <4>. QED
        BY <4>1, <4>2
    <3>. QED
      BY <2>2, <3>3, <3>5
  <2>. QED
    BY <2>4, <2>5
<1>. QED
  BY <1>1, BoxInitInv, BoxStepInv, PTL DEF BoxSpec, BenchmarkFits
=============================================================================
