----------------------------- MODULE EventStream -----------------------------
(***************************************************************************)
(* One streamed question on the wire: the frames _stream_create_run yields   *)
(* (api.py, _sse), the network that delivers them in arbitrary pieces, and    *)
(* the browser's reader (ui/src/lib/api.ts, createRunStream, parseSseChunk).  *)
(*                                                                         *)
(* The wire carries a sequence of tokens: <<"event", k>>, <<"data", k>> and   *)
(* line ends.  A frame is an event line, a data line and an empty line; JSON   *)
(* escapes line ends, so a data line holds none.  A piece may end anywhere     *)
(* between two tokens (and inside one, which the reader's buffer undoes).      *)
(***************************************************************************)
EXTENDS Naturals, Sequences, FiniteSets, SequencesExt

CONSTANT MaxSteps   \* bound on the step events of a run

ASSUME StepsAssumption == MaxSteps \in Nat

VARIABLES yielded,   \* events the handler has yielded
          wire,      \* tokens sent and not yet read
          body,      \* the response body: "open", "ended" or "broken"
          buffer,    \* the reader's buffer
          handled,   \* events the page's handlers were given
          result     \* of createRunStream: "pending", "resolved", "rejected"

vars == <<yielded, wire, body, buffer, handled, result>>

NewLine == <<"nl", "nl">>
Kinds == {"thinking", "step", "verifying", "done", "error"}
Token == {"event", "data"} \X Kinds \cup {NewLine}

TypeOK ==
  /\ yielded \in Seq(Kinds)
  /\ wire \in Seq(Token)
  /\ body \in {"open", "ended", "broken"}
  /\ buffer \in Seq(Token)
  /\ handled \in Seq(Kinds)
  /\ result \in {"pending", "resolved", "rejected"}

Init ==
  /\ yielded = <<>> /\ wire = <<>> /\ body = "open"
  /\ buffer = <<>> /\ handled = <<>> /\ result = "pending"

-----------------------------------------------------------------------------
(* The server.                                                              *)

Frame(k) == <<<<"event", k>>, NewLine, <<"data", k>>, NewLine, NewLine>>

Steps == Cardinality({i \in DOMAIN yielded : yielded[i] = "step"})

\* The order of the yields of _stream_create_run; an exception after the first
\* one ends the stream with an error event.
MayYield(k) ==
  CASE k = "thinking"  -> yielded = <<>>
    [] k = "step"      -> yielded # <<>> /\ Last(yielded) \in {"thinking", "step"}
                            /\ Steps < MaxSteps
    [] k = "verifying" -> yielded # <<>> /\ Last(yielded) \in {"thinking", "step"}
    [] k = "done"      -> yielded # <<>> /\ Last(yielded) = "verifying"
    [] k = "error"     -> yielded # <<>> /\ Last(yielded) \notin {"done", "error"}

Yield(k) ==
  /\ body = "open"
  /\ MayYield(k)
  /\ yielded' = Append(yielded, k)
  /\ wire' = wire \o Frame(k)
  /\ UNCHANGED <<body, buffer, handled, result>>

\* The generator returns after its last yield.
EndBody ==
  /\ body = "open"
  /\ yielded # <<>> /\ Last(yielded) \in {"done", "error"}
  /\ body' = "ended"
  /\ UNCHANGED <<yielded, wire, buffer, handled, result>>

\* The server dies or the connection breaks.  What was in flight may be cut off,
\* and the reader sees a failure or, behind a proxy, an ordinary end.
BreakOff ==
  /\ body = "open"
  /\ body' \in {"ended", "broken"}
  /\ \E n \in 0..Len(wire) : wire' = SubSeq(wire, 1, n)
  /\ UNCHANGED <<yielded, buffer, handled, result>>

-----------------------------------------------------------------------------
(* The reader.                                                              *)

\* A frame ends at the first two line ends in a row.
BlankLine(text, i) == i < Len(text) /\ text[i] = NewLine /\ text[i + 1] = NewLine

Boundaries(text) == {i \in 1..Len(text) : BlankLine(text, i)}

\* The chunk before the first boundary; parseSseChunk needs a data line.
Chunk(text) == SubSeq(text, 1, Min(Boundaries(text)) - 1)
Rest(text)  == SubSeq(text, Min(Boundaries(text)) + 2, Len(text))

Lines(chunk, field) == {i \in DOMAIN chunk : chunk[i][1] = field}

\* The event of a chunk: its last event line names it.  Without a data line there is
\* none, and one without a name ("message") has no handler.
Parsed(chunk) ==
  IF Lines(chunk, "data") = {} \/ Lines(chunk, "event") = {} THEN <<>>
  ELSE <<chunk[Max(Lines(chunk, "event"))][2]>>

\* Bug: what follows the frames of a piece is dropped with it.
ReadDroppingRest(n) ==
  /\ result = "pending" /\ Boundaries(buffer) = {}
  /\ n \in 1..Len(wire)
  /\ buffer' = SubSeq(wire, 1, n)
  /\ wire' = SubSeq(wire, n + 1, Len(wire))
  /\ UNCHANGED <<yielded, body, handled, result>>

\* reader.read(): a piece of the body, when the buffer holds no whole frame.
Read(n) ==
  /\ result = "pending" /\ Boundaries(buffer) = {}
  /\ n \in 1..Len(wire)
  /\ buffer' = buffer \o SubSeq(wire, 1, n)
  /\ wire' = SubSeq(wire, n + 1, Len(wire))
  /\ UNCHANGED <<yielded, body, handled, result>>

\* Bug: any end of the body resolves.
ReadEndResolving ==
  /\ result = "pending" /\ Boundaries(buffer) = {}
  /\ body = "ended" /\ wire = <<>>
  /\ result' = "resolved"
  /\ UNCHANGED <<yielded, wire, body, buffer, handled>>

\* Bug: reading goes on until "done" has been seen.
ReadEndAfterDone ==
  /\ result = "pending" /\ Boundaries(buffer) = {}
  /\ body = "ended" /\ wire = <<>>
  /\ Contains(handled, "done")
  /\ result' = "resolved"
  /\ UNCHANGED <<yielded, wire, body, buffer, handled>>

\* read() reports the end: resolved with the run of a "done" event seen, or rejected.
ReadEnd ==
  /\ result = "pending" /\ Boundaries(buffer) = {}
  /\ body = "ended" /\ wire = <<>>
  /\ result' = IF Contains(handled, "done") THEN "resolved" ELSE "rejected"
  /\ UNCHANGED <<yielded, wire, body, buffer, handled>>

\* read() throws, with or without the rest of the wire.
ReadFails ==
  /\ result = "pending" /\ Boundaries(buffer) = {}
  /\ body = "broken"
  /\ result' = "rejected"
  /\ UNCHANGED <<yielded, wire, body, buffer, handled>>

\* One turn of the inner loop; an "error" event throws.
Handle ==
  /\ result = "pending" /\ Boundaries(buffer) # {}
  /\ buffer' = Rest(buffer)
  /\ handled' = handled \o Parsed(Chunk(buffer))
  /\ result' = IF Contains(Parsed(Chunk(buffer)), "error") THEN "rejected" ELSE result
  /\ UNCHANGED <<yielded, wire, body>>

Next ==
  \/ \E k \in Kinds : Yield(k)
  \/ EndBody \/ BreakOff
  \/ \E n \in 1..Len(wire) : Read(n)
  \/ ReadEnd \/ ReadFails \/ Handle

Spec == Init /\ [][Next]_vars

\* The server goes on, the network delivers, the page reads.
FairSpec == Spec /\ WF_vars(Next)

-----------------------------------------------------------------------------
(* Properties.                                                              *)

\* However the body is cut into pieces, the page handles the events that were
\* yielded, in order, none twice, none invented, none skipped.
HandledIsPrefix == IsPrefix(handled, yielded)

\* A question counts as answered only on its "done" event: a body that breaks off
\* before it is never taken for an answer.  An answer that arrived is kept, unless
\* the connection fails before the end of the body.
AnsweredIffDone ==
  result # "pending" =>
    IF body = "broken" THEN result = "rejected"
    ELSE result = "resolved" <=> Contains(handled, "done")

\* The question is settled in the end, whatever happens to the server.
QuestionSettles == <>(result # "pending")
=============================================================================
