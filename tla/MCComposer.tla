----------------------------- MODULE MCComposer ------------------------------
EXTENDS Composer

Text(words) == [words |-> words, ragged |-> FALSE]

\* A benchmark question of its own id; one with white space around it, whose id a trap
\* also has; and two with the same id.
MCBank ==
  {[id |-> 1, kind |-> "benchmark", text |-> Text("gasoline")],
   [id |-> 2, kind |-> "benchmark", text |-> [words |-> "schools", ragged |-> TRUE]],
   [id |-> 2, kind |-> "adversarial", text |-> Text("ties")],
   [id |-> 4, kind |-> "benchmark", text |-> Text("loans")],
   [id |-> 4, kind |-> "benchmark", text |-> Text("funds")]}

\* Nothing, a suggestion typed by hand (also with a blank behind it), one's own words.
MCTyped == {Text(""), Text("gasoline"), [words |-> "gasoline", ragged |-> TRUE], Text("own")}
=============================================================================
