------------------------ MODULE SchemaBootstrapProofs -------------------------
(***************************************************************************)
(* Concurrent starts are safe for any number of processes and rows.          *)
(***************************************************************************)
EXTENDS SchemaBootstrap, TLAPS

\* The inspection and the rebuild are apart, but a rebuild is refused over the
\* current tables: both invariants are preserved by each step of each process.
LEMMA StartStep == TypeOK /\ ConnectedHasTables /\ [Next]_vars
                     => TypeOK' /\ ConnectedHasTables'
<1> USE RowsAssumption
<1> SUFFICES ASSUME TypeOK, ConnectedHasTables, [Next]_vars
             PROVE  TypeOK' /\ ConnectedHasTables'
  OBVIOUS
<1>1. ASSUME NEW p \in Processes, Inspect(p)
      PROVE  TypeOK' /\ ConnectedHasTables'
  BY <1>1 DEF TypeOK, ConnectedHasTables, Inspect, Goto, Tables
<1>2. ASSUME NEW p \in Processes, Rebuild(p)
      PROVE  TypeOK' /\ ConnectedHasTables'
  BY <1>2 DEF TypeOK, ConnectedHasTables, Rebuild, Goto, Tables
<1>3. ASSUME NEW p \in Processes, RebuildFails(p)
      PROVE  TypeOK' /\ ConnectedHasTables'
  BY <1>3 DEF TypeOK, ConnectedHasTables, RebuildFails, Goto, Tables
<1>4. ASSUME NEW p \in Processes, LogRun(p)
      PROVE  TypeOK' /\ ConnectedHasTables'
  BY <1>4 DEF TypeOK, ConnectedHasTables, LogRun, Tables
<1>5. ASSUME NEW p \in Processes, Stop(p)
      PROVE  TypeOK' /\ ConnectedHasTables'
  BY <1>5 DEF TypeOK, ConnectedHasTables, Stop, Goto, Tables
<1>6. CASE UNCHANGED vars
  BY <1>6 DEF TypeOK, ConnectedHasTables, vars, Tables
<1>. QED
  BY <1>1, <1>2, <1>3, <1>4, <1>5, <1>6 DEF Next

\* The tables, their rows and the processes keep their types, and a connected
\* process has the tables it writes to, whatever other processes start.
THEOREM StartsAreSafe == Spec => [](TypeOK /\ ConnectedHasTables)
<1>1. Init => TypeOK /\ ConnectedHasTables
  BY RowsAssumption DEF Init, TypeOK, ConnectedHasTables, Tables
<1>. QED
  BY <1>1, StartStep, PTL DEF Spec

\* No step of any process drops or loses rows of the current schema: the DROP of
\* a start that inspected the tables too early is refused.
THEOREM RowsSurviveStarts == Spec => CurrentRowsAreKept
<1>1. TypeOK /\ [Next]_vars => [tables = "current" => rows' >= rows /\ tables' = tables]_vars
  <2> SUFFICES ASSUME TypeOK, [Next]_vars, tables = "current"
               PROVE  rows' >= rows /\ tables' = tables
    OBVIOUS
  <2>1. rows \in Nat
    BY RowsAssumption DEF TypeOK
  <2>2. ASSUME NEW p \in Processes, Rebuild(p)
        PROVE  FALSE
    BY <2>2 DEF Rebuild, DropRefused
  <2>3. ASSUME NEW p \in Processes, Inspect(p) \/ RebuildFails(p) \/ LogRun(p) \/ Stop(p)
        PROVE  rows' >= rows /\ tables' = tables
    BY <2>1, <2>3 DEF Inspect, RebuildFails, LogRun, Stop
  <2>. QED
    BY <2>1, <2>2, <2>3 DEF Next, vars
<1>. QED
  BY <1>1, StartsAreSafe, PTL DEF Spec, CurrentRowsAreKept
=============================================================================
