------------------------ MODULE RecoveryLadderProofs ------------------------
(***************************************************************************)
(* Proofs about RecoveryLadder, for any number of operations and channels, *)
(* any failures and any budget that satisfy RecoveryAssumption.            *)
(*                                                                         *)
(* BudgetKept is not inductive.  What it needs besides the types:          *)
(*   - counter objects are not shared between channels, and one that       *)
(*     nobody points to is zero, as the next owner finds it (CellsApart,   *)
(*     IdleHoldsNone, DeadIsZero);                                         *)
(*   - while no two calls overlap, the object a call holds is still the    *)
(*     one in the table (Alone, Owns) and the value it has read is still   *)
(*     there;                                                              *)
(*   - how far a call has climbed bounds what it has added (ClimbedBy),    *)
(*     and what has been counted covers the recoveries made (CoveredAt).   *)
(*                                                                         *)
(* SpentStaysSpent, at the end, is about calls that do overlap: it needs   *)
(* the types only, and holds because what a call writes is more than what  *)
(* it has read.                                                            *)
(***************************************************************************)
EXTENDS RecoveryLadder, TLAPS

CellsApart ==
  \A c, d \in Used : table[c] = table[d] /\ table[c] # NoCell => c = d

IdleHoldsNone == \A x \in Caller : pc[x] = "idle" => cell[x] = NoCell

DeadIsZero ==
  \A k \in Cell : ~Alive(k, table, cell) => attempts[k] = 0 /\ resets[k] = 0

Alone ==
  \A x, y \in Caller : Inside(x) /\ Inside(y) /\ on[x] = on[y] => x = y

Owns(x) == Inside(x) => table[on[x]] = cell[x]

\* A call that passed the check has at least one attempt left of the budget,
\* and each level up to its own has added one.
ClimbedBy(x) ==
  /\ pc[x] \in {"level", "arm", "count"} =>
       level[x] \in 2..5 /\ attempts[cell[x]] <= MaxAttempts + level[x] - 3
  /\ pc[x] \in {"act", "scan", "resolve"} =>
       level[x] \in 2..5 /\ attempts[cell[x]] <= MaxAttempts + level[x] - 2
  /\ pc[x] = "arm" => /\ seen[x] = resets[cell[x]]
                      /\ resets[cell[x]] < MaxDeviceResets
                      /\ level[x] = 5
  /\ pc[x] = "count" => seen[x] = attempts[cell[x]]
  /\ pc[x] \in {"count", "act"} /\ level[x] = 5 =>
       cycles[on[x]] < resets[cell[x]]

CoveredAt(c) ==
  IF table[c] = NoCell
  THEN cycles[c] = 0
  ELSE /\ cycles[c] <= resets[table[c]]
       /\ resets[table[c]] <= MaxDeviceResets
       /\ attempts[table[c]] <= MaxAttempts + 3

Kept ==
  /\ Alone
  /\ \A x \in Caller : Owns(x) /\ ClimbedBy(x)
  /\ \A c \in Used : CoveredAt(c)

CellsInv == CellsApart /\ IdleHoldsNone /\ DeadIsZero

BudgetInv ==
  /\ TypeOK
  /\ CellsInv
  /\ ~overlap => Kept

-----------------------------------------------------------------------------
(* What the operators of the ladder do *)

LEMMA LevelsRange == \A f \in Failure : Levels[f] \subseteq 2..5
  BY DEF Failure, Levels

\* Return: the caller is out, and what is left of the counters is what somebody
\* can still see.
LEMMA ReturnStep ==
  ASSUME TypeOK, NEW x \in Caller, Return(x, table')
  PROVE  /\ pc' = [pc EXCEPT ![x] = "idle"] /\ pc'[x] = "idle"
         /\ cell' = [cell EXCEPT ![x] = NoCell] /\ cell'[x] = NoCell
         /\ on' \in [Caller -> Used] /\ failure' \in [Caller -> Failures]
         /\ level' \in [Caller -> 1..6] /\ seen' \in [Caller -> Nat]
         /\ \A y \in Caller \ {x} : on'[y] = on[y] /\ level'[y] = level[y] /\ seen'[y] = seen[y]
         /\ attempts' \in [Cell -> Nat] /\ resets' \in [Cell -> Nat]
         /\ \A k \in Cell : Alive(k, table', cell') =>
              attempts'[k] = attempts[k] /\ resets'[k] = resets[k]
         /\ \A k \in Cell : ~Alive(k, table', cell') => attempts'[k] = 0 /\ resets'[k] = 0
  <1>1. AnyChannel \in Used /\ AnyFailure \in Failures
    BY RecoveryAssumption DEF AnyChannel, AnyFailure
  <1>2. /\ pc' = [pc EXCEPT ![x] = "idle"]
        /\ on' = [on EXCEPT ![x] = AnyChannel]
        /\ failure' = [failure EXCEPT ![x] = AnyFailure]
        /\ level' = [level EXCEPT ![x] = 1]
        /\ seen' = [seen EXCEPT ![x] = 0]
        /\ cell' = [cell EXCEPT ![x] = NoCell]
        /\ attempts' = [k \in Cell |-> IF Alive(k, table', cell') THEN attempts[k] ELSE 0]
        /\ resets' = [k \in Cell |-> IF Alive(k, table', cell') THEN resets[k] ELSE 0]
    BY DEF Return
  <1> HIDE DEF Alive
  <1>3. /\ attempts' \in [Cell -> Nat] /\ resets' \in [Cell -> Nat]
        /\ \A k \in Cell : Alive(k, table', cell') =>
             attempts'[k] = attempts[k] /\ resets'[k] = resets[k]
        /\ \A k \in Cell : ~Alive(k, table', cell') => attempts'[k] = 0 /\ resets'[k] = 0
    BY <1>2 DEF TypeOK
  <1> QED
    BY <1>1, <1>2, <1>3 DEF TypeOK

\* Climb: the caller is out, or at a level above k with all else as it was.
LEMMA ClimbStep ==
  ASSUME TypeOK, NEW x \in Caller, NEW k \in Int, Climb(x, k)
  PROVE  \/ Return(x, table)
         \/ /\ pc' = [pc EXCEPT ![x] = "level"]
            /\ \E j \in 2..5 : j > k /\ level' = [level EXCEPT ![x] = j]
            /\ UNCHANGED <<on, failure, cell, seen, attempts, resets>>
  <1>1. Levels[failure[x]] \subseteq 2..5
    BY LevelsRange, RecoveryAssumption DEF TypeOK
  <1> QED
    BY <1>1 DEF Climb

\* RecoverVia counts at most one device recovery, that of L5.
LEMMA CycleStep ==
  ASSUME TypeOK, NEW x \in Caller, RecoverVia(x)
  PROVE  /\ cycles' \in [Used -> 0..(MaxDeviceResets + 1)]
         /\ \A c \in Used \ {on[x]} : cycles'[c] = cycles[c]
         /\ \/ cycles'[on[x]] = cycles[on[x]]
            \/ level[x] = 5 /\ cycles'[on[x]] = cycles[on[x]] + 1
  <1>1. on[x] \in Used /\ cycles \in [Used -> 0..(MaxDeviceResets + 1)]
        /\ MaxDeviceResets \in Nat
    BY RecoveryAssumption DEF TypeOK
  <1>2. CASE level[x] = 5 /\ ~overlap /\ cycles[on[x]] <= MaxDeviceResets
    <2>1. cycles' = [cycles EXCEPT ![on[x]] = cycles[on[x]] + 1]
      BY <1>2 DEF RecoverVia
    <2>2. cycles[on[x]] + 1 \in 0..(MaxDeviceResets + 1)
      BY <1>1, <1>2
    <2> QED
      BY <1>1, <1>2, <2>1, <2>2
  <1>3. CASE ~(level[x] = 5 /\ ~overlap /\ cycles[on[x]] <= MaxDeviceResets)
    <2>1. cycles' = [cycles EXCEPT ![on[x]] = cycles[on[x]]]
      BY <1>3 DEF RecoverVia
    <2> QED
      BY <1>1, <2>1
  <1> QED
    BY <1>2, <1>3

-----------------------------------------------------------------------------
(* Types *)

LEMMA InitType == Init => TypeOK
  <1> SUFFICES ASSUME Init PROVE TypeOK
    OBVIOUS
  <1>1. AnyChannel \in Used /\ AnyFailure \in Failures
    BY RecoveryAssumption DEF AnyChannel, AnyFailure
  <1>2. overlap \in BOOLEAN
    BY Zenon DEF Init
  <1> QED
    BY <1>1, <1>2, RecoveryAssumption DEF Init, TypeOK, PC

\* Each step of the ladder keeps the types.
LEMMA TypeStep == TypeOK /\ [Next]_vars => TypeOK'
  <1> SUFFICES ASSUME TypeOK, [Next]_vars PROVE TypeOK'
    OBVIOUS
  <1> USE RecoveryAssumption DEF callVars
  <1>1. ASSUME NEW x \in Caller, Return(x, table'), UNCHANGED <<scan, overlap>>,
               table' \in [Used -> Cell \cup {NoCell}], ready' \subseteq Channel,
               cycles' \in [Used -> 0..(MaxDeviceResets + 1)]
        PROVE  TypeOK'
    <2>1. \A y \in Caller : pc'[y] # "idle" => cell'[y] # NoCell
      BY <1>1, ReturnStep DEF TypeOK
    <2> QED
      BY <1>1, <2>1, ReturnStep DEF TypeOK, PC
  <1>2. ASSUME NEW x \in Caller, pc[x] # "idle", NEW k \in Int, Climb(x, k),
               UNCHANGED <<scan, table, overlap>>, ready' \subseteq Channel,
               cycles' \in [Used -> 0..(MaxDeviceResets + 1)]
        PROVE  TypeOK'
    <2>1. CASE Return(x, table)
      BY <1>1, <1>2, <2>1 DEF TypeOK
    <2>2. CASE /\ pc' = [pc EXCEPT ![x] = "level"]
               /\ \E j \in 2..5 : j > k /\ level' = [level EXCEPT ![x] = j]
               /\ UNCHANGED <<on, failure, cell, seen, attempts, resets>>
      BY <1>2, <2>2 DEF TypeOK, PC
    <2> QED
      BY <1>2, <2>1, <2>2, ClimbStep
  <1>3. ASSUME NEW x \in Caller, NEW c \in Used, NEW f \in Failures, Enter(x, c, f)
        PROVE  TypeOK'
    <2>1. PICK k \in Cell : cell' = [cell EXCEPT ![x] = k] /\ table' = [table EXCEPT ![c] = k]
      BY <1>3 DEF Enter
    <2>2. overlap' \in BOOLEAN
      BY <1>3, Zenon DEF Enter, Overlap, TypeOK
    <2>3. cycles' \in [Used -> 0..(MaxDeviceResets + 1)]
      BY <1>3 DEF Enter, Overlap, TypeOK
    <2>4. k # NoCell
      OBVIOUS
    <2> QED
      BY <1>3, <2>1, <2>2, <2>3, <2>4 DEF Enter, TypeOK, PC
  <1>4. ASSUME NEW x \in Caller, Check(x) PROVE TypeOK'
    BY <1>1, <1>2, <1>4 DEF Check, TypeOK
  <1>5. ASSUME NEW x \in Caller, StartLevel(x) PROVE TypeOK'
    BY <1>5 DEF StartLevel, Goto, TypeOK, PC
  <1>6. ASSUME NEW x \in Caller, StartDeviceRecovery(x) PROVE TypeOK'
    <2>1. CASE Return(x, table)
      BY <1>1, <1>6, <2>1 DEF StartDeviceRecovery, TypeOK
    <2>2. CASE seen' = [seen EXCEPT ![x] = resets[cell[x]]] /\ Goto(x, "arm")
               /\ UNCHANGED <<attempts, resets>>
      BY <1>6, <2>2 DEF StartDeviceRecovery, Goto, TypeOK, PC
    <2> QED
      BY <1>6, <2>1, <2>2 DEF StartDeviceRecovery
  <1>7. ASSUME NEW x \in Caller, Arm(x) PROVE TypeOK'
    BY <1>7 DEF Arm, Goto, TypeOK, PC
  <1>8. ASSUME NEW x \in Caller, Count(x) PROVE TypeOK'
    BY <1>8 DEF Count, Goto, TypeOK, PC
  <1>9. ASSUME NEW x \in Caller, RecoverVia(x) PROVE TypeOK'
    <2>1. cycles' \in [Used -> 0..(MaxDeviceResets + 1)]
      BY <1>9, CycleStep
    <2>2. CASE Climb(x, level[x]) /\ ready' = ready \ {on[x]}
      <3>1. level[x] \in Int
        BY DEF TypeOK
      <3>2. ready \subseteq Channel
        BY DEF TypeOK
      <3>3. ready' \subseteq Channel
        BY <2>2, <3>2
      <3>4. pc[x] # "idle"
        BY <1>9 DEF RecoverVia
      <3>5. UNCHANGED <<scan, table, overlap>>
        BY <1>9 DEF RecoverVia
      <3> QED
        BY <1>2, <2>1, <2>2, <3>1, <3>3, <3>4, <3>5
    <2>3. CASE ready' = ready \cup {on[x]} /\ Goto(x, "reset") /\ UNCHANGED <<seen, attempts, resets>>
      BY <1>9, <2>1, <2>3 DEF RecoverVia, Goto, TypeOK, PC
    <2> QED
      BY <1>9, <2>2, <2>3 DEF RecoverVia
  <1>10. ASSUME NEW x \in Caller, Rediscover(x) PROVE TypeOK'
    BY <1>10 DEF Rediscover, Goto, TypeOK, PC
  <1>11. ASSUME NEW x \in Caller, NEW c \in Channel, OpenFound(x, c) PROVE TypeOK'
    BY <1>11 DEF OpenFound, TypeOK
  <1>12. ASSUME NEW x \in Caller, Degrade(x) PROVE TypeOK'
    BY <1>12 DEF Degrade, Goto, TypeOK, PC
  <1>13. ASSUME NEW x \in Caller, ReResolve(x) PROVE TypeOK'
    <2>1. CASE Climb(x, level[x])
      BY <1>2, <1>13, <2>1 DEF ReResolve, TypeOK
    <2>2. CASE Goto(x, "reset") /\ UNCHANGED <<seen, attempts, resets>>
      BY <1>13, <2>2 DEF ReResolve, Goto, TypeOK, PC
    <2> QED
      BY <1>13, <2>1, <2>2 DEF ReResolve
  <1>14. ASSUME NEW x \in Caller, Reset(x) PROVE TypeOK'
    BY <1>1, <1>14 DEF Reset, TypeOK
  <1>15. ASSUME NEW c \in Channel, Lose(c) \/ Reopen(c) PROVE TypeOK'
    BY <1>15 DEF Lose, Reopen, TypeOK
  <1>16. CASE UNCHANGED vars
    BY <1>16 DEF vars, TypeOK
  <1> QED
    BY <1>3, <1>4, <1>5, <1>6, <1>7, <1>8, <1>9, <1>10, <1>11, <1>12, <1>13, <1>14,
       <1>15, <1>16 DEF Next, Ladder

-----------------------------------------------------------------------------
(* The counters: who holds which, and what is zero *)

\* A step that leaves the table and everybody's counter object alone and
\* writes only to the object of x.
LEMMA CountKeepsCells ==
  ASSUME TypeOK, CellsInv, NEW x \in Caller, pc[x] # "idle", UNCHANGED <<table, cell>>,
         NEW p \in PC \ {"idle"}, pc' = [pc EXCEPT ![x] = p],
         \A k \in Cell \ {cell[x]} : attempts'[k] = attempts[k] /\ resets'[k] = resets[k]
  PROVE  CellsInv'
  <1>1. CellsApart' /\ IdleHoldsNone'
    BY DEF TypeOK, CellsInv, CellsApart, IdleHoldsNone
  <1>2. Alive(cell[x], table', cell')
    BY DEF Alive
  <1>3. DeadIsZero'
    BY <1>2 DEF CellsInv, DeadIsZero, Alive
  <1> QED
    BY <1>1, <1>3 DEF CellsInv

LEMMA ReturnKeepsCells ==
  ASSUME TypeOK, CellsInv, NEW x \in Caller, Return(x, table'),
         table' \in [Used -> Cell \cup {NoCell}],
         \A c \in Used : table'[c] = table[c] \/ table'[c] = NoCell
  PROVE  CellsInv'
  <1>1. CellsApart'
    BY DEF CellsInv, CellsApart
  <1>2. IdleHoldsNone' /\ DeadIsZero'
    BY ReturnStep DEF CellsInv, IdleHoldsNone, DeadIsZero, TypeOK
  <1> QED
    BY <1>1, <1>2 DEF CellsInv

LEMMA ClimbKeepsCells ==
  ASSUME TypeOK, CellsInv, NEW x \in Caller, pc[x] # "idle", NEW k \in Int, Climb(x, k),
         UNCHANGED table
  PROVE  CellsInv'
  <1>1. CASE Return(x, table)
    BY <1>1, ReturnKeepsCells DEF TypeOK
  <1>2. CASE pc' = [pc EXCEPT ![x] = "level"] /\ UNCHANGED <<cell, attempts, resets>>
    BY <1>2, CountKeepsCells DEF PC
  <1> QED
    BY <1>1, <1>2, ClimbStep

LEMMA GotoKeepsCells ==
  ASSUME TypeOK, CellsInv, NEW x \in Caller, pc[x] # "idle", NEW p \in PC \ {"idle"},
         Goto(x, p), UNCHANGED <<table, attempts, resets>>
  PROVE  CellsInv'
  BY CountKeepsCells DEF Goto

LEMMA EnterKeepsCells ==
  ASSUME TypeOK, CellsInv, NEW x \in Caller, NEW c \in Used, NEW f \in Failures, Enter(x, c, f)
  PROVE  CellsInv'
  <1>1. PICK k \in Cell : /\ \/ k = table[c]
                             \/ table[c] = NoCell /\ ~Alive(k, table, cell)
                          /\ cell' = [cell EXCEPT ![x] = k]
                          /\ table' = [table EXCEPT ![c] = k]
    BY DEF Enter
  <1>2. cell[x] = NoCell /\ NoCell \notin Cell
    BY RecoveryAssumption DEF Enter, CellsInv, IdleHoldsNone
  <1>3. CellsApart'
    <2>1. \A d \in Used \ {c} : table[d] # k
      BY <1>1, <1>2 DEF CellsInv, CellsApart, Alive
    <2> QED
      BY <1>1, <2>1 DEF TypeOK, CellsInv, CellsApart
  <1>4. IdleHoldsNone'
    BY <1>1 DEF Enter, TypeOK, CellsInv, IdleHoldsNone
  <1>5. \A j \in Cell : Alive(j, table, cell) => Alive(j, table', cell')
    BY <1>1, <1>2 DEF TypeOK, Alive
  <1>6. DeadIsZero'
    BY <1>5 DEF Enter, CellsInv, DeadIsZero
  <1> QED
    BY <1>3, <1>4, <1>6 DEF CellsInv

\* The objects stay apart, and zero when nobody sees them, in every step.
LEMMA CellsStep == TypeOK /\ CellsInv /\ [Next]_vars => CellsInv'
  <1> SUFFICES ASSUME TypeOK, CellsInv, [Next]_vars PROVE CellsInv'
    OBVIOUS
  <1>1. ASSUME NEW x \in Caller, Check(x) PROVE CellsInv'
    <2>1. CASE Return(x, table)
      BY <1>1, <2>1, ReturnKeepsCells DEF Check, TypeOK
    <2>2. CASE Climb(x, 1)
      BY <1>1, <2>2, ClimbKeepsCells DEF Check
    <2> QED
      BY <1>1, <2>1, <2>2 DEF Check
  <1>2. ASSUME NEW x \in Caller, StartLevel(x) \/ Rediscover(x) \/ Degrade(x) PROVE CellsInv'
    BY <1>2, GotoKeepsCells DEF StartLevel, Rediscover, Degrade, PC
  <1>3. ASSUME NEW x \in Caller, StartDeviceRecovery(x) PROVE CellsInv'
    <2>1. CASE Return(x, table)
      BY <1>3, <2>1, ReturnKeepsCells DEF StartDeviceRecovery, TypeOK
    <2>2. CASE Goto(x, "arm") /\ UNCHANGED <<attempts, resets>>
      BY <1>3, <2>2, GotoKeepsCells DEF StartDeviceRecovery, PC
    <2> QED
      BY <1>3, <2>1, <2>2 DEF StartDeviceRecovery
  <1>4. ASSUME NEW x \in Caller, Arm(x) \/ Count(x) PROVE CellsInv'
    <2>1. /\ UNCHANGED <<table, cell>> /\ pc[x] # "idle"
          /\ \E p \in PC \ {"idle"} : pc' = [pc EXCEPT ![x] = p]
      BY <1>4 DEF Arm, Count, Goto, PC
    <2>2. \A k \in Cell \ {cell[x]} : attempts'[k] = attempts[k] /\ resets'[k] = resets[k]
      BY <1>4 DEF Arm, Count, TypeOK
    <2> QED
      BY <2>1, <2>2, CountKeepsCells
  <1>5. ASSUME NEW x \in Caller, RecoverVia(x) \/ ReResolve(x) PROVE CellsInv'
    <2>1. level[x] \in Int /\ pc[x] # "idle" /\ UNCHANGED table
      BY <1>5 DEF RecoverVia, ReResolve, TypeOK
    <2>2. CASE Goto(x, "reset") /\ UNCHANGED <<attempts, resets>>
      BY <2>1, <2>2, GotoKeepsCells DEF PC
    <2>3. CASE Climb(x, level[x])
      BY <2>1, <2>3, ClimbKeepsCells
    <2> QED
      BY <1>5, <2>2, <2>3 DEF RecoverVia, ReResolve
  <1>6. ASSUME NEW x \in Caller, Reset(x) PROVE CellsInv'
    <2>1. /\ table' \in [Used -> Cell \cup {NoCell}]
          /\ \A c \in Used : table'[c] = table[c] \/ table'[c] = NoCell
      BY <1>6 DEF Reset, TypeOK
    <2> QED
      BY <1>6, <2>1, ReturnKeepsCells DEF Reset
  <1>7. ASSUME UNCHANGED <<pc, table, cell, attempts, resets>> PROVE CellsInv'
    BY <1>7 DEF CellsInv, CellsApart, IdleHoldsNone, DeadIsZero, Alive
  <1> QED
    BY <1>1, <1>2, <1>3, <1>4, <1>5, <1>6, <1>7, EnterKeepsCells
    DEF Next, Ladder, OpenFound, Lose, Reopen, vars, callVars

-----------------------------------------------------------------------------
(* The budget, while no two calls overlap *)

KeptInv == TypeOK /\ CellsInv /\ Kept

\* Two callers never hold one object, and an object in the table that a caller
\* holds is the one of its channel.
LEMMA HeldApart ==
  ASSUME KeptInv, NEW x \in Caller, Inside(x)
  PROVE  /\ cell[x] \in Cell /\ on[x] \in Used /\ table[on[x]] = cell[x]
         /\ \A c \in Used \ {on[x]} : table[c] # cell[x]
         /\ \A y \in Caller \ {x} : Inside(y) => cell[y] # cell[x] /\ on[y] # on[x]
  <1>1. cell[x] \in Cell /\ on[x] \in Used /\ table[on[x]] = cell[x]
    BY DEF KeptInv, TypeOK, Kept, Owns, Inside
  <1>2. \A c \in Used \ {on[x]} : table[c] # cell[x]
    BY <1>1, RecoveryAssumption DEF KeptInv, CellsInv, CellsApart
  <1>3. ASSUME NEW y \in Caller \ {x}, Inside(y) PROVE cell[y] # cell[x] /\ on[y] # on[x]
    <2>1. on[y] # on[x]
      BY <1>3 DEF KeptInv, Kept, Alone
    <2>2. on[y] \in Used /\ table[on[y]] = cell[y]
      BY <1>3 DEF KeptInv, TypeOK, Kept, Owns
    <2> QED
      BY <1>2, <2>1, <2>2
  <1> QED
    BY <1>1, <1>2, <1>3

\* What a step of x leaves alone: the locals of the others, the counters they
\* can see, the entries of the other channels.
Frame(x) ==
  /\ \A y \in Caller \ {x} : /\ pc'[y] = pc[y] /\ on'[y] = on[y] /\ level'[y] = level[y]
                             /\ cell'[y] = cell[y] /\ seen'[y] = seen[y]
  /\ \A c \in Used \ {on[x]} : table'[c] = table[c] /\ cycles'[c] = cycles[c]
  /\ \A k \in Cell \ {cell[x]} : Alive(k, table', cell') =>
       attempts'[k] = attempts[k] /\ resets'[k] = resets[k]
  /\ pc'[x] = "idle" \/ on'[x] = on[x]

\* Such a step disturbs only what is about x and its channel.
LEMMA FrameKeeps ==
  ASSUME KeptInv, NEW x \in Caller, Inside(x), Frame(x),
         pc'[x] = "idle" \/ (Owns(x)' /\ ClimbedBy(x)'),
         \A c \in Used : c = on[x] => CoveredAt(c)'
  PROVE  Kept'
  <1>0. /\ cell[x] \in Cell /\ on[x] \in Used /\ table[on[x]] = cell[x]
        /\ \A c \in Used \ {on[x]} : table[c] # cell[x]
        /\ \A y \in Caller \ {x} : Inside(y) => cell[y] # cell[x] /\ on[y] # on[x]
    BY HeldApart
  <1>1. Alone'
    BY DEF KeptInv, Kept, Alone, Frame, Inside
  <1>2. ASSUME NEW y \in Caller \ {x}, Inside(y)
        PROVE  /\ on[y] \in Used \ {on[x]} /\ cell[y] \in Cell \ {cell[x]}
               /\ table'[on[y]] = table[on[y]] /\ cycles'[on[y]] = cycles[on[y]]
               /\ attempts'[cell[y]] = attempts[cell[y]] /\ resets'[cell[y]] = resets[cell[y]]
    <2>1. on[y] \in Used \ {on[x]} /\ cell[y] \in Cell \ {cell[x]}
      BY <1>0, <1>2, HeldApart
    <2>2. Alive(cell[y], table', cell')
      BY DEF Frame, Alive
    <2> QED
      BY <2>1, <2>2 DEF Frame
  <1>3. ASSUME NEW y \in Caller \ {x} PROVE Owns(y)' /\ ClimbedBy(y)'
    <2>1. CASE Inside(y)
      <3>1. Owns(y) /\ ClimbedBy(y)
        BY DEF KeptInv, Kept
      <3>2. Owns(y)'
        BY <1>2, <2>1, <3>1 DEF Owns, Frame, Inside
      <3>3. ClimbedBy(y)'
        BY <1>2, <2>1, <3>1 DEF ClimbedBy, Frame
      <3> QED
        BY <3>2, <3>3
    <2>2. CASE ~Inside(y)
      BY <2>2 DEF Owns, ClimbedBy, Frame, Inside
    <2> QED
      BY <2>1, <2>2
  <1>4. Owns(x)' /\ ClimbedBy(x)'
    BY DEF Owns, ClimbedBy, Inside
  <1>5. ASSUME NEW c \in Used \ {on[x]} PROVE CoveredAt(c)'
    <2>1. CoveredAt(c) /\ table'[c] = table[c] /\ cycles'[c] = cycles[c]
      BY DEF KeptInv, Kept, Frame
    <2>2. CASE table[c] = NoCell
      BY <2>1, <2>2 DEF CoveredAt
    <2>3. CASE table[c] # NoCell
      <3>1. table[c] \in Cell \ {cell[x]} /\ Alive(table[c], table', cell')
        BY <1>0, <2>1, <2>3 DEF KeptInv, TypeOK, Alive
      <3>2. attempts'[table[c]] = attempts[table[c]] /\ resets'[table[c]] = resets[table[c]]
        BY <3>1 DEF Frame
      <3> QED
        BY <2>1, <2>3, <3>2 DEF CoveredAt
    <2> QED
      BY <2>2, <2>3
  <1> QED
    BY <1>1, <1>3, <1>4, <1>5 DEF Kept

\* A caller that returns takes nothing with it, and what the table still names
\* keeps its counts.
LEMMA ReturnKeeps ==
  ASSUME KeptInv, NEW x \in Caller, Inside(x), Return(x, table'),
         UNCHANGED <<table, cycles>> \/
           (table' = [table EXCEPT ![on[x]] = NoCell] /\ cycles' = [cycles EXCEPT ![on[x]] = 0])
  PROVE  Kept'
  <1>1. Frame(x)
    BY ReturnStep DEF KeptInv, TypeOK, Frame
  <1>2. pc'[x] = "idle" /\ on[x] \in Used
    BY ReturnStep DEF KeptInv, TypeOK
  <1>3. CoveredAt(on[x])
    BY <1>2 DEF KeptInv, Kept
  <1>4. ASSUME NEW c \in Used, c = on[x] PROVE CoveredAt(c)'
    <2>1. CASE UNCHANGED <<table, cycles>>
      <3>1. CASE table[c] = NoCell
        BY <1>3, <1>4, <2>1, <3>1 DEF CoveredAt
      <3>2. CASE table[c] # NoCell
        <4>1. table[c] \in Cell /\ Alive(table[c], table', cell')
          BY <2>1, <3>2 DEF KeptInv, TypeOK, Alive
        <4>2. attempts'[table[c]] = attempts[table[c]] /\ resets'[table[c]] = resets[table[c]]
          BY <4>1, ReturnStep DEF KeptInv
        <4> QED
          BY <1>3, <1>4, <2>1, <3>2, <4>2 DEF CoveredAt
      <3> QED
        BY <3>1, <3>2
    <2>2. CASE table' = [table EXCEPT ![on[x]] = NoCell] /\ cycles' = [cycles EXCEPT ![on[x]] = 0]
      BY <1>4, <2>2 DEF CoveredAt, KeptInv, TypeOK
    <2> QED
      BY <2>1, <2>2
  <1> QED
    BY <1>1, <1>2, <1>4, FrameKeeps

\* A caller that goes on to p without touching the counters.
LEMMA GotoKeeps ==
  ASSUME KeptInv, NEW x \in Caller, Inside(x), NEW p \in PC, Goto(x, p),
         UNCHANGED <<table, attempts, resets, cycles>>,
         \A y \in Caller \ {x} : seen'[y] = seen[y],
         ClimbedBy(x)'
  PROVE  Kept'
  <1>1. Frame(x)
    BY DEF KeptInv, TypeOK, Frame, Goto
  <1>2. Owns(x)'
    BY DEF KeptInv, Kept, Owns, Goto, Inside
  <1>3. \A c \in Used : CoveredAt(c)'
    BY DEF KeptInv, Kept, CoveredAt
  <1> QED
    BY <1>1, <1>2, <1>3, FrameKeeps

\* A caller that goes up: the level above k has one attempt more to its credit.
LEMMA ClimbKeeps ==
  ASSUME KeptInv, NEW x \in Caller, Inside(x), NEW k \in 1..5, Climb(x, k),
         UNCHANGED <<table, cycles>>,
         attempts[cell[x]] <= MaxAttempts + k - 2
  PROVE  Kept'
  <1>1. CASE Return(x, table)
    BY <1>1, ReturnKeeps
  <1>2. ASSUME NEW j \in 2..5, j > k, pc' = [pc EXCEPT ![x] = "level"],
               level' = [level EXCEPT ![x] = j],
               UNCHANGED <<on, failure, cell, seen, attempts, resets>>
        PROVE  Kept'
    <2>1. Frame(x)
      BY <1>2 DEF KeptInv, TypeOK, Frame
    <2>2. Owns(x)'
      BY <1>2 DEF KeptInv, Kept, Owns, Inside
    <2>3. /\ pc'[x] = "level" /\ level'[x] = j
          /\ attempts' = attempts /\ cell' = cell
          /\ attempts[cell[x]] \in Nat /\ MaxAttempts \in Nat
      BY <1>2, HeldApart, RecoveryAssumption DEF KeptInv, TypeOK
    <2>4. ClimbedBy(x)'
      BY <1>2, <2>3 DEF ClimbedBy
    <2>5. \A c \in Used : CoveredAt(c)'
      BY <1>2 DEF KeptInv, Kept, CoveredAt
    <2> QED
      BY <2>1, <2>2, <2>4, <2>5, FrameKeeps
  <1> QED
    BY <1>1, <1>2, ClimbStep DEF KeptInv

\* A call that overlaps with no other finds the channel's counters, or new ones.
LEMMA EnterKeeps ==
  ASSUME KeptInv, NEW x \in Caller, NEW c \in Used, NEW f \in Failures, Enter(x, c, f),
         ~overlap, ~overlap'
  PROVE  Kept'
  <1>1. PICK k \in Cell : /\ \/ k = table[c]
                             \/ table[c] = NoCell /\ ~Alive(k, table, cell)
                          /\ cell' = [cell EXCEPT ![x] = k]
                          /\ table' = [table EXCEPT ![c] = k]
    BY DEF Enter
  <1>2. /\ pc[x] = "idle"
        /\ pc' = [pc EXCEPT ![x] = "check"] /\ on' = [on EXCEPT ![x] = c]
        /\ UNCHANGED <<level, seen, attempts, resets>>
    BY DEF Enter
  <1>3. \A y \in Caller : Inside(y) => on[y] # c
    BY Zenon DEF Enter, Overlap
  <1>4. cycles' = cycles
    BY DEF Enter, Overlap
  <1>5. k # NoCell
    BY RecoveryAssumption
  <1>6. Alone'
    BY <1>2, <1>3 DEF KeptInv, TypeOK, Kept, Alone, Inside
  <1>7. ASSUME NEW y \in Caller PROVE Owns(y)' /\ ClimbedBy(y)'
    <2>1. CASE y = x
      BY <1>1, <1>2, <2>1 DEF KeptInv, TypeOK, Owns, ClimbedBy
    <2>2. CASE y # x
      <3>1. Owns(y) /\ ClimbedBy(y) /\ on[y] \in Used
        BY DEF KeptInv, Kept, TypeOK
      <3>2. /\ pc'[y] = pc[y] /\ on'[y] = on[y] /\ cell'[y] = cell[y]
            /\ on[y] # c => table'[on[y]] = table[on[y]]
        BY <1>1, <1>2, <2>2, <3>1 DEF KeptInv, TypeOK
      <3>3. Owns(y)'
        BY <1>3, <3>1, <3>2 DEF Owns, Inside
      <3>4. ClimbedBy(y)'
        BY <1>2, <1>4, <3>1, <3>2 DEF ClimbedBy
      <3> QED
        BY <3>3, <3>4
    <2> QED
      BY <2>1, <2>2
  <1>8. ASSUME NEW d \in Used PROVE CoveredAt(d)'
    <2>1. CoveredAt(d)
      BY DEF KeptInv, Kept
    <2>2. CASE table'[d] = table[d]
      BY <1>2, <1>4, <2>1, <2>2 DEF CoveredAt
    <2>3. CASE table'[d] # table[d]
      <3>1. d = c /\ table[d] = NoCell /\ table'[d] = k /\ ~Alive(k, table, cell)
        BY <1>1, <2>3 DEF KeptInv, TypeOK
      <3>2. attempts[k] = 0 /\ resets[k] = 0
        BY <3>1 DEF KeptInv, CellsInv, DeadIsZero
      <3> QED
        BY <1>2, <1>4, <1>5, <2>1, <3>1, <3>2, RecoveryAssumption DEF CoveredAt
    <2> QED
      BY <2>2, <2>3
  <1> QED
    BY <1>6, <1>7, <1>8 DEF Kept

\* Each step keeps the budget, while calls do not overlap.
LEMMA KeptStep == KeptInv /\ [Next]_vars /\ ~overlap /\ ~overlap' => Kept'
  <1> SUFFICES ASSUME KeptInv, [Next]_vars, ~overlap, ~overlap' PROVE Kept'
    OBVIOUS
  <1>0. ASSUME NEW x \in Caller, Inside(x)
        PROVE  /\ cell[x] \in Cell /\ on[x] \in Used /\ table[on[x]] = cell[x]
               /\ level[x] \in 1..6 /\ seen[x] \in Nat
               /\ attempts[cell[x]] \in Nat /\ resets[cell[x]] \in Nat
               /\ MaxAttempts \in Nat /\ MaxDeviceResets \in Nat
               /\ cycles[on[x]] \in Nat
               /\ Owns(x) /\ ClimbedBy(x)
               /\ cell[x] # NoCell
               /\ cycles[on[x]] <= resets[cell[x]]
               /\ resets[cell[x]] <= MaxDeviceResets
               /\ attempts[cell[x]] <= MaxAttempts + 3
    <2>1. cell[x] \in Cell /\ on[x] \in Used /\ table[on[x]] = cell[x] /\ cell[x] # NoCell
      BY <1>0, HeldApart, RecoveryAssumption
    <2>2. CoveredAt(on[x]) /\ Owns(x) /\ ClimbedBy(x)
      BY <2>1 DEF KeptInv, Kept
    <2>3. /\ cycles[on[x]] <= resets[cell[x]]
          /\ resets[cell[x]] <= MaxDeviceResets
          /\ attempts[cell[x]] <= MaxAttempts + 3
      BY <2>1, <2>2 DEF CoveredAt
    <2>4. MaxAttempts \in Nat /\ MaxDeviceResets \in Nat
      BY RecoveryAssumption
    <2>5. /\ level[x] \in 1..6 /\ seen[x] \in Nat
          /\ attempts[cell[x]] \in Nat /\ resets[cell[x]] \in Nat
      BY <2>1 DEF KeptInv, TypeOK
    <2>6. cycles[on[x]] \in Nat
      BY <2>1, <2>4 DEF KeptInv, TypeOK
    <2> QED
      BY <2>1, <2>2, <2>3, <2>4, <2>5, <2>6
  <1>1. ASSUME NEW x \in Caller, Check(x) PROVE Kept'
    <2>1. Inside(x) /\ UNCHANGED <<table, cycles>>
      BY <1>1 DEF Check, Inside
    <2>2. CASE Return(x, table)
      BY <2>1, <2>2, ReturnKeeps
    <2>3. CASE attempts[cell[x]] < MaxAttempts /\ Climb(x, 1)
      BY <1>0, <2>1, <2>3, ClimbKeeps
    <2> QED
      BY <1>0, <1>1, <2>1, <2>2, <2>3 DEF Check
  <1>2. ASSUME NEW x \in Caller, StartLevel(x) PROVE Kept'
    <2>1. /\ pc[x] = "level" /\ level[x] < 5 /\ Inside(x)
          /\ seen' = [seen EXCEPT ![x] = attempts[cell[x]]]
          /\ UNCHANGED <<on, level, cell, table, attempts, resets, cycles>>
      BY <1>2 DEF StartLevel, Goto, Inside
    <2>2. pc'[x] = "count" /\ seen'[x] = attempts[cell[x]]
      BY <1>2, <2>1 DEF StartLevel, Goto, KeptInv, TypeOK
    <2>3. ClimbedBy(x)'
      BY <1>0, <2>1, <2>2 DEF ClimbedBy
    <2> QED
      BY <1>2, <2>1, <2>3, GotoKeeps DEF StartLevel, PC, KeptInv, TypeOK
  <1>3. ASSUME NEW x \in Caller, StartDeviceRecovery(x) PROVE Kept'
    <2>1. /\ pc[x] = "level" /\ level[x] = 5 /\ Inside(x) /\ UNCHANGED <<table, cycles>>
      BY <1>3 DEF StartDeviceRecovery, Inside
    <2>2. CASE Return(x, table)
      BY <2>1, <2>2, ReturnKeeps
    <2>3. CASE /\ resets[cell[x]] < MaxDeviceResets
               /\ seen' = [seen EXCEPT ![x] = resets[cell[x]]]
               /\ Goto(x, "arm")
               /\ UNCHANGED <<attempts, resets>>
      <3>1. pc'[x] = "arm" /\ seen'[x] = resets[cell[x]]
        BY <2>3 DEF Goto, KeptInv, TypeOK
      <3>2. ClimbedBy(x)'
        BY <1>0, <2>1, <2>3, <3>1 DEF ClimbedBy, Goto
      <3> QED
        BY <2>1, <2>3, <3>2, GotoKeeps DEF PC, KeptInv, TypeOK
    <2> QED
      BY <1>3, <2>2, <2>3 DEF StartDeviceRecovery
  <1>4. ASSUME NEW x \in Caller, Arm(x) PROVE Kept'
    <2>1. /\ pc[x] = "arm" /\ Inside(x)
          /\ UNCHANGED <<on, level, cell, table, attempts, cycles>>
          /\ seen' = [seen EXCEPT ![x] = attempts[cell[x]]]
          /\ pc' = [pc EXCEPT ![x] = "count"]
          /\ \E v \in {seen[x], resets[cell[x]]} : resets' = [resets EXCEPT ![cell[x]] = v + 1]
      BY <1>4 DEF Arm, Goto, Inside
    <2>2. resets' = [resets EXCEPT ![cell[x]] = resets[cell[x]] + 1]
      BY <1>0, <2>1 DEF ClimbedBy
    <2>3. Frame(x)
      BY <2>1, <2>2 DEF Frame, KeptInv, TypeOK
    <2>4. Owns(x)' /\ pc'[x] = "count" /\ seen'[x] = attempts[cell[x]]
          /\ resets'[cell[x]] = resets[cell[x]] + 1
      BY <1>0, <2>1, <2>2 DEF Owns, KeptInv, TypeOK, Inside
    <2>5. ClimbedBy(x)'
      BY <1>0, <2>1, <2>4 DEF ClimbedBy
    <2>6. CoveredAt(on[x])'
      BY <1>0, <2>1, <2>4 DEF CoveredAt, ClimbedBy
    <2> QED
      BY <2>1, <2>3, <2>4, <2>5, <2>6, FrameKeeps
  <1>5. ASSUME NEW x \in Caller, Count(x) PROVE Kept'
    <2>1. /\ pc[x] = "count" /\ Inside(x)
          /\ UNCHANGED <<on, level, cell, table, resets, cycles>>
          /\ seen' = [seen EXCEPT ![x] = 0]
          /\ pc' = [pc EXCEPT ![x] = "act"]
          /\ attempts' = [attempts EXCEPT ![cell[x]] = seen[x] + 1]
      BY <1>5 DEF Count, Goto, Inside
    <2>2. Frame(x)
      BY <2>1 DEF Frame, KeptInv, TypeOK
    <2>3. Owns(x)' /\ pc'[x] = "act" /\ attempts'[cell[x]] = attempts[cell[x]] + 1
      BY <1>0, <2>1 DEF Owns, ClimbedBy, KeptInv, TypeOK, Inside
    <2>4. ClimbedBy(x)'
      BY <1>0, <2>1, <2>3 DEF ClimbedBy
    <2>5. CoveredAt(on[x])'
      BY <1>0, <2>1, <2>3 DEF CoveredAt, ClimbedBy
    <2> QED
      BY <2>1, <2>2, <2>3, <2>4, <2>5, FrameKeeps
  <1>6. ASSUME NEW x \in Caller, Rediscover(x) \/ Degrade(x) PROVE Kept'
    <2>1. /\ pc[x] \in {"act", "scan"} /\ Inside(x)
          /\ UNCHANGED <<on, level, cell, seen, table, attempts, resets, cycles>>
          /\ \E p \in {"scan", "resolve"} : Goto(x, p)
      BY <1>6 DEF Rediscover, Degrade, Goto, Inside
    <2>2. PICK p \in {"scan", "resolve"} : Goto(x, p)
      BY <2>1
    <2>3. pc'[x] = p
      BY <2>2 DEF Goto, KeptInv, TypeOK
    <2>4. ClimbedBy(x)'
      BY <1>0, <2>1, <2>3 DEF ClimbedBy
    <2> QED
      BY <2>1, <2>2, <2>4, GotoKeeps DEF PC
  <1>7. ASSUME NEW x \in Caller, RecoverVia(x) PROVE Kept'
    <2>1. pc[x] = "act" /\ level[x] \in {2, 5} /\ Inside(x) /\ UNCHANGED table
      BY <1>7 DEF RecoverVia, Inside
    <2>2. /\ attempts[cell[x]] <= MaxAttempts + level[x] - 2
          /\ level[x] = 5 => cycles[on[x]] < resets[cell[x]]
      BY <1>0, <2>1 DEF ClimbedBy
    <2>3. cycles'[on[x]] <= resets[cell[x]] /\ cycles'[on[x]] \in Nat
          /\ \A c \in Used \ {on[x]} : cycles'[c] = cycles[c]
      BY <1>0, <1>7, <2>1, <2>2, CycleStep DEF KeptInv, TypeOK
    <2>4. ASSUME Frame(x), pc'[x] = "idle" \/ (Owns(x)' /\ ClimbedBy(x)'),
                 attempts'[cell[x]] = attempts[cell[x]], resets'[cell[x]] = resets[cell[x]]
          PROVE  Kept'
      <3>1. \A c \in Used : c = on[x] => CoveredAt(c)'
        BY <1>0, <2>1, <2>3, <2>4 DEF CoveredAt
      <3> QED
        BY <2>1, <2>4, <3>1, FrameKeeps
    <2>5. CASE Goto(x, "reset") /\ UNCHANGED <<seen, attempts, resets>>
      <3>1. pc'[x] = "reset" /\ Frame(x)
        BY <2>1, <2>3, <2>5 DEF Goto, Frame, KeptInv, TypeOK
      <3>2. Owns(x)' /\ ClimbedBy(x)'
        BY <1>0, <2>1, <2>5, <3>1 DEF Goto, Owns, ClimbedBy
      <3> QED
        BY <2>4, <2>5, <3>1, <3>2
    <2>6. CASE Return(x, table)
      <3>1. pc'[x] = "idle" /\ Frame(x)
        BY <2>1, <2>3, <2>6, ReturnStep DEF Frame, KeptInv, TypeOK
      <3>2. Alive(cell[x], table', cell')
        BY <1>0, <2>1 DEF Alive
      <3>3. attempts'[cell[x]] = attempts[cell[x]] /\ resets'[cell[x]] = resets[cell[x]]
        BY <1>0, <2>1, <2>6, <3>2, ReturnStep DEF KeptInv
      <3> QED
        BY <2>4, <3>1, <3>3
    <2>7. ASSUME NEW j \in 2..5, j > level[x], pc' = [pc EXCEPT ![x] = "level"],
                 level' = [level EXCEPT ![x] = j],
                 UNCHANGED <<on, failure, cell, seen, attempts, resets>>
          PROVE  Kept'
      <3>1. pc'[x] = "level" /\ level'[x] = j /\ Frame(x)
        BY <2>1, <2>3, <2>7 DEF Frame, KeptInv, TypeOK
      <3>2. Owns(x)'
        BY <1>0, <2>1, <2>7 DEF Owns
      <3>3. ClimbedBy(x)'
        BY <1>0, <2>1, <2>2, <2>7, <3>1 DEF ClimbedBy
      <3> QED
        BY <2>4, <2>7, <3>1, <3>2, <3>3
    <2>8. CASE Climb(x, level[x])
      BY <1>0, <2>1, <2>6, <2>7, <2>8, ClimbStep DEF KeptInv
    <2> QED
      BY <1>7, <2>5, <2>8 DEF RecoverVia
  <1>8. ASSUME NEW x \in Caller, ReResolve(x) PROVE Kept'
    <2>1. pc[x] = "resolve" /\ Inside(x) /\ UNCHANGED <<table, cycles>>
      BY <1>8 DEF ReResolve, Inside
    <2>2. level[x] \in 1..5 /\ attempts[cell[x]] <= MaxAttempts + level[x] - 2
      BY <1>0, <2>1 DEF ClimbedBy
    <2>3. CASE Goto(x, "reset") /\ UNCHANGED <<seen, attempts, resets>>
      <3>1. pc'[x] = "reset"
        BY <2>3 DEF Goto, KeptInv, TypeOK
      <3>2. ClimbedBy(x)'
        BY <3>1 DEF ClimbedBy
      <3> QED
        BY <2>1, <2>3, <3>2, GotoKeeps DEF PC
    <2>4. CASE Climb(x, level[x])
      BY <2>1, <2>2, <2>4, ClimbKeeps
    <2> QED
      BY <1>8, <2>3, <2>4 DEF ReResolve
  <1>9. ASSUME NEW x \in Caller, Reset(x) PROVE Kept'
    <2>1. /\ Inside(x) /\ Return(x, table')
          /\ table' = [table EXCEPT ![on[x]] = NoCell]
          /\ cycles' = [cycles EXCEPT ![on[x]] = 0]
      BY <1>9 DEF Reset, Inside
    <2> QED
      BY <2>1, ReturnKeeps
  <1>10. ASSUME UNCHANGED <<pc, on, level, cell, seen, table, attempts, resets, cycles>>
         PROVE  Kept'
    BY <1>10 DEF KeptInv, Kept, Alone, Owns, ClimbedBy, CoveredAt, Inside
  <1> QED
    BY <1>1, <1>2, <1>3, <1>4, <1>5, <1>6, <1>7, <1>8, <1>9, <1>10, EnterKeeps
    DEF Next, Ladder, OpenFound, Lose, Reopen, vars, callVars

-----------------------------------------------------------------------------
(* The theorems *)

LEMMA InitBudgetInv == Init => BudgetInv
  <1> SUFFICES ASSUME Init PROVE BudgetInv
    OBVIOUS
  <1>1. TypeOK
    BY InitType
  <1>2. CellsInv
    BY RecoveryAssumption
    DEF Init, CellsInv, CellsApart, IdleHoldsNone, DeadIsZero
  <1>3. Kept
    BY DEF Init, Kept, Alone, Owns, ClimbedBy, CoveredAt, Inside
  <1> QED
    BY <1>1, <1>2, <1>3 DEF BudgetInv

\* An overlap, once seen, is remembered.
LEMMA OverlapStays == [Next]_vars /\ overlap => overlap'
  <1> SUFFICES ASSUME [Next]_vars, overlap PROVE overlap'
    OBVIOUS
  <1>1. ASSUME NEW x \in Caller, NEW c \in Used, NEW f \in Failures, Enter(x, c, f)
        PROVE  overlap'
    BY <1>1, Zenon DEF Enter, Overlap
  <1>2. CASE UNCHANGED overlap
    BY <1>2, Zenon
  <1>3. ASSUME NEW x \in Caller, Ladder(x) PROVE UNCHANGED overlap
    BY <1>3 DEF Ladder, Check, StartLevel, StartDeviceRecovery, Arm, Count, RecoverVia,
       Rediscover, Degrade, ReResolve, Reset
  <1>4. ASSUME NEW x \in Caller, NEW c \in Channel, OpenFound(x, c) PROVE UNCHANGED overlap
    BY <1>4 DEF OpenFound
  <1>5. ASSUME NEW c \in Channel, Lose(c) \/ Reopen(c) PROVE UNCHANGED overlap
    BY <1>5 DEF Lose, Reopen
  <1>6. CASE UNCHANGED vars
    BY <1>2, <1>6 DEF vars
  <1> QED
    BY <1>1, <1>2, <1>3, <1>4, <1>5, <1>6, Zenon DEF Next

LEMMA BudgetInvStep == BudgetInv /\ [Next]_vars => BudgetInv'
  <1> SUFFICES ASSUME BudgetInv, [Next]_vars PROVE BudgetInv'
    OBVIOUS
  <1>1. TypeOK' /\ CellsInv'
    BY TypeStep, CellsStep DEF BudgetInv
  <1>2. ~overlap' => Kept'
    <2>1. ~overlap' => ~overlap
      BY OverlapStays
    <2>2. ~overlap => KeptInv
      BY DEF BudgetInv, KeptInv
    <2> QED
      BY <2>1, <2>2, KeptStep
  <1> QED
    BY <1>1, <1>2 DEF BudgetInv

\* The counters of recovery.go: objects, owners, and what their values cover.
THEOREM RecoveryInvariant == Spec => []BudgetInv
  BY InitBudgetInv, BudgetInvStep, PTL DEF Spec

\* Type correctness, for any number of operations that recover at the same time.
THEOREM RecoveryTypeCorrect == Spec => []TypeOK
  <1>1. BudgetInv => TypeOK
    BY DEF BudgetInv
  <1> QED
    BY <1>1, RecoveryInvariant, PTL

\* The budget of recovery.go holds between two recoveries as long as no two
\* calls for one channel overlap, whatever the failures and the budget.
THEOREM BudgetHolds == Spec => []BudgetKept
  <1>1. BudgetInv => BudgetKept
    <2> SUFFICES ASSUME BudgetInv, ~overlap, NEW c \in Used
                 PROVE  /\ cycles[c] <= MaxDeviceResets
                        /\ table[c] # NoCell => attempts[table[c]] <= MaxAttempts + 3
      BY DEF BudgetKept
    <2>1. CoveredAt(c) /\ cycles[c] \in Nat /\ MaxDeviceResets \in Nat
      BY RecoveryAssumption DEF BudgetInv, Kept, TypeOK
    <2>2. table[c] # NoCell => resets[table[c]] \in Nat
      BY DEF BudgetInv, TypeOK
    <2> QED
      BY <2>1, <2>2 DEF CoveredAt
  <1> QED
    BY <1>1, RecoveryInvariant, PTL

-----------------------------------------------------------------------------
(* Lost updates do not bring spent budget back *)

StillSpent(k) ==
  Alive(k, table, cell) /\ Alive(k, table', cell') =>
    \A w \in Values(k)' : \E v \in Values(k) : v <= w

\* A step of x that changes a counter, if at all, to a value somebody has in hand
\* plus one, and reads no other counter than its own.
LEMMA WriteKeepsSpent ==
  ASSUME TypeOK, NEW x \in Caller,
         \A y \in Caller \ {x} : pc'[y] = pc[y] /\ cell'[y] = cell[y] /\ seen'[y] = seen[y],
         pc'[x] = "count" => cell'[x] = cell[x] /\ seen'[x] = attempts[cell[x]],
         NEW k \in Cell,
         \/ attempts'[k] = attempts[k]
         \/ pc[x] = "count" /\ cell[x] = k /\ attempts'[k] = seen[x] + 1
  PROVE  \A w \in Values(k)' : \E v \in Values(k) : v <= w
  <1>0. /\ attempts[k] \in Values(k)
        /\ \A y \in Caller : cell[y] = k /\ pc[y] = "count" => seen[y] \in Values(k)
    BY DEF Values
  <1>1. attempts[k] \in Nat /\ \A y \in Caller : seen[y] \in Nat
    BY DEF TypeOK
  <1>2. \E v \in Values(k) : v <= attempts'[k]
    <2>1. CASE attempts'[k] = attempts[k]
      BY <1>0, <1>1, <2>1
    <2>2. CASE pc[x] = "count" /\ cell[x] = k /\ attempts'[k] = seen[x] + 1
      <3>1. seen[x] <= seen[x] + 1
        BY <1>1
      <3> QED
        BY <1>0, <2>2, <3>1
    <2> QED
      BY <2>1, <2>2
  <1>3. ASSUME NEW y \in Caller, cell'[y] = k, pc'[y] = "count"
        PROVE  \E v \in Values(k) : v <= seen'[y]
    <2>1. CASE y = x
      BY <1>1, <1>3, <2>1 DEF Values
    <2>2. CASE y # x
      <3>1. seen'[y] = seen[y] /\ seen[y] \in Values(k)
        BY <1>0, <1>3, <2>2
      <3> QED
        BY <1>1, <3>1
    <2> QED
      BY <2>1, <2>2
  <1> QED
    BY <1>2, <1>3 DEF Values

LEMMA SpentStep ==
  ASSUME TypeOK, [Next]_vars, NEW k \in Cell PROVE StillSpent(k)
  <1> SUFFICES ASSUME Alive(k, table, cell), Alive(k, table', cell')
               PROVE  \A w \in Values(k)' : \E v \in Values(k) : v <= w
    BY DEF StillSpent
  <1> USE DEF callVars
  \* The call ends: whoever still has the counter finds it as it was.
  <1>1. ASSUME NEW x \in Caller, Return(x, table')
        PROVE  \A w \in Values(k)' : \E v \in Values(k) : v <= w
    <2>1. pc'[x] = "idle" /\ attempts'[k] = attempts[k]
      BY <1>1, ReturnStep
    <2>2. \A y \in Caller \ {x} :
            pc'[y] = pc[y] /\ cell'[y] = cell[y] /\ seen'[y] = seen[y]
      BY <1>1, ReturnStep DEF TypeOK
    <2> QED
      BY <2>1, <2>2, WriteKeepsSpent
  \* The call goes on, and no counter changes.
  <1>2. ASSUME NEW x \in Caller, UNCHANGED <<cell, seen, attempts>>,
               NEW p \in PC \ {"count"}, pc' = [pc EXCEPT ![x] = p]
        PROVE  \A w \in Values(k)' : \E v \in Values(k) : v <= w
    <2>1. pc'[x] = p /\ \A y \in Caller \ {x} : pc'[y] = pc[y]
      BY <1>2 DEF TypeOK
    <2> QED
      BY <1>2, <2>1, WriteKeepsSpent
  <1>3. ASSUME NEW x \in Caller, NEW j \in Int, Climb(x, j), table' = table
        PROVE  \A w \in Values(k)' : \E v \in Values(k) : v <= w
    <2>1. CASE Return(x, table)
      BY <1>1, <1>3, <2>1
    <2>2. CASE /\ pc' = [pc EXCEPT ![x] = "level"]
               /\ UNCHANGED <<cell, seen, attempts>>
      BY <1>2, <2>2 DEF PC
    <2> QED
      BY <1>3, <2>1, <2>2, ClimbStep
  <1>4. \A x \in Caller : level[x] \in Int /\ 1 \in Int
    BY DEF TypeOK
  <1>5. ASSUME NEW x \in Caller, NEW c \in Used, NEW f \in Failures, Enter(x, c, f)
        PROVE  \A w \in Values(k)' : \E v \in Values(k) : v <= w
    <2>1. /\ pc' = [pc EXCEPT ![x] = "check"] /\ UNCHANGED <<seen, attempts>>
          /\ \E m \in Cell : cell' = [cell EXCEPT ![x] = m]
      BY <1>5 DEF Enter
    <2>2. /\ pc'[x] = "check"
          /\ \A y \in Caller \ {x} : pc'[y] = pc[y] /\ cell'[y] = cell[y]
      BY <2>1 DEF TypeOK
    <2> QED
      BY <2>1, <2>2, WriteKeepsSpent
  <1>6. ASSUME NEW x \in Caller, Check(x) \/ ReResolve(x)
        PROVE  \A w \in Values(k)' : \E v \in Values(k) : v <= w
    <2>1. table' = table
      BY <1>6 DEF Check, ReResolve
    <2>2. \/ Return(x, table)
          \/ \E j \in Int : Climb(x, j)
          \/ Goto(x, "reset") /\ UNCHANGED <<seen, attempts, resets>>
      BY <1>4, <1>6 DEF Check, ReResolve
    <2>3. CASE Return(x, table)
      BY <1>1, <2>1, <2>3
    <2>4. CASE \E j \in Int : Climb(x, j)
      BY <1>3, <2>1, <2>4
    <2>5. CASE Goto(x, "reset") /\ UNCHANGED <<seen, attempts, resets>>
      BY <1>2, <2>5 DEF Goto, PC
    <2> QED
      BY <2>2, <2>3, <2>4, <2>5
  <1>7. ASSUME NEW x \in Caller, StartDeviceRecovery(x)
        PROVE  \A w \in Values(k)' : \E v \in Values(k) : v <= w
    <2>1. CASE Return(x, table)
      BY <1>1, <1>7, <2>1 DEF StartDeviceRecovery
    <2>2. CASE /\ seen' = [seen EXCEPT ![x] = resets[cell[x]]] /\ Goto(x, "arm")
               /\ attempts' = attempts
      <3>1. /\ pc'[x] = "arm" /\ cell' = cell
            /\ \A y \in Caller \ {x} : pc'[y] = pc[y] /\ seen'[y] = seen[y]
        BY <2>2 DEF Goto, TypeOK
      <3> QED
        BY <2>2, <3>1, WriteKeepsSpent
    <2> QED
      BY <1>7, <2>1, <2>2 DEF StartDeviceRecovery
  \* The counter is read ...
  <1>8. ASSUME NEW x \in Caller, StartLevel(x) \/ Arm(x)
        PROVE  \A w \in Values(k)' : \E v \in Values(k) : v <= w
    <2>1. /\ seen' = [seen EXCEPT ![x] = attempts[cell[x]]] /\ Goto(x, "count")
          /\ attempts' = attempts
      BY <1>8 DEF StartLevel, Arm
    <2>2. /\ seen'[x] = attempts[cell[x]] /\ cell' = cell
          /\ \A y \in Caller \ {x} : pc'[y] = pc[y] /\ seen'[y] = seen[y]
      BY <2>1 DEF Goto, TypeOK
    <2> QED
      BY <2>1, <2>2, WriteKeepsSpent
  \* ... and written.
  <1>9. ASSUME NEW x \in Caller, Count(x)
        PROVE  \A w \in Values(k)' : \E v \in Values(k) : v <= w
    <2>1. /\ pc[x] = "count" /\ attempts' = [attempts EXCEPT ![cell[x]] = seen[x] + 1]
          /\ seen' = [seen EXCEPT ![x] = 0] /\ Goto(x, "act")
      BY <1>9 DEF Count
    <2>2. /\ pc'[x] = "act" /\ cell' = cell
          /\ \A y \in Caller \ {x} : pc'[y] = pc[y] /\ seen'[y] = seen[y]
      BY <2>1 DEF Goto, TypeOK
    <2>3. \/ attempts'[k] = attempts[k]
          \/ cell[x] = k /\ attempts'[k] = seen[x] + 1
      BY <2>1 DEF TypeOK
    <2> QED
      BY <2>1, <2>2, <2>3, WriteKeepsSpent
  <1>10. ASSUME NEW x \in Caller, RecoverVia(x)
         PROVE  \A w \in Values(k)' : \E v \in Values(k) : v <= w
    <2>1. CASE Climb(x, level[x])
      BY <1>3, <1>4, <1>10, <2>1 DEF RecoverVia
    <2>2. CASE Goto(x, "reset") /\ UNCHANGED <<seen, attempts, resets>>
      BY <1>2, <2>2 DEF Goto, PC
    <2> QED
      BY <1>10, <2>1, <2>2 DEF RecoverVia
  <1>11. ASSUME NEW x \in Caller, Rediscover(x) \/ Degrade(x)
         PROVE  \A w \in Values(k)' : \E v \in Values(k) : v <= w
    <2>1. PICK p \in {"scan", "resolve"} : Goto(x, p) /\ UNCHANGED <<seen, attempts>>
      BY <1>11 DEF Rediscover, Degrade
    <2> QED
      BY <1>2, <2>1 DEF Goto, PC
  <1>12. ASSUME NEW x \in Caller, Reset(x)
         PROVE  \A w \in Values(k)' : \E v \in Values(k) : v <= w
    BY <1>1, <1>12 DEF Reset
  <1>13. ASSUME \/ \E x \in Caller, c \in Channel : OpenFound(x, c)
                \/ \E c \in Channel : Lose(c) \/ Reopen(c)
                \/ UNCHANGED vars
         PROVE  \A w \in Values(k)' : \E v \in Values(k) : v <= w
    <2>1. UNCHANGED <<pc, cell, seen, attempts>>
      BY <1>13 DEF OpenFound, Lose, Reopen, vars
    <2>2. Values(k)' = Values(k)
      BY <2>1 DEF Values
    <2>3. \A w \in Values(k) : w \in Nat
      BY DEF Values, TypeOK
    <2> QED
      BY <2>2, <2>3
  <1> QED
    BY <1>5, <1>6, <1>7, <1>8, <1>9, <1>10, <1>11, <1>12, <1>13 DEF Next, Ladder

\* While a counter of recovery.go is in use, spent budget that every call on it
\* has seen stays spent, for any number of calls that overlap in any way and
\* lose each other's updates (recovery.go:231).
THEOREM SpentBudgetStays == Spec => SpentStaysSpent
  <1>1. TypeOK /\ [Next]_vars => \A k \in Cell : StillSpent(k)
    BY SpentStep
  <1>2. TypeOK /\ [Next]_vars
          => [\A k \in Cell : Alive(k, table, cell) /\ Alive(k, table', cell') =>
                \A w \in Values(k)' : \E v \in Values(k) : v <= w]_vars
    BY <1>1 DEF StillSpent
  <1> QED
    BY <1>2, RecoveryTypeCorrect, PTL DEF Spec, SpentStaysSpent
=============================================================================
