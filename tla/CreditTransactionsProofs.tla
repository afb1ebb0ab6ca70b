---------------------- MODULE CreditTransactionsProofs ----------------------
(***************************************************************************)
(* Machine-checked proofs about CreditTransactions, for any number of      *)
(* accounts, requests, top-ups and sweeps and any prices.                  *)
(***************************************************************************)
EXTENDS CreditTransactions, Sums, TLAPS

USE DEF Sessions

(* What one accepted insert does to the rows of every reference. *)
LEMMA PostRows ==
    ASSUME NEW row, Post(row), NEW q, NEW K
    PROVE  RowsOf(q, K)' = RowsOf(q, K) \cup {x \in {row} : x.ref = q /\ x.kind \in K}
BY DEF Post, RowsOf

(* A row written for a reference is a row of the table. *)
LEMMA NewRowType ==
    ASSUME NEW kind \in Kinds, NEW r \in Refs \cup TopUps, NEW amount \in Int
    PROVE  /\ NewRow(kind, r, amount) \in Row
           /\ NewRow(kind, r, amount).user = Owner[r]
           /\ NewRow(kind, r, amount).kind = kind
           /\ NewRow(kind, r, amount).ref = r
           /\ NewRow(kind, r, amount).amount = amount
BY NamesAssumption DEF NewRow, Row

(* An accepted row keeps the tables' types and moves its account's balance *)
(* by its amount.                                                          *)
LEMMA PostType ==
    ASSUME TypeOK, NEW row \in Row, Post(row)
    PROVE  /\ ledger' \subseteq Row
           /\ balance' \in [Users -> Nat]
           /\ balance'[row.user] = balance[row.user] + row.amount
           /\ \A u \in Users : u # row.user => balance'[u] = balance[u]
<1>1. row.user \in Users /\ row.amount \in Int
  BY DEF Row
<1>2. balance[row.user] + row.amount \in Nat
  BY <1>1 DEF Post, Accepts, TypeOK
<1> QED
  BY <1>1, <1>2 DEF Post, TypeOK

(* What readHold finds for a reference with at most one RESERVE row. *)
LEMMA ReservedType ==
    ASSUME TypeOK, RowsInOrder, NEW r PROVE Reserved(r) \in Nat
<1>1. CASE RowsOf(r, {"RESERVE"}) = {}
  BY <1>1 DEF Reserved
<1>2. CASE RowsOf(r, {"RESERVE"}) # {}
  <2> DEFINE row == CHOOSE x \in RowsOf(r, {"RESERVE"}) : TRUE
  <2>1. row \in ledger /\ row \in Row /\ row.kind = "RESERVE"
    BY <1>2 DEF RowsOf, TypeOK
  <2>2. row.amount \in Int /\ row.amount < 0
    BY <2>1 DEF RowsInOrder, Row
  <2> QED
    BY <2>2, <1>2 DEF Reserved, AmountOf
<1> QED
  BY <1>1, <1>2

(* What settle writes for a typed hold, cost and balance is an integer. *)
LEMMA SettleAmountType ==
    ASSUME TypeOK, NEW r \in Refs, item[r] = r
    PROVE  SettleAmount(r) \in Int
<1>1. hold[r].reserved \in Int /\ cost[item[r]] \in Int /\ seen[r] \in Int
  BY DEF TypeOK, HoldRead
<1> QED
  BY <1>1 DEF SettleAmount, SmallerOf

-----------------------------------------------------------------------------
(* The freshly provisioned database satisfies the invariant. *)
LEMMA InitIInv == Init => IInv
<1> SUFFICES ASSUME Init PROVE IInv
  OBVIOUS
<1>1. TypeOK
  BY UnitsAssumption, NamesAssumption
  DEF Init, TypeOK, Row, Kinds, HoldRead, RequestStates, SweepStates
<1>2. LockHeld /\ ReadsAreFresh
  BY DEF Init, LockHeld, ReadsAreFresh
<1>3. SessionsInRole
  BY NamesAssumption DEF Init, SessionsInRole, RequestStates, SweepStates
<1>4. \A r \in Refs : \A K : RowsOf(r, K) = {}
  BY NamesAssumption DEF Init, RowsOf
<1>5. RowsInOrder
  BY <1>4 DEF Init, RowsInOrder
<1>6. ClosedOnce /\ ChargeWithinCost
  BY <1>4 DEF ClosedOnce, ChargeWithinCost, Closed
<1> QED
  BY <1>1, <1>2, <1>3, <1>5, <1>6 DEF IInv
-----------------------------------------------------------------------------
(* The lock, the reads and the position of a session that ends its         *)
(* transaction keep their types.                                           *)
LEMMA EndTxnType ==
    ASSUME TypeOK, NEW s \in Sessions, item[s] \in Refs, EndTxn(s)
    PROVE  /\ lock' \in [Users -> Sessions \cup {NoOne}]
           /\ txn' \in [Sessions -> {"none", "locked", "read"}]
           /\ seen' \in [Sessions -> Nat]
           /\ hold' \in [Sessions -> HoldRead]
BY NamesAssumption DEF TypeOK, EndTxn, HoldRead

(* A session that is through with a hold is in a state of its kind. *)
LEMMA FinishType ==
    ASSUME TypeOK, NEW s \in Sessions, Finish(s)
    PROVE  /\ pc' \in [Sessions -> RequestStates \cup SweepStates]
           /\ item' \in [Sessions -> Refs \cup {NoOne}]
           /\ todo' = todo
BY DEF TypeOK, Finish, RequestStates, SweepStates

(* A session inside a transaction has a request whose hold it is about. *)
LEMMA ItemOfTxn ==
    ASSUME IInv, NEW s \in Sessions, txn[s] # "none"
    PROVE  item[s] \in Refs /\ item[s] \in Refs \cup TopUps
BY DEF IInv, TypeOK, LockHeld

(* Every step keeps the types; TypeOK needs the lock and the order of the  *)
(* rows to stay true.                                                      *)
LEMMA TypeStep == IInv /\ [Next]_vars => TypeOK'
<1> SUFFICES ASSUME IInv, [Next]_vars PROVE TypeOK'
  OBVIOUS
<1>0. TypeOK /\ SessionsInRole /\ RowsInOrder
  BY DEF IInv
<1>1. ASSUME NEW s \in Sessions, LockBalance(s) PROVE TypeOK'
  BY <1>0, <1>1, NamesAssumption DEF LockBalance, TypeOK
<1>2. ASSUME NEW r \in Refs, RefuseReserve(r) PROVE TypeOK'
  <2>1. item[r] \in Refs
    BY <1>2, ItemOfTxn DEF RefuseReserve
  <2> QED
    BY <1>0, <1>2, <2>1, EndTxnType DEF RefuseReserve, TypeOK, RequestStates
<1>3. ASSUME NEW r \in Refs, Reserve(r) PROVE TypeOK'
  <2> DEFINE row == NewRow("RESERVE", r, -SmallerOf(HoldUnits, seen[r]))
  <2>1. item[r] \in Refs
    BY <1>3, ItemOfTxn DEF Reserve
  <2>2. -SmallerOf(HoldUnits, seen[r]) \in Int
    BY <1>0, UnitsAssumption DEF SmallerOf, TypeOK
  <2>3. row \in Row /\ Post(row)
    BY <1>3, <2>2, NewRowType DEF Reserve, Kinds
  <2>4. ledger' \subseteq Row /\ balance' \in [Users -> Nat]
    BY <1>0, <2>3, PostType
  <2>5. pc' \in [Sessions -> RequestStates \cup SweepStates] /\ failures' \in Nat
    BY <1>0, <1>3 DEF Reserve, TypeOK, RequestStates
  <2> QED
    BY <1>0, <1>3, <2>1, <2>4, <2>5, EndTxnType DEF Reserve, TypeOK
<1>4. ASSUME NEW r \in Refs, RunEnds(r) PROVE TypeOK'
  BY <1>0, <1>4, UnitsAssumption DEF RunEnds, TypeOK, RequestStates
<1>5. ASSUME NEW s \in Sessions, ReadHold(s) PROVE TypeOK'
  <2>1. [reserved |-> Reserved(item[s]), closed |-> Closed(item[s])] \in HoldRead
    BY <1>0, ReservedType DEF HoldRead, Closed
  <2> QED
    BY <1>0, <1>5, <2>1 DEF ReadHold, TypeOK
<1>6. ASSUME NEW s \in Sessions, SkipClose(s) PROVE TypeOK'
  <2>1. item[s] \in Refs
    BY <1>6, ItemOfTxn DEF SkipClose
  <2> QED
    BY <1>0, <1>6, <2>1, EndTxnType, FinishType DEF SkipClose, TypeOK
<1>7. ASSUME NEW r \in Refs, Settle(r) PROVE TypeOK'
  <2>1. item[r] \in Refs /\ item[r] = r
    BY <1>0, <1>7 DEF SessionsInRole
  <2>2. NewRow("SETTLE", item[r], SettleAmount(r)) \in Row
    BY <1>0, <2>1, NewRowType, SettleAmountType DEF Kinds
  <2>3. ledger' \subseteq Row /\ balance' \in [Users -> Nat]
    BY <1>0, <1>7, <2>2, PostType DEF Settle
  <2> QED
    BY <1>0, <1>7, <2>1, <2>3, EndTxnType, FinishType DEF Settle, TypeOK
<1>8. ASSUME NEW s \in Sessions, Refund(s) PROVE TypeOK'
  <2>1. item[s] \in Refs
    BY <1>8, ItemOfTxn DEF Refund
  <2>2. hold[s].reserved \in Int
    BY <1>0 DEF TypeOK, HoldRead
  <2>3. NewRow("REFUND", item[s], hold[s].reserved) \in Row
    BY <2>1, <2>2, NewRowType DEF Kinds
  <2>4. ledger' \subseteq Row /\ balance' \in [Users -> Nat]
    BY <1>0, <1>8, <2>3, PostType DEF Refund
  <2> QED
    BY <1>0, <1>8, <2>1, <2>4, EndTxnType, FinishType DEF Refund, TypeOK
<1>9. ASSUME NEW r \in Refs, Age(r) PROVE TypeOK'
  BY <1>0, <1>9 DEF Age, TypeOK
<1>10. ASSUME NEW w \in Sweepers, SweepSelect(w) PROVE TypeOK'
  BY <1>0, <1>10 DEF SweepSelect, StaleHolds, TypeOK, SweepStates
<1>11. ASSUME NEW w \in Sweepers, SweepNext(w) PROVE TypeOK'
  BY <1>0, <1>11 DEF SweepNext, TypeOK
<1>12. ASSUME NEW t \in TopUps, TopUp(t) PROVE TypeOK'
  <2>1. NewRow("PACK_PURCHASE", t, PackUnits) \in Row
    BY NewRowType, UnitsAssumption DEF Kinds
  <2>2. ledger' \subseteq Row /\ balance' \in [Users -> Nat]
    BY <1>0, <1>12, <2>1, PostType DEF TopUp
  <2> QED
    BY <1>0, <1>12, <2>2 DEF TopUp, TypeOK
<1>13. ASSUME NEW s \in Sessions, RollBack(s) PROVE TypeOK'
  <2>1. item[s] \in Refs
    BY <1>13, ItemOfTxn DEF RollBack
  <2>2. /\ pc' \in [Sessions -> RequestStates \cup SweepStates]
        /\ item' \in [Sessions -> Refs \cup {NoOne}]
        /\ todo' \in [Sweepers -> SUBSET Refs] /\ failures' \in Nat
    BY <1>0, <1>13 DEF RollBack, TypeOK, RequestStates, SweepStates
  <2> QED
    BY <1>0, <1>13, <2>1, <2>2, EndTxnType DEF RollBack, TypeOK
<1>14. ASSUME Crash PROVE TypeOK'
  BY <1>0, <1>14 DEF Crash, TypeOK, HoldRead, RequestStates, SweepStates
<1>15. ASSUME UNCHANGED vars PROVE TypeOK'
  BY <1>0, <1>15 DEF vars, TypeOK
<1> QED
  BY <1>1, <1>2, <1>3, <1>4, <1>5, <1>6, <1>7, <1>8, <1>9, <1>10, <1>11,
     <1>12, <1>13, <1>14, <1>15
  DEF Next, RequestStep, CloseStep, SweepStep

-----------------------------------------------------------------------------
(* Two sessions inside transactions are about different accounts. *)
LEMMA DifferentAccounts ==
    ASSUME IInv, NEW s \in Sessions, NEW o \in Sessions, s # o,
           txn[s] # "none", txn[o] # "none"
    PROVE  Owner[item[s]] # Owner[item[o]]
BY DEF IInv, LockHeld

(* A session's transaction ends without touching those of the others. *)
LEMMA EndTxnOthers ==
    ASSUME IInv, NEW s \in Sessions, txn[s] # "none", EndTxn(s)
    PROVE  /\ txn'[s] = "none"
           /\ \A o \in Sessions \ {s} :
                /\ txn'[o] = txn[o] /\ seen'[o] = seen[o] /\ hold'[o] = hold[o]
                /\ txn[o] # "none" =>
                        lock'[Owner[item[o]]] = lock[Owner[item[o]]]
<1>1. \A o \in Sessions \ {s} : txn[o] # "none" => Owner[item[o]] # Owner[item[s]]
  BY DifferentAccounts
<1>2. /\ \A o \in Sessions : txn[o] # "none" => Owner[item[o]] \in Users
  BY ItemOfTxn, NamesAssumption
<1> QED
  BY <1>1, <1>2 DEF EndTxn, IInv, TypeOK

(* ... nor where the others are. *)
LEMMA FinishOthers ==
    ASSUME TypeOK, NEW s \in Sessions, Finish(s)
    PROVE  \A o \in Sessions \ {s} : pc'[o] = pc[o] /\ item'[o] = item[o]
BY DEF Finish, TypeOK

(* Every step keeps the account row locked by the transaction about it. *)
LEMMA LockHeldStep == IInv /\ [Next]_vars => LockHeld'
<1> SUFFICES ASSUME IInv, [Next]_vars PROVE LockHeld'
  OBVIOUS
<1>0. TypeOK /\ LockHeld
  BY DEF IInv
<1>1. ASSUME NEW s \in Sessions, LockBalance(s) PROVE LockHeld'
  <2> SUFFICES ASSUME NEW o \in Sessions, txn'[o] # "none"
               PROVE  /\ item'[o] # NoOne /\ lock'[Owner[item'[o]]] = o
                      /\ pc'[o] \in Closing \cup {"new"}
                      /\ txn'[o] = "read" => pc'[o] # "new"
    BY DEF LockHeld
  <2>1. item[s] \in Refs /\ Owner[item[s]] \in Users
    BY <1>0, <1>1, NamesAssumption DEF LockBalance, TypeOK
  <2>2. CASE o = s
    BY <1>0, <1>1, <2>1, <2>2 DEF LockBalance, TypeOK
  <2>3. CASE o # s
    <3>1. txn[o] # "none" /\ txn'[o] = txn[o]
      BY <1>0, <1>1, <2>3 DEF LockBalance, TypeOK
    <3>2. lock[Owner[item[o]]] = o /\ lock[Owner[item[s]]] = NoOne /\ o # NoOne
      BY <1>0, <1>1, <3>1, NamesAssumption DEF LockHeld, LockBalance
    <3> QED
      BY <1>0, <1>1, <2>1, <3>1, <3>2 DEF LockBalance, TypeOK, LockHeld
  <2> QED
    BY <2>2, <2>3
<1>2. ASSUME NEW r \in Refs, RefuseReserve(r) PROVE LockHeld'
  BY <1>0, <1>2, EndTxnOthers DEF RefuseReserve, LockHeld, TypeOK
<1>3. ASSUME NEW r \in Refs, Reserve(r) PROVE LockHeld'
  BY <1>0, <1>3, EndTxnOthers DEF Reserve, LockHeld, TypeOK
<1>4. ASSUME NEW r \in Refs, RunEnds(r) PROVE LockHeld'
  BY <1>0, <1>4 DEF RunEnds, LockHeld, TypeOK, Closing
<1>5. ASSUME NEW s \in Sessions, ReadHold(s) PROVE LockHeld'
  BY <1>0, <1>5 DEF ReadHold, LockHeld, TypeOK, Closing
<1>6. ASSUME NEW s \in Sessions, SkipClose(s) PROVE LockHeld'
  BY <1>0, <1>6, EndTxnOthers, FinishOthers DEF SkipClose, LockHeld
<1>7. ASSUME NEW r \in Refs, Settle(r) PROVE LockHeld'
  BY <1>0, <1>7, EndTxnOthers, FinishOthers DEF Settle, LockHeld
<1>8. ASSUME NEW s \in Sessions, Refund(s) PROVE LockHeld'
  BY <1>0, <1>8, EndTxnOthers, FinishOthers DEF Refund, LockHeld
<1>9. ASSUME NEW r \in Refs, Age(r) PROVE LockHeld'
  BY <1>0, <1>9 DEF Age, LockHeld
<1>10. ASSUME NEW w \in Sweepers, SweepSelect(w) PROVE LockHeld'
  BY <1>0, <1>10 DEF SweepSelect, LockHeld, TypeOK, Closing
<1>11. ASSUME NEW w \in Sweepers, SweepNext(w) PROVE LockHeld'
  BY <1>0, <1>11 DEF SweepNext, LockHeld, TypeOK
<1>12. ASSUME NEW t \in TopUps, TopUp(t) PROVE LockHeld'
  BY <1>0, <1>12 DEF TopUp, LockHeld
<1>13. ASSUME NEW s \in Sessions, RollBack(s) PROVE LockHeld'
  <2>1. \A o \in Sessions \ {s} : pc'[o] = pc[o] /\ item'[o] = item[o]
    BY <1>0, <1>13 DEF RollBack, TypeOK
  <2> QED
    BY <1>0, <1>13, <2>1, EndTxnOthers DEF RollBack, LockHeld
<1>14. ASSUME Crash PROVE LockHeld'
  BY <1>14 DEF Crash, LockHeld
<1>15. ASSUME UNCHANGED vars PROVE LockHeld'
  BY <1>0, <1>15 DEF vars, LockHeld
<1> QED
  BY <1>1, <1>2, <1>3, <1>4, <1>5, <1>6, <1>7, <1>8, <1>9, <1>10, <1>11,
     <1>12, <1>13, <1>14, <1>15
  DEF Next, RequestStep, CloseStep, SweepStep

-----------------------------------------------------------------------------
(* While the ledger stands still, so does what readHold would find. *)
LEMMA SameRows ==
    ASSUME ledger' = ledger
    PROVE  \A q : /\ \A K : RowsOf(q, K)' = RowsOf(q, K)
                  /\ Reserved(q)' = Reserved(q) /\ Closed(q)' = Closed(q)
<1>1. \A q, K : RowsOf(q, K)' = RowsOf(q, K)
  BY DEF RowsOf
<1> QED
  BY <1>1 DEF Reserved, Closed

(* An insert for another reference leaves the rows of this one alone. *)
LEMMA PostOthers ==
    ASSUME NEW row, Post(row), NEW q, q # row.ref
    PROVE  /\ \A K : RowsOf(q, K)' = RowsOf(q, K)
           /\ Reserved(q)' = Reserved(q) /\ Closed(q)' = Closed(q)
<1>1. \A K : RowsOf(q, K)' = RowsOf(q, K)
  BY PostRows
<1> QED
  BY <1>1 DEF Reserved, Closed

(* An insert into one account leaves what was read of another fresh. *)
LEMMA PostKeepsReads ==
    ASSUME IInv, NEW row \in Row, row.ref \in Refs \cup TopUps,
           row.user = Owner[row.ref], Post(row),
           NEW o \in Sessions, txn[o] # "none", Owner[item[o]] # row.user
    PROVE  /\ balance'[Owner[item[o]]] = balance[Owner[item[o]]]
           /\ \A q : q = item[o] => /\ Reserved(q)' = Reserved(q)
                                    /\ Closed(q)' = Closed(q)
<1>1. item[o] \in Refs /\ Owner[item[o]] \in Users
  BY ItemOfTxn, NamesAssumption
<1>2. balance'[Owner[item[o]]] = balance[Owner[item[o]]]
  BY <1>1, PostType DEF IInv
<1>3. item[o] # row.ref
  OBVIOUS
<1> QED
  BY <1>2, <1>3, PostOthers

(* No step changes the balance or the hold an open transaction has read. *)
LEMMA ReadsStep == IInv /\ [Next]_vars => ReadsAreFresh'
<1> SUFFICES ASSUME IInv, [Next]_vars PROVE ReadsAreFresh'
  OBVIOUS
<1>0. TypeOK /\ LockHeld /\ ReadsAreFresh /\ SessionsInRole
  BY DEF IInv
<1>1. ASSUME NEW s \in Sessions, LockBalance(s) PROVE ReadsAreFresh'
  BY <1>0, <1>1, SameRows DEF LockBalance, ReadsAreFresh, TypeOK
<1>2. ASSUME NEW r \in Refs, RefuseReserve(r) PROVE ReadsAreFresh'
  BY <1>0, <1>2, EndTxnOthers, SameRows DEF RefuseReserve, ReadsAreFresh
<1>3. ASSUME NEW r \in Refs, Reserve(r) PROVE ReadsAreFresh'
  <2> DEFINE row == NewRow("RESERVE", r, -SmallerOf(HoldUnits, seen[r]))
  <2>1. -SmallerOf(HoldUnits, seen[r]) \in Int /\ item[r] = r /\ txn[r] # "none"
    BY <1>0, <1>3, UnitsAssumption DEF SmallerOf, TypeOK, SessionsInRole, Reserve
  <2>2. row \in Row /\ row.ref = r /\ row.user = Owner[r] /\ Post(row)
    BY <1>3, <2>1, NewRowType DEF Reserve, Kinds
  <2>3. \A o \in Sessions \ {r} : txn[o] # "none" => Owner[item[o]] # row.user
    BY <2>1, <2>2, DifferentAccounts
  <2> HIDE DEF row
  <2>4. EndTxn(r) /\ item' = item
    BY <1>3 DEF Reserve
  <2> QED
    BY <1>0, <2>1, <2>2, <2>3, <2>4, PostKeepsReads, EndTxnOthers DEF ReadsAreFresh
<1>4. ASSUME NEW r \in Refs, RunEnds(r) PROVE ReadsAreFresh'
  BY <1>0, <1>4, SameRows DEF RunEnds, ReadsAreFresh
<1>5. ASSUME NEW s \in Sessions, ReadHold(s) PROVE ReadsAreFresh'
  <2>1. \A q : Reserved(q)' = Reserved(q) /\ Closed(q)' = Closed(q)
    BY <1>5, SameRows DEF ReadHold
  <2>2. /\ hold'[s].reserved = Reserved(item[s])
        /\ hold'[s].closed = Closed(item[s])
    BY <1>0, <1>5 DEF ReadHold, TypeOK
  <2>3. \A o \in Sessions \ {s} : hold'[o] = hold[o] /\ txn'[o] = txn[o]
    BY <1>0, <1>5 DEF ReadHold, TypeOK
  <2>4. /\ txn[s] # "none" /\ item' = item /\ seen' = seen /\ balance' = balance
    BY <1>5 DEF ReadHold
  <2> QED
    BY <1>0, <2>1, <2>2, <2>3, <2>4 DEF ReadsAreFresh
<1>6. ASSUME NEW s \in Sessions, SkipClose(s) PROVE ReadsAreFresh'
  <2>1. \A q : Reserved(q)' = Reserved(q) /\ Closed(q)' = Closed(q)
    BY <1>6, SameRows DEF SkipClose
  <2>2. txn[s] # "none" /\ EndTxn(s) /\ Finish(s) /\ balance' = balance
    BY <1>6 DEF SkipClose
  <2> QED
    BY <1>0, <2>1, <2>2, EndTxnOthers, FinishOthers DEF ReadsAreFresh
<1>7. ASSUME NEW r \in Refs, Settle(r) PROVE ReadsAreFresh'
  <2> DEFINE row == NewRow("SETTLE", item[r], SettleAmount(r))
  <2>1. item[r] = r /\ txn[r] # "none" /\ SettleAmount(r) \in Int
    BY <1>0, <1>7, SettleAmountType DEF SessionsInRole, Settle
  <2>2. row \in Row /\ row.ref = r /\ row.user = Owner[r] /\ Post(row)
    BY <1>7, <2>1, NewRowType DEF Settle, Kinds
  <2>3. \A o \in Sessions \ {r} : txn[o] # "none" => Owner[item[o]] # row.user
    BY <2>1, <2>2, DifferentAccounts
  <2> HIDE DEF row
  <2>4. EndTxn(r) /\ Finish(r)
    BY <1>7 DEF Settle
  <2> QED
    BY <1>0, <2>1, <2>2, <2>3, <2>4, PostKeepsReads, EndTxnOthers, FinishOthers
    DEF ReadsAreFresh
<1>8. ASSUME NEW s \in Sessions, Refund(s) PROVE ReadsAreFresh'
  <2> DEFINE row == NewRow("REFUND", item[s], hold[s].reserved)
  <2>1. item[s] \in Refs /\ txn[s] # "none" /\ hold[s].reserved \in Int
    BY <1>0, <1>8, ItemOfTxn DEF Refund, TypeOK, HoldRead
  <2>2. row \in Row /\ row.ref = item[s] /\ row.user = Owner[item[s]] /\ Post(row)
    BY <1>8, <2>1, NewRowType DEF Refund, Kinds
  <2>3. \A o \in Sessions \ {s} : txn[o] # "none" => Owner[item[o]] # row.user
    BY <2>1, <2>2, DifferentAccounts
  <2> HIDE DEF row
  <2>4. EndTxn(s) /\ Finish(s)
    BY <1>8 DEF Refund
  <2> QED
    BY <1>0, <2>1, <2>2, <2>3, <2>4, PostKeepsReads, EndTxnOthers, FinishOthers
    DEF ReadsAreFresh
<1>9. ASSUME NEW r \in Refs, Age(r) PROVE ReadsAreFresh'
  BY <1>0, <1>9, SameRows DEF Age, ReadsAreFresh
<1>10. ASSUME NEW w \in Sweepers, SweepSelect(w) PROVE ReadsAreFresh'
  BY <1>0, <1>10, SameRows DEF SweepSelect, ReadsAreFresh
<1>11. ASSUME NEW w \in Sweepers, SweepNext(w) PROVE ReadsAreFresh'
  <2>1. txn[w] = "none"
    BY <1>0, <1>11 DEF SweepNext, LockHeld
  <2>2. \A o \in Sessions \ {w} : item'[o] = item[o]
    BY <1>0, <1>11 DEF SweepNext, TypeOK
  <2> QED
    BY <1>0, <1>11, <2>1, <2>2, SameRows DEF SweepNext, ReadsAreFresh
<1>12. ASSUME NEW t \in TopUps, TopUp(t) PROVE ReadsAreFresh'
  <2> DEFINE row == NewRow("PACK_PURCHASE", t, PackUnits)
  <2>1. row \in Row /\ row.ref = t /\ row.user = Owner[t] /\ Post(row)
    BY <1>12, NewRowType, UnitsAssumption DEF TopUp, Kinds
  <2>2. \A o \in Sessions : txn[o] # "none" => Owner[item[o]] # row.user
    BY <1>0, <1>12, <2>1, NamesAssumption DEF TopUp, LockHeld
  <2> HIDE DEF row
  <2> QED
    BY <1>0, <1>12, <2>1, <2>2, PostKeepsReads DEF TopUp, ReadsAreFresh
<1>13. ASSUME NEW s \in Sessions, RollBack(s) PROVE ReadsAreFresh'
  <2>1. \A o \in Sessions \ {s} : item'[o] = item[o]
    BY <1>0, <1>13 DEF RollBack, TypeOK
  <2> QED
    BY <1>0, <1>13, <2>1, EndTxnOthers, SameRows DEF RollBack, ReadsAreFresh
<1>14. ASSUME Crash PROVE ReadsAreFresh'
  BY <1>14 DEF Crash, ReadsAreFresh
<1>15. ASSUME UNCHANGED vars PROVE ReadsAreFresh'
  BY <1>0, <1>15, SameRows DEF vars, ReadsAreFresh
<1> QED
  BY <1>1, <1>2, <1>3, <1>4, <1>5, <1>6, <1>7, <1>8, <1>9, <1>10, <1>11,
     <1>12, <1>13, <1>14, <1>15
  DEF Next, RequestStep, CloseStep, SweepStep

(* Requests and sweeps stay in their own programs. *)
LEMMA RoleStep == IInv /\ [Next]_vars => SessionsInRole'
<1> SUFFICES ASSUME IInv, [Next]_vars PROVE SessionsInRole'
  OBVIOUS
<1>0. TypeOK /\ SessionsInRole
  BY DEF IInv
<1>1. \A s \in Sessions : Finish(s) => SessionsInRole'
  BY <1>0, NamesAssumption
  DEF Finish, SessionsInRole, TypeOK, RequestStates, SweepStates
<1>2. ASSUME NEW r \in Refs, RequestStep(r) \/ Age(r) PROVE SessionsInRole'
  BY <1>0, <1>1, <1>2, NamesAssumption
  DEF RequestStep, RefuseReserve, Reserve, RunEnds, Settle, Age, SessionsInRole,
      TypeOK, RequestStates
<1>3. ASSUME NEW s \in Sessions, CloseStep(s) PROVE SessionsInRole'
  BY <1>0, <1>1, <1>3
  DEF CloseStep, LockBalance, ReadHold, SkipClose, Refund, SessionsInRole
<1>4. ASSUME NEW s \in Sessions, RollBack(s) PROVE SessionsInRole'
  BY <1>0, <1>4, NamesAssumption
  DEF RollBack, SessionsInRole, TypeOK, RequestStates, SweepStates
<1>5. ASSUME NEW w \in Sweepers, SweepStep(w) PROVE SessionsInRole'
  BY <1>0, <1>5, NamesAssumption
  DEF SweepStep, SweepSelect, SweepNext, SessionsInRole, TypeOK, SweepStates
<1>6. ASSUME NEW t \in TopUps, TopUp(t) PROVE SessionsInRole'
  BY <1>0, <1>6 DEF TopUp, SessionsInRole
<1>7. ASSUME Crash PROVE SessionsInRole'
  BY <1>0, <1>7, NamesAssumption
  DEF Crash, SessionsInRole, RequestStates, SweepStates
<1>8. ASSUME UNCHANGED vars PROVE SessionsInRole'
  BY <1>0, <1>8 DEF vars, SessionsInRole
<1> QED
  BY <1>2, <1>3, <1>4, <1>5, <1>6, <1>7, <1>8 DEF Next

-----------------------------------------------------------------------------
(* The rows of one request.  Only Reserve, Settle, Refund and TopUp insert *)
(* rows: RowsStep treats each of them, and every other step keeps both the *)
(* ledger and what a settled request cost.                                 *)
RowInvs == RowsInOrder /\ ClosedOnce /\ ChargeWithinCost

(* The only row of its kind is the one AmountOf speaks of. *)
LEMMA AmountOfSingle ==
    ASSUME NEW row PROVE AmountOf({row}) = row.amount
BY DEF AmountOf

(* A step that inserts nothing and moves no request backwards keeps what *)
(* the invariant says of the rows.                                        *)
LEMMA QuietStep ==
    ASSUME IInv, ledger' = ledger,
           \A r \in Refs : pc'[r] = "new" => pc[r] = "new",
           \A r \in Refs : pc[r] = "done" => pc'[r] = "done" /\ cost'[r] = cost[r]
    PROVE  RowInvs'
<1>1. RowsInOrder /\ ClosedOnce /\ ChargeWithinCost
  BY DEF IInv
<1>2. RowsInOrder'
  BY <1>1, SameRows DEF RowsInOrder
<1>3. ClosedOnce'
  BY <1>1, SameRows DEF ClosedOnce
<1>4. ChargeWithinCost'
  BY <1>1, SameRows DEF ChargeWithinCost, RowsInOrder
<1> QED
  BY <1>2, <1>3, <1>4 DEF RowInvs

(* An accepted row, alone of its reference and kind, keeps the order of the *)
(* rows if its request has already come far enough.                         *)
LEMMA PostOrder ==
    ASSUME IInv, NEW row \in Row, Post(row), row.ref # NoOne,
           row.kind \in {"RESERVE", "SETTLE", "REFUND"} => row.ref \in Refs,
           row.kind = "RESERVE" => row.amount < 0 /\ pc'[row.ref] # "new",
           row.kind = "SETTLE" => pc'[row.ref] = "done",
           \A r \in Refs : pc'[r] = "new" => pc[r] = "new",
           \A r \in Refs : pc[r] = "done" => pc'[r] = "done"
    PROVE  RowsInOrder'
<1>1. RowsInOrder /\ TypeOK
  BY DEF IInv
<1>2. ledger' = ledger \cup {row} /\ RowsOf(row.ref, {row.kind}) = {}
  BY DEF Post, Accepts
<1>3. \A x \in ledger' :
        /\ x.kind \in {"RESERVE", "SETTLE", "REFUND"} => x.ref \in Refs
        /\ x.kind = "RESERVE" => x.amount < 0
  BY <1>1, <1>2 DEF RowsInOrder
<1>4. \A a, b \in ledger' : a.ref = b.ref /\ a.kind = b.kind /\ a.ref # NoOne => a = b
  BY <1>1, <1>2 DEF RowsInOrder, RowsOf
<1>5. \A r \in Refs : pc'[r] = "new" => RowsOf(r, {"RESERVE"})' = {}
  BY <1>1, PostRows DEF RowsInOrder
<1>6. \A r \in Refs : RowsOf(r, {"SETTLE"})' # {} => pc'[r] = "done"
  BY <1>1, PostRows DEF RowsInOrder
<1> QED
  BY <1>3, <1>4, <1>5, <1>6 DEF RowsInOrder

(* The rows of a request other than the one written for. *)
LEMMA PostOtherRows ==
    ASSUME IInv, NEW row, Post(row), NEW r \in Refs, r # row.ref
    PROVE  /\ ~(RowsOf(r, {"SETTLE"})' # {} /\ RowsOf(r, {"REFUND"})' # {})
           /\ Closed(r)' => RowsOf(r, {"RESERVE"})' # {}
BY PostOthers DEF IInv, ClosedOnce

(* A session about to write a close of an open hold: the RESERVE row is     *)
(* there, alone, and no row closes it yet.                                  *)
LEMMA OpenHoldRows ==
    ASSUME IInv, NEW s \in Sessions, txn[s] = "read", HoldIsOpen(s)
    PROVE  /\ item[s] \in Refs
           /\ RowsOf(item[s], {"SETTLE"}) = {} /\ RowsOf(item[s], {"REFUND"}) = {}
           /\ \E a \in ledger :
                /\ RowsOf(item[s], {"RESERVE"}) = {a}
                /\ a.amount \in Int /\ a.amount < 0
                /\ hold[s].reserved = -a.amount
<1>1. item[s] \in Refs
  BY ItemOfTxn
<1>2. Reserved(item[s]) # 0 /\ ~Closed(item[s]) /\ hold[s].reserved = Reserved(item[s])
  BY DEF IInv, ReadsAreFresh, HoldIsOpen
<1>3. RowsOf(item[s], {"SETTLE"}) = {} /\ RowsOf(item[s], {"REFUND"}) = {}
  BY <1>2 DEF Closed, RowsOf
<1>4. PICK a \in ledger : a \in RowsOf(item[s], {"RESERVE"})
  BY <1>2 DEF Reserved, RowsOf
<1>5. RowsOf(item[s], {"RESERVE"}) = {a}
  BY <1>1, <1>4, NamesAssumption DEF IInv, RowsInOrder, RowsOf
<1>6. a.amount \in Int /\ a.amount < 0
  BY <1>4 DEF IInv, RowsInOrder, TypeOK, Row, RowsOf
<1>7. hold[s].reserved = -a.amount
  BY <1>2, <1>5, AmountOfSingle DEF Reserved
<1> QED
  BY <1>1, <1>3, <1>5, <1>6, <1>7

(* The charge of an open hold of m credits, at cost c and balance b. *)
LEMMA SettleBounds ==
    ASSUME NEW m \in Nat, NEW c \in Nat, NEW b \in Nat
    PROVE  LET surplus == m - c
               amount == IF surplus >= 0 THEN surplus ELSE -SmallerOf(-surplus, b)
           IN  /\ amount \in Int /\ m - amount \in 0..c /\ b + amount >= 0
BY DEF SmallerOf

(* The RESERVE row reserve inserts keeps it. *)
LEMMA ReserveRows ==
    ASSUME IInv, NEW r \in Refs, Reserve(r) PROVE RowInvs'
<1> DEFINE row == NewRow("RESERVE", r, -SmallerOf(HoldUnits, seen[r]))
<1>0. TypeOK /\ RowsInOrder /\ ClosedOnce /\ ChargeWithinCost
  BY DEF IInv
<1>1. -SmallerOf(HoldUnits, seen[r]) \in Int /\ -SmallerOf(HoldUnits, seen[r]) < 0
  BY <1>0, UnitsAssumption DEF Reserve, SmallerOf, TypeOK
<1>2. /\ row \in Row /\ row.ref = r /\ row.kind = "RESERVE" /\ row.amount < 0
      /\ Post(row)
  BY <1>1, NewRowType DEF Reserve, Kinds
<1> HIDE DEF row
<1>3. /\ pc'[r] # "new" /\ pc[r] = "new" /\ cost' = cost
      /\ \A q \in Refs \ {r} : pc'[q] = pc[q]
  BY <1>0 DEF Reserve, TypeOK
<1>4. RowsInOrder'
  BY <1>2, <1>3, PostOrder, NamesAssumption
<1>5. RowsOf(r, {"SETTLE"})' = {} /\ RowsOf(r, {"REFUND"})' = {}
  <2>1. RowsOf(r, {"RESERVE"}) = {}
    BY <1>0, <1>3 DEF RowsInOrder
  <2>2. ~Closed(r)
    BY <1>0, <2>1 DEF ClosedOnce
  <2>3. RowsOf(r, {"SETTLE"}) = {} /\ RowsOf(r, {"REFUND"}) = {}
    BY <2>2 DEF Closed, RowsOf
  <2> QED
    BY <1>2, <2>3, PostRows
<1>6. RowsOf(r, {"RESERVE"})' # {}
  BY <1>2, PostRows
<1>7. ClosedOnce'
  BY <1>2, <1>5, <1>6, PostOtherRows DEF ClosedOnce
<1>8. ChargeWithinCost'
  BY <1>0, <1>2, <1>3, <1>5, PostOthers DEF ChargeWithinCost
<1> QED
  BY <1>4, <1>7, <1>8 DEF RowInvs

(* The SETTLE row settle inserts keeps it, and charges within the cost. *)
LEMMA SettleRows ==
    ASSUME IInv, NEW r \in Refs, Settle(r) PROVE RowInvs'
<1> DEFINE row == NewRow("SETTLE", r, SettleAmount(r))
<1>0. TypeOK /\ RowsInOrder /\ ClosedOnce /\ ChargeWithinCost /\ item[r] = r
  BY DEF IInv, SessionsInRole
<1>1. SettleAmount(r) \in Int
  BY <1>0, SettleAmountType
<1>2. /\ row \in Row /\ row.ref = r /\ row.kind = "SETTLE"
      /\ row.amount = SettleAmount(r) /\ Post(row)
  BY <1>0, <1>1, NewRowType DEF Settle, Kinds
<1> HIDE DEF row
<1>3. /\ pc'[r] = "done" /\ cost' = cost
      /\ \A q \in Refs \ {r} : pc'[q] = pc[q]
  BY <1>0 DEF Settle, Finish, TypeOK
<1>4. RowsInOrder'
  BY <1>2, <1>3, PostOrder, NamesAssumption
<1>5. PICK a \in ledger : /\ RowsOf(r, {"RESERVE"}) = {a}
                          /\ a.amount \in Int /\ a.amount < 0
                          /\ hold[r].reserved = -a.amount
  BY <1>0, OpenHoldRows DEF Settle
<1>6. RowsOf(r, {"SETTLE"}) = {} /\ RowsOf(r, {"REFUND"}) = {}
  BY <1>0, OpenHoldRows DEF Settle
<1>7. /\ RowsOf(r, {"RESERVE"})' = {a} /\ RowsOf(r, {"SETTLE"})' = {row}
      /\ RowsOf(r, {"REFUND"})' = {}
  BY <1>2, <1>5, <1>6, PostRows
<1>8. ClosedOnce'
  BY <1>2, <1>7, PostOtherRows DEF ClosedOnce
<1>9. -(a.amount + row.amount) \in 0..cost[r]
  <2>1. seen[r] \in Nat /\ cost[r] \in Nat /\ hold[r].reserved \in Nat
    BY <1>0, <1>5 DEF TypeOK
  <2>2. hold[r].reserved - SettleAmount(r) \in 0..cost[r]
    BY <1>0, <2>1, SettleBounds DEF SettleAmount
  <2> QED
    BY <1>1, <1>2, <1>5, <2>1, <2>2
<1>10. ChargeWithinCost'
  <2>1. cost' = cost
    BY <1>3
  <2>2. AmountOf({a}) = a.amount /\ AmountOf({row}) = row.amount
    BY AmountOfSingle
  <2>3. -(AmountOf(RowsOf(r, {"RESERVE"})') + AmountOf(RowsOf(r, {"SETTLE"})')) \in 0..cost'[r]
    BY <1>7, <1>9, <2>1, <2>2
  <2>4. ASSUME NEW q \in Refs \ {r}
        PROVE  \A k \in {"RESERVE", "SETTLE"} : RowsOf(q, {k})' = RowsOf(q, {k})
    BY <1>2, PostOthers
  <2>5. ASSUME NEW q \in Refs \ {r}, RowsOf(q, {"SETTLE"})' # {}
        PROVE  -(AmountOf(RowsOf(q, {"RESERVE"})') + AmountOf(RowsOf(q, {"SETTLE"})')) \in 0..cost'[q]
    BY <1>0, <2>1, <2>4, <2>5 DEF ChargeWithinCost
  <2> QED
    BY <2>3, <2>5 DEF ChargeWithinCost, AmountOf
<1> QED
  BY <1>4, <1>8, <1>10 DEF RowInvs

(* The REFUND row of abandon or of a sweep keeps it. *)
LEMMA RefundRows ==
    ASSUME IInv, NEW s \in Sessions, Refund(s) PROVE RowInvs'
<1> DEFINE row == NewRow("REFUND", item[s], hold[s].reserved)
<1>0. TypeOK /\ RowsInOrder /\ ClosedOnce /\ ChargeWithinCost
  BY DEF IInv
<1>1. PICK r \in Refs : /\ item[s] = r
                        /\ RowsOf(r, {"SETTLE"}) = {}
                        /\ RowsOf(r, {"RESERVE"}) # {}
  BY OpenHoldRows DEF Refund
<1>2. /\ row \in Row /\ row.ref = r /\ row.kind = "REFUND" /\ Post(row)
  BY <1>0, <1>1, NewRowType DEF Refund, Kinds, TypeOK, HoldRead
<1> HIDE DEF row
<1>3. /\ cost' = cost
      /\ \A q \in Refs : pc'[q] = pc[q] \/ pc'[q] = "done"
  BY <1>0, NamesAssumption DEF Refund, Finish, TypeOK
<1>4. RowsInOrder'
  BY <1>1, <1>2, <1>3, PostOrder, NamesAssumption
<1>5. RowsOf(r, {"SETTLE"})' = {} /\ RowsOf(r, {"RESERVE"})' # {}
  BY <1>1, <1>2, PostRows
<1>6. ClosedOnce'
  BY <1>1, <1>2, <1>5, PostOtherRows DEF ClosedOnce
<1>7. \A q \in Refs \ {r} : \A K : RowsOf(q, K)' = RowsOf(q, K)
  BY <1>2, PostOthers
<1>8. ChargeWithinCost'
  BY <1>0, <1>3, <1>5, <1>7 DEF ChargeWithinCost
<1> QED
  BY <1>4, <1>6, <1>8 DEF RowInvs

(* A credit pack's row is of no request and keeps it. *)
LEMMA TopUpRows ==
    ASSUME IInv, NEW t \in TopUps, TopUp(t) PROVE RowInvs'
<1> DEFINE row == NewRow("PACK_PURCHASE", t, PackUnits)
<1>0. TypeOK /\ RowsInOrder /\ ClosedOnce /\ ChargeWithinCost
  BY DEF IInv
<1>1. row \in Row /\ row.ref = t /\ row.kind = "PACK_PURCHASE" /\ Post(row)
  BY NewRowType, UnitsAssumption DEF TopUp, Kinds
<1> HIDE DEF row
<1>2. cost' = cost /\ pc' = pc /\ \A r \in Refs : r # t
  BY NamesAssumption DEF TopUp
<1>3. RowsInOrder'
  BY <1>1, <1>2, PostOrder, NamesAssumption
<1>4. ClosedOnce'
  BY <1>1, <1>2, PostOtherRows DEF ClosedOnce
<1>5. \A r \in Refs : \A K : RowsOf(r, K)' = RowsOf(r, K)
  BY <1>1, <1>2, PostOthers
<1>6. ChargeWithinCost'
  BY <1>0, <1>2, <1>5 DEF ChargeWithinCost
<1> QED
  BY <1>3, <1>4, <1>6 DEF RowInvs

(* Every step keeps what the invariant says of the rows. *)
LEMMA RowsStep == IInv /\ [Next]_vars => RowInvs'
<1> SUFFICES ASSUME IInv, [Next]_vars PROVE RowInvs'
  OBVIOUS
<1>0. TypeOK /\ SessionsInRole /\ LockHeld
  BY DEF IInv
<1>1. ASSUME NEW s \in Sessions, LockBalance(s) \/ ReadHold(s) PROVE RowInvs'
  BY <1>1, QuietStep DEF LockBalance, ReadHold
<1>2. ASSUME NEW r \in Refs, RefuseReserve(r) PROVE RowInvs'
  BY <1>0, <1>2, QuietStep DEF RefuseReserve, TypeOK
<1>3. ASSUME NEW r \in Refs, RunEnds(r) PROVE RowInvs'
  <2>1. \A q \in Refs : pc'[q] = "new" => pc[q] = "new"
    BY <1>0, <1>3 DEF RunEnds, TypeOK
  <2>2. \A q \in Refs : pc[q] = "done" => pc'[q] = "done" /\ cost'[q] = cost[q]
    BY <1>0, <1>3 DEF RunEnds, TypeOK
  <2> QED
    BY <1>3, <2>1, <2>2, QuietStep DEF RunEnds
<1>4. ASSUME NEW s \in Sessions, SkipClose(s) PROVE RowInvs'
  <2>1. \A q \in Refs : pc'[q] = pc[q] \/ pc'[q] = "done"
    BY <1>0, <1>4, NamesAssumption DEF SkipClose, Finish, TypeOK
  <2> QED
    BY <1>4, <2>1, QuietStep DEF SkipClose
<1>5. ASSUME NEW r \in Refs, Age(r) PROVE RowInvs'
  BY <1>5, QuietStep DEF Age
<1>6. ASSUME NEW w \in Sweepers, SweepStep(w) PROVE RowInvs'
  BY <1>0, <1>6, QuietStep, NamesAssumption
  DEF SweepStep, SweepSelect, SweepNext, TypeOK
<1>7. ASSUME NEW s \in Sessions, RollBack(s) PROVE RowInvs'
  <2>1. \A q \in Refs : /\ pc'[q] = "new" => pc[q] = "new"
                        /\ pc[q] = "done" => pc'[q] = "done"
    BY <1>0, <1>7, NamesAssumption DEF RollBack, TypeOK, LockHeld, Closing
  <2> QED
    BY <1>7, <2>1, QuietStep DEF RollBack
<1>8. ASSUME Crash PROVE RowInvs'
  BY <1>8, QuietStep, NamesAssumption DEF Crash
<1>9. ASSUME UNCHANGED vars PROVE RowInvs'
  BY <1>9, QuietStep DEF vars
<1> QED
  BY <1>1, <1>2, <1>3, <1>4, <1>5, <1>6, <1>7, <1>8, <1>9,
     ReserveRows, SettleRows, RefundRows, TopUpRows
  DEF Next, RequestStep, CloseStep

-----------------------------------------------------------------------------
(* IInv is inductive: every reachable state satisfies it. *)
THEOREM Invariance == Spec => []IInv
<1>1. IInv /\ [Next]_vars => IInv'
  BY TypeStep, LockHeldStep, ReadsStep, RoleStep, RowsStep DEF IInv, RowInvs
<1> QED
  BY InitIInv, <1>1, PTL DEF Spec

(* Every variable keeps its type; in particular no interleaving of          *)
(* reserve, settle, refund and sweep drives a balance below zero.           *)
THEOREM TypeCorrectness == Spec => []TypeOK
<1>1. IInv => TypeOK
  BY DEF IInv
<1> QED
  BY Invariance, <1>1, PTL

(* "A balance can never be spent twice" (settle, refund, reserve and the   *)
(* balance trigger): the account holds what the ledger's rows add up to.   *)
(* A user's rows stay finitely many, each insert adds one row that was not *)
(* there, and the trigger adds its amount.                                 *)
EntriesFinite == \A u \in Users : IsFiniteSet(Entries(u))

(* Every balance opens at the sum of no entries.                           *)
LEMMA BooksBegin == Init => EntriesFinite /\ BalanceIsLedgerSum
<1> SUFFICES ASSUME Init, NEW u \in Users
             PROVE  IsFiniteSet(Entries(u)) /\ balance[u] = SumFunctionOnSet(Amounts, Entries(u))
  BY DEF EntriesFinite, BalanceIsLedgerSum
<1> DEFINE row == [user |-> u, kind |-> "SIGNUP_GRANT", ref |-> NoOne, amount |-> SignupUnits]
<1>1. ledger = [user : Users, kind : {"SIGNUP_GRANT"}, ref : {NoOne}, amount : {SignupUnits}]
  BY DEF Init
<1>2. Entries(u) = {row}
  BY <1>1 DEF Entries
<1>3. row \in ledger /\ Amounts[row] = SignupUnits /\ SignupUnits \in Int
  BY <1>1, UnitsAssumption DEF Amounts
<1>4. balance[u] = SignupUnits
  BY DEF Init
<1> HIDE DEF row
<1>5. IsFiniteSet({}) /\ {} \cup {row} = {row}
  BY FS_EmptySet
<1>6. SumFunctionOnSet(Amounts, {row}) = Amounts[row] + 0
  <2>1. SumFunctionOnSet(Amounts, {} \cup {row}) = Amounts[row] + SumFunctionOnSet(Amounts, {})
    BY <1>3, <1>5, SumWithOneMore
  <2>2. SumFunctionOnSet(Amounts, {}) = 0
    BY SumOfNone
  <2> QED
    BY <1>5, <2>1, <2>2
<1>7. IsFiniteSet(Entries(u))
  BY <1>2, FS_Singleton
<1>8. Amounts[row] + 0 = SignupUnits
  BY <1>3
<1> QED
  BY <1>2, <1>4, <1>6, <1>7, <1>8

(* A row that is posted moves the balance of its user by its amount.       *)
LEMMA BooksPosted ==
    ASSUME TypeOK, EntriesFinite, BalanceIsLedgerSum, NEW row \in Row, Post(row)
    PROVE  EntriesFinite' /\ BalanceIsLedgerSum'
<1>1. row \notin ledger /\ ledger' = ledger \cup {row} /\ row.user \in Users /\ row.amount \in Int
  BY DEF Post, Accepts, RowsOf, Row
<1>2. \A x \in ledger : x.amount \in Int /\ Amounts[x] = x.amount /\ Amounts'[x] = x.amount
  BY <1>1 DEF TypeOK, Row, Amounts
<1>3. Amounts'[row] = row.amount
  BY <1>1 DEF Amounts
<1> SUFFICES ASSUME NEW u \in Users
             PROVE  IsFiniteSet(Entries(u)') /\ balance'[u] = SumFunctionOnSet(Amounts', Entries(u)')
  BY DEF EntriesFinite, BalanceIsLedgerSum
<1>4. IsFiniteSet(Entries(u)) /\ Entries(u) \subseteq ledger
      /\ balance[u] = SumFunctionOnSet(Amounts, Entries(u))
  BY DEF EntriesFinite, BalanceIsLedgerSum, Entries
<1>5. SumFunctionOnSet(Amounts', Entries(u)) = SumFunctionOnSet(Amounts, Entries(u))
  BY <1>2, <1>4, SumOfSame
<1>6. CASE row.user # u
  <2>1. Entries(u)' = Entries(u) /\ balance'[u] = balance[u]
    BY <1>1, <1>6, PostType DEF Entries
  <2> QED
    BY <1>4, <1>5, <2>1
<1>7. CASE row.user = u
  <2>1. Entries(u)' = Entries(u) \cup {row} /\ row \notin Entries(u)
    BY <1>1, <1>7 DEF Entries
  <2>2. balance'[u] = balance[u] + row.amount /\ balance[u] \in Int
    BY <1>7, PostType DEF TypeOK
  <2>3. \A x \in Entries(u) : Amounts'[x] \in Int
    BY <1>2, <1>4
  <2>4. SumFunctionOnSet(Amounts', Entries(u) \cup {row})
          = Amounts'[row] + SumFunctionOnSet(Amounts', Entries(u))
    BY <1>1, <1>3, <1>4, <2>1, <2>3, SumWithOneMore
  <2> QED
    BY <1>1, <1>3, <1>4, <1>5, <2>1, <2>2, <2>4, FS_AddElement
<1> QED
  BY <1>6, <1>7

(* Every step posts one row or leaves balances and rows alone.             *)
LEMMA BooksKept ==
    ASSUME IInv, [Next]_vars, EntriesFinite, BalanceIsLedgerSum
    PROVE  EntriesFinite' /\ BalanceIsLedgerSum'
<1> USE DEF IInv
<1>1. CASE UNCHANGED <<balance, ledger>>
  BY <1>1 DEF EntriesFinite, BalanceIsLedgerSum, Entries, Amounts
<1>2. ASSUME NEW kind \in Kinds, NEW r \in Refs \cup TopUps, NEW amount \in Int,
             Post(NewRow(kind, r, amount))
      PROVE  EntriesFinite' /\ BalanceIsLedgerSum'
  BY <1>2, NewRowType, BooksPosted
<1>3. ASSUME NEW r \in Refs, Reserve(r) PROVE EntriesFinite' /\ BalanceIsLedgerSum'
  <2>1. -SmallerOf(HoldUnits, seen[r]) \in Int
    BY UnitsAssumption DEF TypeOK, SmallerOf
  <2> QED
    BY <1>2, <1>3, <2>1 DEF Reserve, Kinds
<1>4. ASSUME NEW r \in Refs, Settle(r) PROVE EntriesFinite' /\ BalanceIsLedgerSum'
  <2>1. item[r] = r /\ SettleAmount(r) \in Int
    BY SettleAmountType DEF SessionsInRole
  <2> QED
    BY <1>2, <1>4, <2>1 DEF Settle, Kinds
<1>5. ASSUME NEW s \in Sessions, Refund(s) PROVE EntriesFinite' /\ BalanceIsLedgerSum'
  <2>1. item[s] \in Refs /\ hold[s].reserved \in Nat
    BY <1>5, OpenHoldRows DEF Refund
  <2> QED
    BY <1>2, <1>5, <2>1 DEF Refund, Kinds
<1>6. ASSUME NEW t \in TopUps, TopUp(t) PROVE EntriesFinite' /\ BalanceIsLedgerSum'
  BY <1>2, <1>6, UnitsAssumption DEF TopUp, Kinds
<1> QED
  BY <1>1, <1>3, <1>4, <1>5, <1>6
  DEF Next, RequestStep, CloseStep, SweepStep, RefuseReserve, RunEnds, LockBalance, ReadHold, SkipClose,
      Age, SweepSelect, SweepNext, RollBack, Crash, vars

(* At every moment the balance of a user is the sum of the ledger entries, *)
(* for any users, requests and amounts (credit.repository.ts).             *)
THEOREM BooksStayTrue == Spec => []BooksAreTrue
<1> DEFINE Books == IInv /\ EntriesFinite /\ BalanceIsLedgerSum
<1>1. Init => Books
  BY InitIInv, BooksBegin
<1>2. Books /\ [Next]_vars => Books'
  BY BooksKept, TypeStep, LockHeldStep, ReadsStep, RoleStep, RowsStep DEF IInv, RowInvs
<1>3. Books => BooksAreTrue
  BY DEF BooksAreTrue, IInv
<1> QED
  BY <1>1, <1>2, <1>3, PTL DEF Spec

(* settle, refund and any number of sweeps never close one hold twice. *)
THEOREM HoldsCloseOnce == Spec => []ClosedOnce
<1>1. IInv => ClosedOnce
  BY DEF IInv
<1> QED
  BY Invariance, <1>1, PTL

(* settle charges between nothing and what the tokens cost. *)
THEOREM ChargesStayWithinCost == Spec => []ChargeWithinCost
<1>1. IInv => ChargeWithinCost
  BY DEF IInv
<1> QED
  BY Invariance, <1>1, PTL

(* What a transaction decides from its reads, the table accepts. *)
THEOREM DecidedWritesAreAccepted == Spec => []WritesAreAccepted
<1>1. ASSUME IInv PROVE WritesAreAccepted
  <2>0. TypeOK /\ ReadsAreFresh /\ SessionsInRole /\ RowsInOrder
    BY <1>1 DEF IInv
  <2>1. ASSUME NEW r \in Refs, pc[r] = "new", txn[r] = "locked", seen[r] >= MinUnits
        PROVE  Accepts(NewRow("RESERVE", r, -SmallerOf(HoldUnits, seen[r])))
    <3> DEFINE m == SmallerOf(HoldUnits, seen[r])
    <3>1. item[r] = r /\ seen[r] = balance[Owner[r]] /\ RowsOf(r, {"RESERVE"}) = {}
      BY <2>0, <2>1 DEF ReadsAreFresh, SessionsInRole, RowsInOrder
    <3>2. m \in Int /\ m > 0 /\ m <= seen[r] /\ seen[r] \in Nat
      BY <2>0, <2>1, UnitsAssumption DEF SmallerOf, TypeOK
    <3>3. -m # 0 /\ seen[r] + (-m) >= 0
      BY <3>2
    <3> QED
      BY <3>1, <3>2, <3>3 DEF Accepts, NewRow
  <2>2. ASSUME NEW r \in Refs, pc[r] = "completing", txn[r] = "read", HoldIsOpen(r)
        PROVE  Accepts(NewRow("SETTLE", r, SettleAmount(r)))
    <3>1. item[r] = r /\ seen[r] = balance[Owner[r]]
      BY <2>0, <2>2 DEF ReadsAreFresh, SessionsInRole
    <3>2. RowsOf(r, {"SETTLE"}) = {} /\ hold[r].reserved \in Nat
      BY <1>1, <2>2, <3>1, OpenHoldRows
    <3>3. seen[r] \in Nat /\ cost[r] \in Nat
      BY <2>0 DEF TypeOK
    <3>4. seen[r] + SettleAmount(r) >= 0
      BY <3>1, <3>2, <3>3, SettleBounds DEF SettleAmount
    <3> QED
      BY <3>1, <3>2, <3>4 DEF Accepts, NewRow
  <2>3. ASSUME NEW s \in Sessions, pc[s] \in {"abandoning", "sweeping"},
               txn[s] = "read", HoldIsOpen(s)
        PROVE  Accepts(NewRow("REFUND", item[s], hold[s].reserved))
    <3>1. /\ item[s] \in Refs /\ RowsOf(item[s], {"REFUND"}) = {}
          /\ hold[s].reserved \in Nat /\ hold[s].reserved # 0
      BY <1>1, <2>3, OpenHoldRows
    <3>2. balance[Owner[item[s]]] \in Nat
      BY <2>0, <3>1, NamesAssumption DEF TypeOK
    <3> QED
      BY <3>1, <3>2 DEF Accepts, NewRow
  <2> QED
    BY <2>1, <2>2, <2>3 DEF WritesAreAccepted
<1> QED
  BY Invariance, <1>1, PTL

-----------------------------------------------------------------------------
(* The refinement. *)

HoldMap == [r \in Refs |-> HoldState(r)]

(* A step that inserts no row of r's leaves r's hold as it is. *)
LEMMA HoldStateKept ==
    ASSUME NEW r, \A K : RowsOf(r, K)' = RowsOf(r, K)
    PROVE  HoldState(r)' = HoldState(r)
<1>1. /\ RowsOf(r, {"SETTLE"})' = RowsOf(r, {"SETTLE"})
      /\ RowsOf(r, {"REFUND"})' = RowsOf(r, {"REFUND"})
      /\ RowsOf(r, {"RESERVE"})' = RowsOf(r, {"RESERVE"})
  OBVIOUS
<1> QED
  BY <1>1 DEF HoldState

(* The states a hold can be in before and after a session closes it. *)
LEMMA HoldStateOpen ==
    ASSUME NEW r, RowsOf(r, {"SETTLE"}) = {}, RowsOf(r, {"REFUND"}) = {},
           RowsOf(r, {"RESERVE"}) # {}
    PROVE  HoldState(r) = "open"
BY DEF HoldState

(* The transactions implement HoldLifecycle: each hold is opened once and   *)
(* then closed for good, by exactly one charge or one return.               *)
THEOREM Implementation == Spec => ImplementsHoldLifecycle
<1>1. Init => HL!Init
  <2> SUFFICES ASSUME Init PROVE HL!Init
    OBVIOUS
  <2>1. \A r \in Refs : \A K : RowsOf(r, K) = {}
    BY NamesAssumption DEF Init, RowsOf
  <2> QED
    BY <2>1 DEF HL!Init, HoldState
<1>2. IInv /\ IInv' /\ [Next]_vars => [HL!Next]_HoldMap
  <2> SUFFICES ASSUME IInv, IInv', [Next]_vars PROVE [HL!Next]_HoldMap
    OBVIOUS
  <2>0. RowsInOrder /\ SessionsInRole /\ ClosedOnce
    BY DEF IInv
  <2>1. ASSUME ledger' = ledger PROVE HoldMap' = HoldMap
    BY <2>1, SameRows, HoldStateKept DEF HoldMap
  <2>2. ASSUME NEW row, Post(row), NEW q \in Refs, row.ref = q,
               NEW to, HoldState(q)' = to
        PROVE  HoldMap' = [HoldMap EXCEPT ![q] = to]
    <3>1. \A r \in Refs \ {q} : HoldState(r)' = HoldState(r)
      BY <2>2, PostOthers, HoldStateKept
    <3> QED
      BY <2>2, <3>1 DEF HoldMap
  <2>3. ASSUME NEW r \in Refs, Reserve(r) PROVE HL!Open(r)
    <3> DEFINE row == NewRow("RESERVE", r, -SmallerOf(HoldUnits, seen[r]))
    <3>1. row.ref = r /\ row.kind = "RESERVE" /\ Post(row)
      BY <2>3 DEF Reserve, NewRow
    <3> HIDE DEF row
    <3>2. RowsOf(r, {"RESERVE"}) = {} /\ ~Closed(r)
      BY <2>0, <2>3 DEF RowsInOrder, Reserve, ClosedOnce
    <3>3. RowsOf(r, {"SETTLE"}) = {} /\ RowsOf(r, {"REFUND"}) = {}
      BY <3>2 DEF Closed, RowsOf
    <3>4. /\ RowsOf(r, {"SETTLE"})' = {} /\ RowsOf(r, {"REFUND"})' = {}
          /\ RowsOf(r, {"RESERVE"})' # {}
      BY <3>1, <3>3, PostRows
    <3>5. HoldState(r) = "none" /\ HoldState(r)' = "open"
      BY <3>2, <3>3, <3>4 DEF HoldState
    <3> QED
      BY <3>1, <3>5, <2>2 DEF HL!Open, HL!Become, HoldMap
  <2>4. ASSUME NEW r \in Refs, Settle(r) PROVE HL!Charge(r)
    <3> DEFINE row == NewRow("SETTLE", item[r], SettleAmount(r))
    <3>1. row.ref = r /\ row.kind = "SETTLE" /\ Post(row) /\ item[r] = r
      BY <2>0, <2>4 DEF Settle, NewRow, SessionsInRole
    <3> HIDE DEF row
    <3>2. /\ RowsOf(r, {"SETTLE"}) = {} /\ RowsOf(r, {"REFUND"}) = {}
          /\ RowsOf(r, {"RESERVE"}) # {}
      BY <2>4, <3>1, OpenHoldRows DEF Settle
    <3>3. RowsOf(r, {"SETTLE"})' # {} /\ RowsOf(r, {"REFUND"})' = {}
      BY <3>1, <3>2, PostRows
    <3>4. HoldState(r) = "open" /\ HoldState(r)' = "charged"
      BY <3>2, <3>3 DEF HoldState
    <3> QED
      BY <3>1, <3>4, <2>2 DEF HL!Charge, HL!Become, HoldMap
  <2>5. ASSUME NEW s \in Sessions, Refund(s) PROVE \E r \in Refs : HL!Return(r)
    <3> DEFINE row == NewRow("REFUND", item[s], hold[s].reserved)
    <3>1. PICK r \in Refs : /\ item[s] = r
                            /\ RowsOf(r, {"SETTLE"}) = {}
                            /\ RowsOf(r, {"REFUND"}) = {}
                            /\ RowsOf(r, {"RESERVE"}) # {}
      BY <2>5, OpenHoldRows DEF Refund
    <3>2. row.ref = r /\ row.kind = "REFUND" /\ Post(row)
      BY <2>5, <3>1 DEF Refund, NewRow
    <3> HIDE DEF row
    <3>3. RowsOf(r, {"SETTLE"})' = {} /\ RowsOf(r, {"REFUND"})' # {}
      <4>1. RowsOf(r, {"SETTLE"})' = {}
        BY <3>1, <3>2, PostRows
      <4>2. row \in RowsOf(r, {"REFUND"})'
        BY <3>2 DEF Post, RowsOf
      <4> QED
        BY <4>1, <4>2
    <3>4. HoldState(r) = "open"
      BY <3>1, HoldStateOpen
    <3>5. HoldState(r)' = "returned"
      BY <3>3 DEF HoldState
    <3> QED
      BY <3>2, <3>4, <3>5, <2>2 DEF HL!Return, HL!Become, HoldMap
  <2>6. ASSUME NEW t \in TopUps, TopUp(t) PROVE HoldMap' = HoldMap
    <3> DEFINE row == NewRow("PACK_PURCHASE", t, PackUnits)
    <3>0. row.ref = t /\ Post(row) /\ \A r \in Refs : r # t
      BY <2>6, NamesAssumption DEF TopUp, NewRow
    <3> HIDE DEF row
    <3>1. \A r \in Refs : \A K : RowsOf(r, K)' = RowsOf(r, K)
      BY <3>0, PostOthers
    <3> QED
      BY <3>1, HoldStateKept DEF HoldMap
  <2>7. \/ ledger' = ledger
        \/ \E r \in Refs : Reserve(r) \/ Settle(r)
        \/ \E s \in Sessions : Refund(s)
        \/ \E t \in TopUps : TopUp(t)
    BY DEF Next, RequestStep, CloseStep, SweepStep, vars, RefuseReserve, RunEnds,
           Age, LockBalance, ReadHold, SkipClose, RollBack, SweepSelect, SweepNext,
           Crash
  <2> QED
    BY <2>1, <2>3, <2>4, <2>5, <2>6, <2>7 DEF HL!Next
<1> QED
  BY Invariance, <1>1, <1>2, PTL DEF Spec, ImplementsHoldLifecycle, HL!Spec, HoldMap

=============================================================================
