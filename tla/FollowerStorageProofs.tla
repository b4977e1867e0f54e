------------------------ MODULE FollowerStorageProofs ------------------------
(***************************************************************************)
(* Proofs about FollowerStorage for every chain, every number of blocks,   *)
(* crashes and failed writes.                                              *)
(***************************************************************************)
EXTENDS FollowerStorage, BoundedSets

USE StorageAssumption DEF Height

(* The commit has confirmed its block and not yet written the tree.        *)
Working == {"confirmed", "checked", "stored"}

(* What the process counters say of the others: a tick has a block, a fast *)
(* sync has a target, and a process that is down has neither.              *)
Shape ==
    /\ pc # "idle" => blk \in Height
    /\ fastPc # "none" => Prover /\ fast \in Height
    /\ proc # "up" => pc = "idle" /\ fastPc = "none"

TypeInv == TypeOK /\ Shape

(* get_max_height returns the greatest stored height.                      *)
LEMMA MaxStoredGreatest ==
    ASSUME store \subseteq Height
    PROVE  MaxStored \in store \cup {0} /\ \A i \in store : i <= MaxStored
<1>1. store \cup {0} \subseteq 0..MaxHeight
    OBVIOUS
<1>2. PICK x \in store \cup {0} : \A y \in store \cup {0} : y <= x
    BY <1>1, GreatestExists
<1>3. \E h \in store \cup {0} : \A i \in store : i <= h
    BY <1>2
<1> QED BY <1>3 DEF MaxStored

(* The leaves below a block's root are its own and its predecessor's; a    *)
(* block whose validation is not skipped inserts new ones.                 *)
LEMMA RootStep ==
    ASSUME NEW c \in [Height -> SUBSET Leaf], NEW h \in Height
    PROVE  /\ Root(c, h) = Root(c, h - 1) \cup c[h]
           /\ IsChain(c) /\ h \notin BadBlocks => Root(c, h - 1) \cap c[h] = {}
<1>1. \A i \in Int : i \in 1..h <=> i \in 1..(h - 1) \/ i = h
    OBVIOUS
<1>2. c[h] \subseteq Leaf
    OBVIOUS
<1>3. Root(c, h) = Root(c, h - 1) \cup c[h]
    BY <1>1, <1>2 DEF Root
<1>4. ASSUME IsChain(c), h \notin BadBlocks PROVE Root(c, h - 1) \cap c[h] = {}
  <2>1. \A i \in 1..(h - 1) : c[i] \cap c[h] = {}
    BY <1>4 DEF IsChain
  <2> QED BY <2>1 DEF Root
<1> QED BY <1>3, <1>4

(* Every action keeps the types of the node's state, whatever the heights  *)
(* the network, the fast sync and load_db_and_smirk hand to it.            *)
LEMMA TypeStep ==
    ASSUME TypeInv, [Next]_vars
    PROVE  TypeInv'
<1> USE DEF TypeInv, TypeOK, Shape, PC
<1>1. ASSUME NEW h \in Height, ReceiveProposal(h) PROVE TypeInv'
    BY <1>1 DEF ReceiveProposal, durable, syncer, budget
<1>2. CASE TickFetch
    BY <1>2 DEF TickFetch, durable, syncer, budget
<1>3. CASE TickValidate
  <2>1. cached' \subseteq Height
    BY <1>3 DEF TickValidate, ValidBlock
  <2>2. pc' \in PC /\ blk' \in 0..MaxHeight
    BY <1>3 DEF TickValidate, ValidBlock
  <2>3. Shape'
    BY <1>3 DEF TickValidate, ValidBlock, syncer
  <2> QED BY <1>3, <2>1, <2>2, <2>3 DEF TickValidate, durable, syncer, budget
<1>4. CASE TickConfirm
    BY <1>4 DEF TickConfirm, Confirm, durable, syncer, budget
<1>5. CASE CommitCheck
  <2>1. CASE Collides(blk) /\ GoDown("double_spend")
    BY <1>5, <2>1 DEF CommitCheck, GoDown, durable, budget
  <2>2. CASE pc' = "checked" /\ UNCHANGED <<tree, height, cached, proc, blk,
                                            syncer, panic, trouble>>
    BY <1>5, <2>2 DEF CommitCheck, durable, syncer, budget
  <2> QED BY <1>5, <2>1, <2>2 DEF CommitCheck
<1>6. CASE CommitStore
  <2>1. store' \subseteq Height
    BY <1>6 DEF CommitStore
  <2>2. pc' \in PC /\ blk' \in 0..MaxHeight
    BY <1>6 DEF CommitStore
  <2>3. trouble' \in {"none", "write", "race"} /\ ioErrors' \in 0..MaxIoErrors
    BY <1>6 DEF CommitStore
  <2>4. Shape'
    BY <1>6 DEF CommitStore, syncer
  <2> QED BY <1>6, <2>1, <2>2, <2>3, <2>4 DEF CommitStore, syncer
<1>7. CASE CommitTree
  <2>1. chain[blk] \subseteq Leaf
    BY <1>7 DEF CommitTree
  <2>2. CASE GoDown("double_spend") /\ UNCHANGED <<disk, ioErrors>>
    BY <1>7, <2>2 DEF CommitTree, GoDown
  <2>3. CASE ~Collides(blk)
    <3>1. tree' \subseteq Leaf /\ disk' \subseteq Leaf
      BY <1>7, <2>1, <2>3 DEF CommitTree
    <3>2. /\ trouble' \in {"none", "write", "race"}
          /\ ioErrors' \in 0..MaxIoErrors
      BY <1>7, <2>3 DEF CommitTree
    <3>3. pc' = "idle" /\ blk' = 0 /\ UNCHANGED <<height, cached, proc, fast,
                                                   fastPc, panic>>
      BY <1>7, <2>3 DEF CommitTree, syncer
    <3> QED BY <1>7, <3>1, <3>2, <3>3 DEF CommitTree
  <2> QED BY <1>7, <2>2, <2>3 DEF CommitTree
<1>8. ASSUME NEW h \in Height, FastRequest(h) PROVE TypeInv'
    BY <1>8 DEF FastRequest, durable, budget
<1>9. CASE FastAbandon
    BY <1>9 DEF FastAbandon, durable, budget
<1>10. CASE FastInsert
  <2>1. RootAt(fast) \subseteq Leaf
    BY DEF RootAt, Root
  <2>2. tree' \subseteq Leaf /\ disk' \subseteq Leaf
    BY <1>10, <2>1 DEF FastInsert
  <2>3. height' \in 0..MaxHeight
    BY <1>10 DEF FastInsert, Confirm
  <2>4. cached' \subseteq Height
    BY <1>10 DEF FastInsert, Confirm
  <2>5. trouble' \in {"none", "write", "race"}
    BY <1>10 DEF FastInsert
  <2> QED BY <1>10, <2>2, <2>3, <2>4, <2>5 DEF FastInsert, budget
<1>f. CASE FastInsertFails
    BY <1>f DEF FastInsertFails, GoDown, durable, budget
<1>11. CASE FastDeliver
    BY <1>11 DEF FastDeliver, durable, budget
<1>12. CASE Crash
    BY <1>12 DEF Crash, GoDown, durable, budget
<1>13. CASE Load
  <2>1. MaxStored \in 0..MaxHeight
    <3>1. MaxStored \in store \cup {0}
      BY MaxStoredGreatest
    <3> QED BY <3>1
  <2>2. CASE LoadEmpty
    BY <2>2 DEF LoadEmpty, Start, budget
  <2>3. CASE LoadInSync
    BY <2>1, <2>3 DEF LoadInSync, Start, durable, budget
  <2>4. CASE LoadPanic
    BY <2>4 DEF LoadPanic, durable, syncer, budget
  <2>5. CASE LoadRecover
    <3>1. chain[MaxStored] \subseteq Leaf
      BY <2>1, <2>5, MaxStoredGreatest DEF LoadRecover
    <3> QED BY <2>1, <2>5, <3>1 DEF LoadRecover, Start, budget
  <2>6. CASE LoadResetDb
    BY <2>6 DEF LoadResetDb, syncer, budget
  <2>7. CASE LoadResetSmirk
    BY <2>7 DEF LoadResetSmirk, Start, budget
  <2> QED BY <1>13, <2>2, <2>3, <2>4, <2>5, <2>6, <2>7 DEF Load
<1>14. CASE UNCHANGED vars
    BY <1>14 DEF vars
<1> QED
    BY <1>1, <1>2, <1>3, <1>4, <1>5, <1>6, <1>7, <1>8, <1>9, <1>10, <1>f, <1>11,
       <1>12, <1>13, <1>14 DEF Next, Tick

(* TypeOK holds throughout, for every value of the constants.              *)
THEOREM TypeCorrect == Spec => [](TypeOK /\ Shape)
<1>1. Init => TypeInv
    BY DEF Init, TypeInv, TypeOK, Shape, PC, IsChain
<1>2. TypeInv /\ [Next]_vars => TypeInv'
    BY TypeStep
<1> QED BY <1>1, <1>2, PTL DEF Spec, TypeInv
-----------------------------------------------------------------------------
(* Agreement is not inductive: the commit in progress must be that of the  *)
(* confirmed height.                                                       *)
AgreeInv ==
    /\ Agreement
    /\ proc = "up" /\ trouble = "none" /\ pc \in Working => blk = height

\* Every step of commit_proposal, of the snapshot and of load_db_and_smirk
\* preserves the inductive invariant of agreement.
LEMMA AgreeStep ==
    ASSUME ~Prover \/ BadBlocks = {}, TypeInv, AgreeInv, [Next]_vars
    PROVE  AgreeInv'
<1>t. /\ chain \in [Height -> SUBSET Leaf] /\ IsChain(chain)
      /\ height \in 0..MaxHeight /\ blk \in 0..MaxHeight
      /\ pc # "idle" => blk \in Height
      /\ fastPc # "none" => Prover /\ fast \in Height
      /\ proc # "up" => pc = "idle"
    BY DEF TypeInv, TypeOK, Shape
<1> HIDE StorageAssumption DEF Height
<1> USE DEF AgreeInv, Agreement, Working, RootAt
<1>1. ASSUME NEW h \in Height, ReceiveProposal(h) PROVE AgreeInv'
    BY <1>1 DEF ReceiveProposal, durable
<1>2. CASE TickFetch
    BY <1>2 DEF TickFetch, durable
<1>3. CASE TickValidate
    BY <1>3 DEF TickValidate, durable
<1>4. CASE TickConfirm
  <2>1. height' = blk /\ pc' = "confirmed" /\ UNCHANGED <<chain, disk, tree, blk>>
    BY <1>4 DEF TickConfirm, Confirm, durable
  <2>2. ASSUME trouble' = "none" PROVE trouble = "none" /\ height = blk - 1
    BY <1>4, <2>2 DEF TickConfirm
  <2> QED BY <1>4, <2>1, <2>2 DEF TickConfirm
<1>5. CASE CommitCheck
    BY <1>5 DEF CommitCheck, GoDown, durable
<1>6. CASE CommitStore
    BY <1>6 DEF CommitStore
<1>7. CASE CommitTree
  <2>1. CASE GoDown("double_spend")
    BY <2>1 DEF GoDown
  <2>2. CASE ~Collides(blk)
    <3>1. SUFFICES ASSUME trouble' = "none"
                   PROVE  disk' = tree' /\ tree' = Root(chain, height)
      BY <1>7, <2>2 DEF CommitTree
    <3>2. disk' = disk \cup (chain[blk] \ tree) /\ trouble = "none"
      BY <1>7, <2>2, <3>1 DEF CommitTree
    <3>3. blk = height /\ disk = tree /\ tree = Root(chain, blk - 1)
      BY <1>7, <3>2 DEF CommitTree
    <3>4. blk \in Height
      BY <1>7, <1>t DEF CommitTree
    <3>5. tree' = tree \cup chain[blk]
      BY <1>7, <2>2 DEF CommitTree
    <3> QED BY <3>2, <3>3, <3>4, <3>5, <1>t, RootStep
  <2> QED BY <1>7, <2>1, <2>2 DEF CommitTree
<1>8. ASSUME NEW h \in Height, FastRequest(h) PROVE AgreeInv'
    BY <1>8 DEF FastRequest, durable
<1>9. CASE FastAbandon
    BY <1>9 DEF FastAbandon, durable
<1>10. CASE FastInsert
  <2>1. SUFFICES ASSUME trouble' = "none"
                 PROVE  disk' = tree' /\ tree' = Root(chain, fast - 1)
    BY <1>10 DEF FastInsert, Confirm
  <2>2. trouble = "none" /\ pc \in {"idle", "fetched"} /\ disk = tree
    BY <1>10, <2>1 DEF FastInsert
  <2>3. fast \in Height /\ fast \notin BadBlocks
    BY <1>10, <1>t DEF FastInsert
  <2>4. /\ Root(chain, fast) = Root(chain, fast - 1) \cup chain[fast]
        /\ Root(chain, fast - 1) \cap chain[fast] = {}
    BY <1>t, <2>3, RootStep
  <2>5. /\ tree \subseteq Root(chain, fast)
        /\ chain[fast] \subseteq Root(chain, fast) \ tree
        /\ tree' = tree \cup ((Root(chain, fast) \ tree) \ chain[fast])
        /\ disk' = disk \cup ((Root(chain, fast) \ tree) \ chain[fast])
    BY <1>10 DEF FastInsert
  <2> QED BY <2>2, <2>4, <2>5
<1>f. CASE FastInsertFails
    BY <1>f DEF FastInsertFails, GoDown
<1>11. CASE FastDeliver
    BY <1>11 DEF FastDeliver, durable
<1>12. CASE Crash
    BY <1>12 DEF Crash, GoDown
<1>13. CASE Load
  <2>1. CASE LoadEmpty
    BY <2>1, <1>t DEF LoadEmpty, Start, Root
  <2>2. CASE LoadInSync
    BY <2>2, <1>t DEF LoadInSync, Start, durable
  <2>3. CASE LoadPanic
    BY <2>3 DEF LoadPanic, durable
  <2>4. CASE LoadRecover
    <3>1. MaxStored \in Height
      <4>1. store \subseteq Height
        BY DEF TypeInv, TypeOK
      <4>2. MaxStored \in store \cup {0} /\ MaxStored - 1 \in store
        BY <2>4, <4>1, MaxStoredGreatest DEF LoadRecover
      <4> QED BY <4>1, <4>2, StorageAssumption DEF Height
    <3>2. Root(chain, MaxStored) = Root(chain, MaxStored - 1) \cup chain[MaxStored]
      BY <3>1, <1>t, RootStep
    <3> QED BY <2>4, <3>2, <1>t DEF LoadRecover, Start
  <2>5. CASE LoadResetDb
    BY <2>5 DEF LoadResetDb
  <2>6. CASE LoadResetSmirk
    BY <2>6, <1>t DEF LoadResetSmirk, Start, Root
  <2> QED BY <1>13, <2>1, <2>2, <2>3, <2>4, <2>5, <2>6 DEF Load
<1>14. CASE UNCHANGED vars
    BY <1>14 DEF vars
<1> QED
    BY <1>1, <1>2, <1>3, <1>4, <1>5, <1>6, <1>7, <1>8, <1>9, <1>10, <1>f, <1>11,
       <1>12, <1>13, <1>14 DEF Next, Tick

(* The store, the tree and the confirmed height of a running node agree,   *)
(* for every chain and any number of crashes and failed writes. A fast     *)
(* sync keeps the agreement only if no block's validation is skipped.      *)
THEOREM AgreementHolds ==
    ASSUME ~Prover \/ BadBlocks = {}
    PROVE  Spec => []Agreement
<1>1. Init => AgreeInv
    BY DEF Init, AgreeInv, Agreement, Working, RootAt, Root
<1>2. TypeInv /\ AgreeInv /\ [Next]_vars => AgreeInv'
    BY AgreeStep
<1>3. Spec => []TypeInv
    BY TypeCorrect DEF TypeInv
<1>4. AgreeInv => Agreement
    BY DEF AgreeInv
<1> QED BY <1>1, <1>2, <1>3, <1>4, PTL DEF Spec
-----------------------------------------------------------------------------
(* With every write succeeding and no fast sync: the store holds blocks 1  *)
(* to n, the tree's database is at block n, or at n - 1 when a commit was  *)
(* between its two writes, and the tick worker is at the end of the store. *)
Durable(n) ==
    /\ store = 1..n
    /\ disk = RootAt(n) \/ (n > 0 /\ disk = RootAt(n - 1))
    /\ proc = "up" =>
        height = IF pc \in {"confirmed", "checked"} THEN n + 1 ELSE n
    /\ pc \in {"fetched", "validated"} => blk = height + 1

RecoveryInv ==
    /\ fastPc = "none" /\ trouble = "none" /\ proc # "reset" /\ ioErrors = 0
    /\ panic = "load" => proc = "down"
    /\ LoadPanicsOnlyAtFirstBlock
    /\ \E n \in 0..MaxHeight : Durable(n)

\* When the store holds exactly the blocks 1 to n, get_max_height returns n.
LEMMA MaxStoredIs ==
    ASSUME NEW n \in 0..MaxHeight, store = 1..n
    PROVE  MaxStored = n
<1>1. store \subseteq Height
    OBVIOUS
<1>2. MaxStored \in store \cup {0} /\ \A i \in store : i <= MaxStored
    BY <1>1, MaxStoredGreatest
<1> QED BY <1>2

\* Every step preserves the inductive invariant of recovery, a crash between
\* the two writes of commit_proposal included.
LEMMA RecoveryStep ==
    ASSUME ~Prover, MaxIoErrors = 0,
           TypeInv, AgreeInv, RecoveryInv, [Next]_vars
    PROVE  RecoveryInv' /\ store \subseteq store'
<1>t. /\ chain \in [Height -> SUBSET Leaf]
      /\ height \in 0..MaxHeight /\ cached \subseteq Height
      /\ store \subseteq Height
      /\ pc # "idle" => blk \in Height
      /\ proc # "up" => pc = "idle"
      /\ pc \in PC
    BY DEF TypeInv, TypeOK, Shape
<1>a. /\ proc = "up" => disk = Root(chain, IF pc \in Working THEN height - 1
                                                             ELSE height)
      /\ proc = "up" /\ pc \in Working => blk = height
    BY DEF AgreeInv, Agreement, RecoveryInv, Working, RootAt
<1>q. /\ fastPc = "none" /\ trouble = "none" /\ ioErrors = 0
      /\ proc # "reset"
      /\ panic = "load" => proc = "down"
      /\ panic = "load" => store = {1} /\ chain[1] # {}
    BY DEF RecoveryInv, LoadPanicsOnlyAtFirstBlock
<1>n. PICK n \in 0..MaxHeight : Durable(n)
    BY DEF RecoveryInv
<1>m. MaxStored = n
    BY <1>n, MaxStoredIs DEF Durable
<1>g. ASSUME NEW k \in 0..MaxHeight, Durable(k)', store \subseteq store',
             fastPc' = "none", trouble' = "none", proc' # "reset",
             ioErrors' = 0, (panic = "load" => proc = "down")',
             (panic = "load" => store = {1} /\ chain[1] # {})'
      PROVE  RecoveryInv' /\ store \subseteq store'
    BY <1>g DEF RecoveryInv, LoadPanicsOnlyAtFirstBlock
<1> USE DEF Durable, RootAt, Working
<1>1. ASSUME NEW h \in Height, ReceiveProposal(h)
      PROVE  RecoveryInv' /\ store \subseteq store'
    BY <1>1, <1>n, <1>q, <1>g DEF ReceiveProposal, durable, syncer, budget
<1>2. CASE TickFetch
    BY <1>2, <1>n, <1>q, <1>g DEF TickFetch, durable, syncer, budget
<1>3. CASE TickValidate
    BY <1>3, <1>n, <1>q, <1>g DEF TickValidate, durable, syncer, budget
<1>4. CASE TickConfirm
  <2>1. blk = height + 1 /\ height = n
    BY <1>4, <1>n DEF TickConfirm
  <2>2. height' = n + 1 /\ pc' = "confirmed"
    BY <1>4, <2>1 DEF TickConfirm, Confirm
  <2> QED BY <1>4, <2>1, <2>2, <1>n, <1>q, <1>g, <1>t
          DEF TickConfirm, durable, syncer, budget
<1>5. CASE CommitCheck
  <2>1. CASE GoDown("double_spend")
    BY <1>5, <2>1, <1>n, <1>q, <1>g DEF CommitCheck, GoDown, durable, budget
  <2>2. CASE pc' = "checked" /\ UNCHANGED <<tree, height, cached, proc, blk,
                                            syncer, panic, trouble>>
    BY <1>5, <2>2, <1>n, <1>q, <1>g DEF CommitCheck, durable, syncer, budget
  <2> QED BY <1>5, <2>1, <2>2 DEF CommitCheck
<1>6. CASE CommitStore
  <2>1. height = n + 1 /\ blk = n + 1 /\ n + 1 \in 0..MaxHeight
    BY <1>6, <1>n, <1>a, <1>t DEF CommitStore
  <2>2. store' = 1..(n + 1) /\ pc' = "stored"
    <3>1. ~(ioErrors < MaxIoErrors)
      BY <1>q
    <3>2. store' = store \cup {n + 1} /\ pc' = "stored"
      BY <1>6, <2>1, <3>1 DEF CommitStore
    <3>3. store = 1..n
      BY <1>n
    <3> QED BY <3>2, <3>3
  <2>3. disk' = Root(chain', n)
    BY <1>6, <1>a, <2>1 DEF CommitStore
  <2>4. Durable(n + 1)'
    BY <1>6, <2>1, <2>2, <2>3 DEF CommitStore
  <2>5. store \subseteq store' /\ trouble' = "none" /\ ioErrors' = 0
    BY <1>6, <1>n, <1>q, <2>2 DEF CommitStore
  <2>6. panic # "load"
    BY <1>6, <1>q, <1>n, <2>1 DEF CommitStore
  <2> QED BY <1>6, <1>q, <1>g, <2>1, <2>4, <2>5, <2>6 DEF CommitStore, syncer
<1>7. CASE CommitTree
  <2>1. CASE GoDown("double_spend") /\ UNCHANGED <<disk, ioErrors>>
    BY <1>7, <2>1, <1>n, <1>q, <1>g DEF CommitTree, GoDown
  <2>2. CASE ~Collides(blk)
    <3>1. height = n /\ blk = n /\ n \in Height /\ disk = tree
          /\ tree = Root(chain, n - 1)
      BY <1>7, <1>n, <1>a, <1>t, <1>q DEF CommitTree, AgreeInv, Agreement
    <3>2. disk' = disk \cup (chain[blk] \ tree) /\ UNCHANGED <<trouble, ioErrors>>
      BY <1>7, <1>q, <2>2 DEF CommitTree
    <3>3. disk' = Root(chain, n)
      BY <3>1, <3>2, <1>t, RootStep
    <3>4. pc' = "idle" /\ UNCHANGED <<chain, store, height, proc, panic, fastPc>>
      BY <1>7, <2>2 DEF CommitTree, syncer
    <3> QED BY <3>1, <3>2, <3>3, <3>4, <1>n, <1>q, <1>g
  <2> QED BY <1>7, <2>1, <2>2 DEF CommitTree
<1>8. ASSUME NEW h \in Height, FastRequest(h) PROVE FALSE
    BY <1>8 DEF FastRequest
<1>9. CASE FastAbandon \/ FastInsert \/ FastInsertFails \/ FastDeliver
    BY <1>9, <1>q DEF FastAbandon, FastInsert, FastInsertFails, FastDeliver
<1>12. CASE Crash
    BY <1>12, <1>n, <1>q, <1>g DEF Crash, GoDown
<1>13. CASE Load
  <2>1. CASE LoadEmpty
    <3>1. n = 0
      BY <2>1, <1>n DEF LoadEmpty
    <3>2. Root(chain, 0) = {}
      BY DEF Root
    <3> QED BY <2>1, <3>1, <3>2, <1>n, <1>q, <1>g, <1>t
            DEF LoadEmpty, Start, budget
  <2>2. CASE LoadInSync
    BY <2>2, <1>m, <1>n, <1>q, <1>g, <1>t
       DEF LoadInSync, Start, durable, budget
  <2>3. CASE LoadPanic
    <3>1. n = 1 /\ store = {1}
      BY <2>3, <1>m, <1>n DEF LoadPanic
    <3>2. disk = Root(chain, 0) /\ disk # Root(chain, 1)
      BY <2>3, <3>1, <1>m, <1>n DEF LoadPanic
    <3>3. chain[1] # {}
      BY <3>2, <1>t DEF Root
    <3> QED BY <2>3, <3>1, <3>3, <1>n, <1>q, <1>g
            DEF LoadPanic, durable, syncer, budget
  <2>4. CASE LoadRecover
    <3>1. n \in Height
      BY <2>4, <1>m, <1>n DEF LoadRecover
    <3>2. disk' = Root(chain, n)
      BY <2>4, <3>1, <1>m, <1>t, RootStep DEF LoadRecover
    <3> QED BY <2>4, <3>2, <1>m, <1>n, <1>q, <1>g, <1>t
            DEF LoadRecover, Start, budget
  <2>5. CASE LoadResetDb
    BY <2>5, <1>m, <1>n DEF LoadResetDb
  <2>6. CASE LoadResetSmirk
    BY <2>6, <1>q DEF LoadResetSmirk
  <2> QED BY <1>13, <2>1, <2>2, <2>3, <2>4, <2>5, <2>6 DEF Load
<1>14. CASE UNCHANGED vars
    BY <1>14, <1>n, <1>q, <1>g DEF vars
<1> QED
    BY <1>1, <1>2, <1>3, <1>4, <1>5, <1>6, <1>7, <1>8, <1>9, <1>12, <1>13,
       <1>14 DEF Next, Tick

(* The invariant of recovery holds throughout.                             *)
LEMMA RecoveryHolds ==
    ASSUME ~Prover, MaxIoErrors = 0
    PROVE  Spec => []RecoveryInv /\ NoBlockLost
<1>1. Init => AgreeInv
    BY DEF Init, AgreeInv, Agreement, Working, RootAt, Root
<1>2. Init => RecoveryInv
  <2> SUFFICES ASSUME Init PROVE RecoveryInv
    OBVIOUS
  <2>1. Durable(0)
    BY DEF Init, Durable, RootAt, Root
  <2> QED BY <2>1 DEF Init, RecoveryInv, LoadPanicsOnlyAtFirstBlock
<1>3. TypeInv /\ AgreeInv /\ [Next]_vars => AgreeInv'
    BY AgreeStep
<1>4. TypeInv /\ AgreeInv /\ RecoveryInv /\ [Next]_vars
        => RecoveryInv' /\ [store \subseteq store']_vars
    BY RecoveryStep
<1>5. Spec => []TypeInv
    BY TypeCorrect DEF TypeInv
<1> QED BY <1>1, <1>2, <1>3, <1>4, <1>5, PTL DEF Spec, NoBlockLost

(* Crash recovery of a node that does not fast sync and whose writes       *)
(* succeed: whatever the chain and however many crashes, wherever they     *)
(* fall, load_db_and_smirk gives up no stored block.                       *)
THEOREM NoBlockLostHolds ==
    ASSUME ~Prover, MaxIoErrors = 0
    PROVE  Spec => NoBlockLost
BY RecoveryHolds, PTL

(* The only commit that load_db_and_smirk cannot repair, and panics over,  *)
(* is that of the first block.                                             *)
THEOREM LoadPanicsOnlyAtFirstBlockHolds ==
    ASSUME ~Prover, MaxIoErrors = 0
    PROVE  Spec => []LoadPanicsOnlyAtFirstBlock
<1>1. RecoveryInv => LoadPanicsOnlyAtFirstBlock
    BY DEF RecoveryInv
<1> QED BY <1>1, RecoveryHolds, PTL
-----------------------------------------------------------------------------
(* A validated block stays validated up to its commit in this sense: the   *)
(* tree has what the chain has below it, whatever a fast sync adds.        *)
PrefixInv ==
    proc = "up" =>
        /\ \E k \in 0..MaxHeight : tree = RootAt(k)
        /\ pc \in {"validated", "confirmed", "checked", "stored"} =>
              Root(chain, blk - 1) \subseteq tree

(* Roots grow with the height, and from a block's root its leaves are in.  *)
LEMMA RootGrows ==
    ASSUME NEW c \in [Height -> SUBSET Leaf], NEW i \in Int, NEW j \in Int
    PROVE  /\ i <= j => Root(c, i) \subseteq Root(c, j)
           /\ i \in Height /\ i <= j => c[i] \subseteq Root(c, j)
<1>1. i <= j => \A k \in 1..i : k \in 1..j
    OBVIOUS
<1>2. i \in Height /\ i <= j => i \in 1..j /\ c[i] \subseteq Leaf
    OBVIOUS
<1> QED BY <1>1, <1>2 DEF Root

(* Without skipped validations every step leaves the tree at a block: a    *)
(* fast sync at the one below its target, a commit that no longer fits the *)
(* tree panics or inserts nothing.                                         *)
LEMMA PrefixStep ==
    ASSUME BadBlocks = {}, TypeInv, PrefixInv, [Next]_vars
    PROVE  PrefixInv'
<1>t. /\ chain \in [Height -> SUBSET Leaf] /\ IsChain(chain)
      /\ pc # "idle" => blk \in Height
      /\ fastPc # "none" => fast \in Height
      /\ proc # "up" => pc = "idle"
      /\ MaxHeight \in Nat
      /\ Root(chain, 0) = {} /\ 0 \in 0..MaxHeight
    BY DEF TypeInv, TypeOK, Shape, Root
<1>r. ASSUME NEW h \in Height
      PROVE  /\ Root(chain, h) = Root(chain, h - 1) \cup chain[h]
             /\ Root(chain, h - 1) \cap chain[h] = {}
             /\ h \in 0..MaxHeight /\ h - 1 \in 0..MaxHeight
    BY <1>t, RootStep
<1> HIDE StorageAssumption DEF Height
<1> USE DEF PrefixInv, RootAt
<1>1. ASSUME NEW h \in Height, ReceiveProposal(h) PROVE PrefixInv'
    BY <1>1 DEF ReceiveProposal
<1>2. CASE TickFetch
    BY <1>2 DEF TickFetch
<1>3. CASE TickValidate
  <2>1. CASE ValidBlock(blk) /\ pc' = "validated" /\ UNCHANGED blk
    <3>1. blk \in Height
      BY <1>3, <1>t DEF TickValidate
    <3>2. tree \cup chain[blk] = Root(chain, blk)
      BY <2>1 DEF ValidBlock
    <3>3. Root(chain, blk - 1) \subseteq tree
      BY <1>r, <3>1, <3>2
    <3> QED BY <1>3, <2>1, <3>3 DEF TickValidate
  <2>2. CASE pc' = "idle"
    BY <1>3, <2>2 DEF TickValidate
  <2> QED BY <1>3, <2>1, <2>2 DEF TickValidate
<1>4. CASE TickConfirm
    BY <1>4 DEF TickConfirm
<1>5. CASE CommitCheck
    BY <1>5 DEF CommitCheck, GoDown
<1>6. CASE CommitStore
    BY <1>6 DEF CommitStore
<1>7. CASE CommitTree
  <2>1. CASE GoDown("double_spend")
    BY <2>1 DEF GoDown
  <2>2. CASE ~Collides(blk) /\ tree' = tree \cup chain[blk] /\ pc' = "idle"
    <3>1. blk \in Height /\ chain' = chain /\ proc = "up"
      BY <1>7, <1>t DEF CommitTree
    <3>2. chain[blk] \cap tree = {} /\ Root(chain, blk - 1) \subseteq tree
      BY <1>7, <2>2 DEF Collides, CommitTree
    <3>3. PICK k \in 0..MaxHeight : tree = Root(chain, k)
      BY <3>1
    <3>4. CASE chain[blk] = {}
      BY <2>2, <3>1, <3>3, <3>4
    <3>5. CASE chain[blk] # {}
      <4>1. blk \in Int /\ k \in Int /\ blk - 1 \in Int
        BY <3>1, <3>3 DEF Height
      <4>2. ~(blk <= k)
        BY <3>1, <3>2, <3>3, <3>5, <4>1, <1>t, RootGrows
      <4>3. k <= blk - 1
        BY <4>1, <4>2
      <4>4. Root(chain, k) \subseteq Root(chain, blk - 1)
        BY <4>1, <4>3, <1>t, RootGrows
      <4>5. tree' = Root(chain, blk)
        BY <2>2, <3>1, <3>2, <3>3, <4>4, <1>r
      <4> QED BY <2>2, <3>1, <4>5, <1>r
    <3> QED BY <3>4, <3>5
  <2> QED BY <1>7, <2>1, <2>2 DEF CommitTree
<1>8. ASSUME NEW h \in Height, FastRequest(h) PROVE PrefixInv'
    BY <1>8 DEF FastRequest
<1>9. CASE FastAbandon
    BY <1>9 DEF FastAbandon
<1>10. CASE FastInsert
  <2>1. fast \in Height
    BY <1>10, <1>t DEF FastInsert
  <2>2. /\ tree \subseteq Root(chain, fast)
        /\ chain[fast] \subseteq Root(chain, fast) \ tree
        /\ tree' = tree \cup ((Root(chain, fast) \ tree) \ chain[fast])
        /\ UNCHANGED <<chain, pc, blk>>
    BY <1>10 DEF FastInsert
  <2>3. tree' = Root(chain, fast - 1)
    BY <2>1, <2>2, <1>r
  <2>4. tree \subseteq tree'
    BY <2>2
  <2> QED BY <1>10, <2>1, <2>2, <2>3, <2>4, <1>r DEF FastInsert
<1>f. CASE FastInsertFails
    BY <1>f DEF FastInsertFails, GoDown
<1>11. CASE FastDeliver
    BY <1>11 DEF FastDeliver
<1>12. CASE Crash
    BY <1>12 DEF Crash, GoDown
<1>13. CASE Load
  <2>m. MaxStored \in 0..MaxHeight
    <3>1. store \subseteq Height
      BY DEF TypeInv, TypeOK
    <3>2. MaxStored \in store \cup {0}
      BY <3>1, MaxStoredGreatest
    <3> QED BY <3>1, <3>2, StorageAssumption DEF Height
  <2>1. CASE LoadEmpty
    BY <2>1, <1>t DEF LoadEmpty, Start
  <2>2. CASE LoadInSync
    BY <2>2, <2>m, <1>t DEF LoadInSync, Start, durable
  <2>3. CASE LoadPanic
    BY <2>3 DEF LoadPanic
  <2>4. CASE LoadRecover
    <3>1. MaxStored \in Height
      <4>1. store \subseteq Height
        BY DEF TypeInv, TypeOK
      <4>2. MaxStored \in store \cup {0} /\ MaxStored - 1 \in store
        BY <2>4, <4>1, MaxStoredGreatest DEF LoadRecover
      <4> QED BY <4>1, <4>2, StorageAssumption DEF Height
    <3>2. Root(chain, MaxStored) = Root(chain, MaxStored - 1) \cup chain[MaxStored]
      BY <3>1, <1>r
    <3> QED BY <2>4, <2>m, <3>2, <1>t DEF LoadRecover, Start
  <2>5. CASE LoadResetDb
    BY <2>5 DEF LoadResetDb
  <2>6. CASE LoadResetSmirk
    BY <2>6, <1>t DEF LoadResetSmirk, Start
  <2> QED BY <1>13, <2>1, <2>2, <2>3, <2>4, <2>5, <2>6 DEF Load
<1>14. CASE UNCHANGED vars
    BY <1>14 DEF vars
<1> QED
    BY <1>1, <1>2, <1>3, <1>4, <1>5, <1>6, <1>7, <1>8, <1>9, <1>10, <1>f, <1>11,
       <1>12, <1>13, <1>14 DEF Next, Tick

(* Without config.bad_blocks the tree of a running node is that of some    *)
(* block of the chain, also after failed writes and when a fast sync and a *)
(* commit cross: commit_proposal checks its leaves again before the tree.  *)
THEOREM TreeIsPrefixHolds ==
    ASSUME BadBlocks = {}
    PROVE  Spec => []TreeIsPrefix
<1>1. Init => PrefixInv
  <2> SUFFICES ASSUME Init PROVE PrefixInv
    OBVIOUS
  <2>1. Root(chain, 0) = {} /\ 0 \in 0..MaxHeight
    BY DEF Root
  <2> QED BY <2>1 DEF Init, PrefixInv, RootAt
<1>2. TypeInv /\ PrefixInv /\ [Next]_vars => PrefixInv'
    BY PrefixStep
<1>3. Spec => []TypeInv
    BY TypeCorrect DEF TypeInv
<1>4. PrefixInv => TreeIsPrefix
    BY DEF PrefixInv, TreeIsPrefix
<1> QED BY <1>1, <1>2, <1>3, <1>4, PTL DEF Spec
=============================================================================
