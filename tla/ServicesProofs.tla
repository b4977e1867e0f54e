---------------------------- MODULE ServicesProofs ----------------------------
(***************************************************************************)
(* Proofs about parts of the node that share no state: the payment links,  *)
(* the validator sets of the contract and the nodes, the pool, Doomslug    *)
(* (its approval trackers and its timer), the commit streams and the pages *)
(* of list_txns and list_blocks.                                           *)
(***************************************************************************)
EXTENDS PaymentLinks, ValidatorSets, Pool, Doomslug, Listing, BoundedSets, FiniteSetTheorems,
        SequenceTheorems

-----------------------------------------------------------------------------
(* Payment links.                                                          *)
LinkRecords ==
    [status : {"none", "pending", "claimed", "cancelled", "expired"},
     recipient : Users \cup {Nobody}, expires : Int, claimedBy : Users \cup {Nobody}]

LinksInv == links \in [LinkIds -> LinkRecords] /\ paid \in [LinkIds -> Nat] /\ LinkClaimedOnce

\* No request of the table leaves a link claimed twice, or by nobody.
LEMMA LinksStep ==
    ASSUME LinksInv, [LinksNext]_linkVars
    PROVE  LinksInv'
<1> USE LinksAssumption DEF LinksInv, LinkClaimedOnce, LinkRecords
<1>1. ASSUME NEW id \in LinkIds, NEW user \in Users, ClaimOk(id, user)
      PROVE  LinksInv'
  <2>1. links[id].status = "pending" /\ links[id].claimedBy = Nobody /\ paid[id] = 0
    BY <1>1 DEF ClaimOk, Claimable
  <2>2. /\ links' = [links EXCEPT ![id] = [@ EXCEPT !.status = "claimed", !.claimedBy = user]]
        /\ paid' = [paid EXCEPT ![id] = @ + 1]
    BY <1>1 DEF ClaimOk
  <2>3. links' \in [LinkIds -> LinkRecords] /\ paid' \in [LinkIds -> Nat]
    <3>1. [links[id] EXCEPT !.status = "claimed", !.claimedBy = user] \in LinkRecords
      OBVIOUS
    <3> QED BY <2>2, <3>1
  <2>4. LinkClaimedOnce'
    BY <2>1, <2>2
  <2> QED BY <2>3, <2>4
<1>2. ASSUME NEW id \in LinkIds, NEW user \in Users, Cancel(id, user)
      PROVE  LinksInv'
  BY <1>2 DEF Cancel
<1>3. ASSUME NEW id \in LinkIds, NEW user \in Users, NEW t \in 1..MaxTime, Create(id, user, t)
      PROVE  LinksInv'
  BY <1>3 DEF Create
<1>4. ASSUME NEW id \in LinkIds, ClaimExpired(id)
      PROVE  LinksInv'
  BY <1>4 DEF ClaimExpired
<1>5. CASE Clock
  BY <1>5 DEF Clock
<1>6. CASE LinksLost
  BY <1>6 DEF LinksLost, NoLink
<1>7. CASE UNCHANGED linkVars
  BY <1>7 DEF linkVars
<1> QED BY <1>1, <1>2, <1>3, <1>4, <1>5, <1>6, <1>7 DEF LinksNext

\* The four requests that look at a link look at the same conditions.
LEMMA ViewsAgreeAlways ==
    ASSUME links \in [LinkIds -> LinkRecords]
    PROVE  ViewsAgree
<1> SUFFICES ASSUME NEW id \in LinkIds, links[id].status # "none"
             PROVE  LET link == links[id] IN
                    /\ (Shown(link) = "pending") = Claimable(link)
                    /\ (Validate(link, link.recipient, link.expires) = "valid") = Claimable(link)
                    /\ IsListed(link, link.recipient, "pending", "sent") = Claimable(link)
                    /\ Claimable(link) => ProofGiven(link)
  BY DEF ViewsAgree, Exists
<1>1. links[id] \in LinkRecords
  OBVIOUS
<1> DEFINE link == links[id]
<1>2. (Shown(link) = "pending") = Claimable(link)
  BY <1>1 DEF Shown, Claimable, LinkRecords
<1>3. (Validate(link, link.recipient, link.expires) = "valid") = Claimable(link)
  BY <1>1 DEF Validate, Claimable, LinkRecords
<1>4. IsListed(link, link.recipient, "pending", "sent") = Claimable(link)
  BY <1>1, <1>2 DEF IsListed, LinkRecords
<1>5. Claimable(link) => ProofGiven(link)
  BY DEF Claimable, ProofGiven
<1> QED BY <1>2, <1>3, <1>4, <1>5

(* Whatever requests replace, cancel or expire a link in between, it is    *)
(* claimed at most once after its creation, and get, validate, list and    *)
(* generate proof say of it what claim would do.                           *)
THEOREM PaymentLinksSoundHolds == LinksSpec => []PaymentLinksSound
<1>1. LinksInit => LinksInv
  BY DEF LinksInit, LinksInv, LinkClaimedOnce, LinkRecords, NoLink
<1>2. LinksInv /\ [LinksNext]_linkVars => LinksInv'
  BY LinksStep
<1>3. LinksInv => PaymentLinksSound
  BY ViewsAgreeAlways DEF LinksInv, PaymentLinksSound
<1> QED BY <1>1, <1>2, <1>3, PTL DEF LinksSpec
-----------------------------------------------------------------------------
(* Validator sets.  The contract's sequence only grows, and strictly in    *)
(* validFrom, so that what a node read of it stays true.                   *)
SetRecords == [from : Nat, members : Seq(Nodes) \ {<<>>}]
Keepers == [pc : {"off", "loaded", "wait", "relisten", "reload"}, events : Seq(Nat),
            errors : Nat, start : Nat]

ContractInv ==
    /\ sets \in Seq(SetRecords) /\ setIndex \in 1..Len(sets) /\ rolled \in Nat
    /\ sets[1].from = 0
    /\ \A i, j \in 1..Len(sets) : i < j => sets[i].from < sets[j].from
    /\ sets[setIndex].from <= rolled

Copied(c) ==
    /\ c \in Seq(SetRecords) /\ Len(c) <= Len(sets)
    /\ \A i \in 1..Len(c) : c[i] = sets[i]

NodesInv ==
    /\ keeper \in [Nodes -> Keepers] /\ copies \in [Nodes -> Seq(SetRecords)]
    /\ \A n \in Nodes : Copied(copies[n]) /\ (keeper[n].pc # "off" => Len(copies[n]) >= 1)
    /\ MissedOnlyAtStart

(* A block's producer was the leader by the sets it knew.                  *)
LedBy(s, k) ==
    \E i \in 1..s.known :
        /\ sets[i].from <= k /\ \A j \in i + 1 .. s.known : sets[j].from > k
        /\ s.by = sets[i].members[(k % Len(sets[i].members)) + 1]

SignersInv ==
    /\ signers \in Seq([by : Nodes, known : Nat])
    /\ \A k \in 1..Len(signers) : signers[k].known <= Len(sets) /\ LedBy(signers[k], k)

SetsInv == ContractInv /\ NodesInv /\ SignersInv

\* The set that the contract or a node looks for exists: the last of those
\* that hold at a height, from one that holds on.
LEMMA LastSetExists ==
    ASSUME NEW c, c \in Seq(SetRecords), NEW first \in 1..Len(c), NEW height,
           c[first].from <= height
    PROVE  \E i \in first..Len(c) : /\ c[i].from <= height
                                    /\ \A j \in i + 1 .. Len(c) : ~(c[j].from <= height)
<1> DEFINE S == {i \in first..Len(c) : c[i].from <= height}
<1>1. Len(c) \in Nat /\ first \in S /\ S \subseteq 0..Len(c)
  OBVIOUS
<1>2. PICK i \in S : \A j \in S : j <= i
  BY <1>1, GreatestExists
<1> QED BY <1>1, <1>2

\* What the sequences of sets hold.
LEMMA SetRecordOf ==
    ASSUME NEW c, c \in Seq(SetRecords), NEW i \in 1..Len(c)
    PROVE  /\ c[i] \in SetRecords /\ c[i].from \in Nat
           /\ c[i].members \in Seq(Nodes) /\ Len(c[i].members) \in Nat \ {0}
<1>1. c[i] \in SetRecords
  BY ElementOfSeq
<1>2. c[i].from \in Nat /\ c[i].members \in Seq(Nodes) /\ c[i].members # <<>>
  BY <1>1 DEF SetRecords
<1> QED BY <1>1, <1>2, EmptySeq

\* updateValidatorSetIndex moves to the last set that holds at the height.
LEMMA UpdatedSetIndexFound ==
    ASSUME ContractInv, NEW height \in Nat, height >= rolled
    PROVE  LET i == UpdatedSetIndex(height) IN
           /\ i \in setIndex..Len(sets) /\ sets[i].from <= height
           /\ \A j \in i + 1 .. Len(sets) : sets[j].from > height
<1> USE DEF ContractInv
<1>1. \A i \in 1..Len(sets) : sets[i].from \in Nat
  BY SetRecordOf
<1>2. sets[setIndex].from <= height
  BY <1>1
<1>3. PICK m \in setIndex..Len(sets) :
         sets[m].from <= height /\ \A j \in m + 1 .. Len(sets) : ~(sets[j].from <= height)
  BY <1>2, LastSetExists
<1> DEFINE Found(i) == /\ \A j \in setIndex + 1 .. i : sets[j].from <= height
                       /\ i < Len(sets) => sets[i + 1].from > height
<1>4. Found(m)
  <2>1. ASSUME NEW j \in setIndex + 1 .. m PROVE sets[j].from <= height
    <3>1. j \in 1..Len(sets) /\ m \in 1..Len(sets) /\ (j < m \/ j = m)
      OBVIOUS
    <3> QED BY <1>1, <1>3, <3>1
  <2>2. ASSUME m < Len(sets) PROVE sets[m + 1].from > height
    <3>1. m + 1 \in m + 1 .. Len(sets) /\ m + 1 \in 1..Len(sets)
      BY <2>2
    <3> QED BY <1>1, <1>3, <3>1
  <2> QED BY <2>1, <2>2
<1>5. UpdatedSetIndex(height) = CHOOSE i \in setIndex..Len(sets) : Found(i)
  BY DEF UpdatedSetIndex
<1> DEFINE u == UpdatedSetIndex(height)
<1>6. u \in setIndex..Len(sets) /\ Found(u)
  BY <1>4, <1>5
<1> HIDE DEF u
<1>7. sets[u].from <= height
  <2>1. u = setIndex \/ u \in setIndex + 1 .. u
    BY <1>6
  <2> QED BY <1>2, <1>6, <2>1
<1>8. ASSUME NEW j \in u + 1 .. Len(sets) PROVE sets[j].from > height
  <2>1. u < Len(sets) /\ sets[u + 1].from > height /\ u + 1 \in 1..Len(sets) /\ j \in 1..Len(sets)
    BY <1>6
  <2>2. j = u + 1 \/ sets[u + 1].from < sets[j].from
    BY <2>1
  <2> QED BY <1>1, <2>1, <2>2
<1> QED BY <1>6, <1>7, <1>8 DEF u

\* validators_for_height finds the last set of the copy that holds at the height.
LEMMA LeaderFound ==
    ASSUME ContractInv, NodesInv, NEW n \in Nodes, keeper[n].pc # "off", NEW height \in Nat
    PROVE  /\ Leader(n, height) \in Nodes
           /\ LedBy([by |-> Leader(n, height), known |-> Len(copies[n])], height)
<1> DEFINE c == copies[n]
           valid == {i \in DOMAIN c : height >= c[i].from}
           m == CHOOSE i \in valid : \A j \in valid : j <= i
<1>1. /\ c \in Seq(SetRecords) /\ Len(c) \in 1..Len(sets) /\ DOMAIN c = 1..Len(c)
      /\ \A i \in 1..Len(c) : c[i] = sets[i]
  <2>1. Copied(c) /\ Len(c) >= 1
    BY DEF NodesInv
  <2>2. c \in Seq(SetRecords) /\ Len(sets) \in Nat
    BY <2>1 DEF Copied, ContractInv
  <2>3. Len(c) \in Nat /\ DOMAIN c = 1..Len(c)
    BY <2>2, LenProperties
  <2> QED BY <2>1, <2>2, <2>3 DEF Copied
<1> HIDE DEF c
<1>2. 1 \in valid /\ valid \subseteq 0..Len(c)
  BY <1>1 DEF ContractInv
<1>3. PICK g \in valid : \A j \in valid : j <= g
  <2>1. Len(c) \in Nat /\ valid # {}
    BY <1>1, <1>2
  <2> HIDE DEF valid
  <2> QED BY <1>2, <2>1, GreatestExists
<1>4. m \in valid /\ \A j \in valid : j <= m
  BY <1>3
<1> HIDE DEF m
<1>5. m \in 1..Len(c) /\ c[m] = sets[m] /\ sets[m].from <= height /\ sets[m] \in SetRecords
  BY <1>1, <1>4
<1>6. \A j \in m + 1 .. Len(c) : sets[j].from > height
  <2> SUFFICES ASSUME NEW j \in m + 1 .. Len(c) PROVE sets[j].from > height
    OBVIOUS
  <2>1. j \in 1..Len(c) /\ ~(j <= m) /\ c[j] = sets[j] /\ c[j].from \in Nat
    BY <1>1, <1>5, SetRecordOf
  <2>2. ~(height >= c[j].from)
    BY <1>1, <1>4, <2>1
  <2> QED BY <2>1, <2>2
<1> DEFINE members == sets[m].members
<1>7. Leader(n, height) = members[(height % Len(members)) + 1]
  BY <1>5 DEF Leader, ValidatorsForHeight, c, m
<1>8. members \in Seq(Nodes) /\ Len(members) \in Nat \ {0}
  BY <1>1, <1>5, SetRecordOf
<1> HIDE DEF members
<1>9. Leader(n, height) \in Nodes
  <2>1. (height % Len(members)) + 1 \in 1..Len(members)
    BY <1>8
  <2> QED BY <1>7, <1>8, <2>1, ElementOfSeq
<1>10. LedBy([by |-> Leader(n, height), known |-> Len(copies[n])], height)
  BY <1>5, <1>6, <1>7 DEF LedBy, c, members
<1> QED BY <1>9, <1>10
\* A copy is the beginning of the contract's sequence, and what a node fetches completes it.
LEMMA CopiedSound ==
    ASSUME ContractInv, NEW c, Copied(c)
    PROVE  c = SubSeq(sets, 1, Len(c)) /\ c \o GetValidatorSets(Len(c) + 1) = sets
<1>1. /\ c \in Seq(SetRecords) /\ sets \in Seq(SetRecords)
      /\ Len(c) \in Nat /\ Len(sets) \in Nat /\ Len(c) <= Len(sets)
      /\ \A i \in 1..Len(c) : c[i] = sets[i]
  BY LenProperties DEF ContractInv, Copied
<1>2. c = SubSeq(sets, 1, Len(c))
  <2> DEFINE s == SubSeq(sets, 1, Len(c))
  <2>1. \A i \in 1..Len(c) : sets[i] \in SetRecords
    BY <1>1, ElementOfSeq
  <2>2. /\ s \in Seq(SetRecords) /\ Len(s) = IF 1 <= Len(c) THEN (Len(c) - 1) + 1 ELSE 0
        /\ \A i \in 1 .. (Len(c) - 1) + 1 : s[i] = sets[(1 + i) - 1]
    BY <1>1, <2>1, SubSeqProperties
  <2> HIDE DEF s
  <2>3. Len(s) = Len(c) /\ \A i \in 1..Len(s) : s[i] = c[i]
    BY <1>1, <2>2
  <2>4. c = s
    BY <1>1, <2>2, <2>3, SeqEqual
  <2> QED BY <2>4 DEF s
<1>3. SubSeq(sets, 1, Len(c)) \o SubSeq(sets, Len(c) + 1, Len(sets)) = SubSeq(sets, 1, Len(sets))
  <2>1. 1 \in 1 .. Len(sets) + 1 /\ Len(c) \in 1 - 1 .. Len(sets) /\ Len(sets) \in Len(c) .. Len(sets)
    BY <1>1
  <2> QED BY <1>1, <2>1, ConcatAdjacentSubSeq
<1>4. SubSeq(sets, 1, Len(sets)) = sets
  BY <1>1, SubSeqFull
<1> QED BY <1>2, <1>3, <1>4 DEF GetValidatorSets

\* Only setValidators and verifyBlock write the contract.
LEMMA ContractStep ==
    ASSUME SetsInv, [SetsNext]_setsVars
    PROVE  /\ ContractInv' /\ Len(sets) <= Len(sets')
           /\ \A i \in 1..Len(sets) : sets'[i] = sets[i]
<1> USE DEF SetsInv
<1>t. sets \in Seq(SetRecords) /\ Len(sets) \in Nat \ {0} /\ setIndex \in 1..Len(sets) /\ rolled \in Nat
  BY LenProperties DEF ContractInv
<1>1. ASSUME NEW from \in 1..MaxBlocks, NEW m \in Memberships, SetValidators(from, m)
      PROVE  /\ ContractInv' /\ Len(sets) <= Len(sets')
             /\ \A i \in 1..Len(sets) : sets'[i] = sets[i]
  <2> DEFINE new == [from |-> from, members |-> m]
  <2>1. new \in SetRecords /\ from \in Nat
    BY ValidatorSetsAssumption DEF SetRecords
  <2>2. sets' = Append(sets, new) /\ sets[Len(sets)].from < from /\ UNCHANGED <<setIndex, rolled>>
    BY <1>1 DEF SetValidators
  <2>3. new.from = from
    OBVIOUS
  <2> HIDE DEF new
  <2>4. /\ sets' \in Seq(SetRecords) /\ Len(sets') = Len(sets) + 1
        /\ \A i \in 1..Len(sets) : sets'[i] = sets[i]
        /\ sets'[Len(sets) + 1] = new
    BY <1>t, <2>1, <2>2, AppendProperties
  <2>5. ASSUME NEW i \in 1..Len(sets'), NEW j \in 1..Len(sets'), i < j
        PROVE  sets'[i].from < sets'[j].from
    <3>1. i \in 1..Len(sets) /\ sets'[i] = sets[i] /\ sets[i].from \in Nat
      BY <1>t, <2>4, <2>5, SetRecordOf
    <3>2. CASE j \in 1..Len(sets)
      BY <2>4, <2>5, <3>1, <3>2 DEF ContractInv
    <3>3. CASE j = Len(sets) + 1
      <4>1. sets[i].from <= sets[Len(sets)].from
        <5>1. i = Len(sets) \/ i < Len(sets)
          BY <3>1, <1>t
        <5>2. Len(sets) \in 1..Len(sets) /\ sets[Len(sets)].from \in Nat
          BY <1>t, SetRecordOf
        <5> QED BY <3>1, <5>1, <5>2 DEF ContractInv
      <4>2. sets[Len(sets)].from \in Nat
        <5>1. Len(sets) \in 1..Len(sets)
          BY <1>t
        <5> QED BY <1>t, <5>1, SetRecordOf
      <4> QED BY <2>1, <2>2, <2>3, <2>4, <3>1, <3>3, <4>1, <4>2
    <3> QED BY <1>t, <2>4, <3>2, <3>3
  <2>6. sets'[1] = sets[1] /\ sets'[setIndex] = sets[setIndex] /\ setIndex \in 1..Len(sets')
    BY <1>t, <2>4
  <2> QED BY <1>t, <2>2, <2>4, <2>5, <2>6 DEF ContractInv
<1>2. ASSUME NEW h \in 1..MaxBlocks, RollUp(h)
      PROVE  ContractInv' /\ sets' = sets
  <2>1. h \in Nat /\ h >= rolled /\ UNCHANGED sets /\ setIndex' = UpdatedSetIndex(h) /\ rolled' = h
    BY <1>2, <1>t, ValidatorSetsAssumption DEF RollUp
  <2>2. UpdatedSetIndex(h) \in setIndex..Len(sets) /\ sets[UpdatedSetIndex(h)].from <= h
    BY <2>1, UpdatedSetIndexFound
  <2>3. setIndex' \in 1..Len(sets)
    BY <1>t, <2>1, <2>2
  <2> QED BY <2>1, <2>2, <2>3 DEF ContractInv
<1>3. ASSUME UNCHANGED <<sets, setIndex, rolled>>
      PROVE  ContractInv' /\ sets' = sets
  BY <1>3 DEF ContractInv
<1>4. ASSUME NEW n \in Nodes,
             \/ ProduceBlock(n) \/ LoadSets(n) \/ ListenFirst(n) \/ SetAdded(n)
             \/ NodeEnds(n) \/ TransportError(n) \/ Relisten(n) \/ ReloadSets(n)
      PROVE  UNCHANGED <<sets, setIndex, rolled>>
  BY <1>4 DEF ProduceBlock, LoadSets, ListenFirst, SetAdded, NodeEnds, TransportError, Relisten, ReloadSets
<1>5. UNCHANGED setsVars => UNCHANGED <<sets, setIndex, rolled>>
  BY DEF setsVars
<1>6. CASE sets' = sets
  BY <1>t, <1>6, <1>1, <1>2, <1>3, <1>4, <1>5 DEF SetsNext
<1> QED BY <1>t, <1>1, <1>2, <1>3, <1>4, <1>5 DEF SetsNext

\* A block that was produced stays the one its leader produced: sets are only added.
LEMMA SignersStep ==
    ASSUME SetsInv, [SetsNext]_setsVars
    PROVE  SignersInv'
<1> USE DEF SetsInv
<1>t. /\ signers \in Seq([by : Nodes, known : Nat]) /\ Len(signers) \in Nat
      /\ sets \in Seq(SetRecords) /\ Len(sets) \in Nat
      /\ sets' \in Seq(SetRecords) /\ Len(sets') \in Nat
  BY ContractStep, LenProperties DEF ContractInv, SignersInv
<1>g. Len(sets) <= Len(sets') /\ \A i \in 1..Len(sets) : sets'[i] = sets[i]
  BY ContractStep
<1>s. ASSUME NEW s \in [by : Nodes, known : Nat], NEW k, s.known <= Len(sets), LedBy(s, k)
      PROVE  LedBy(s, k)' /\ s.known <= Len(sets')
  <2>1. \A i \in 1..s.known : sets'[i] = sets[i]
    BY <1>g, <1>s, <1>t
  <2>2. PICK i \in 1..s.known :
           /\ sets[i].from <= k /\ \A j \in i + 1 .. s.known : sets[j].from > k
           /\ s.by = sets[i].members[(k % Len(sets[i].members)) + 1]
    BY <1>s DEF LedBy
  <2>3. \A j \in i + 1 .. s.known : sets'[j].from > k
    BY <1>s, <2>1, <2>2
  <2> QED BY <1>g, <1>s, <1>t, <2>1, <2>2, <2>3 DEF LedBy
<1>1. CASE UNCHANGED signers
  <2>1. ASSUME NEW k \in 1..Len(signers) PROVE signers[k].known <= Len(sets') /\ LedBy(signers[k], k)'
    <3>1. signers[k] \in [by : Nodes, known : Nat]
      BY <1>t, ElementOfSeq
    <3>2. signers[k].known <= Len(sets) /\ LedBy(signers[k], k)
      BY DEF SignersInv
    <3>3. signers'[k] = signers[k] /\ signers[k].known <= Len(sets')
      BY <1>1, <1>s, <3>1, <3>2
    <3> QED BY <1>1, <1>s, <3>1, <3>2, <3>3 DEF LedBy
  <2> QED BY <1>1, <1>t, <2>1 DEF SignersInv
<1>2. ASSUME NEW n \in Nodes, ProduceBlock(n)
      PROVE  SignersInv'
  <2> DEFINE k == Len(signers) + 1
             new == [by |-> n, known |-> Len(copies[n])]
  <2>1. /\ keeper[n].pc # "off" /\ Leader(n, k) = n /\ signers' = Append(signers, new) /\ UNCHANGED sets
    BY <1>2 DEF ProduceBlock
  <2>2. LedBy(new, k) /\ k \in Nat
    BY <1>t, <2>1, LeaderFound
  <2>3. new \in [by : Nodes, known : Nat] /\ new.known <= Len(sets)
    BY LenProperties DEF NodesInv, Copied
  <2> HIDE DEF new
  <2>4. /\ signers' \in Seq([by : Nodes, known : Nat]) /\ Len(signers') = k
        /\ \A i \in 1..Len(signers) : signers'[i] = signers[i]
        /\ signers'[k] = new
    BY <1>t, <2>1, <2>3, AppendProperties
  <2>5. ASSUME NEW i \in 1..Len(signers')
        PROVE  signers'[i].known <= Len(sets) /\ LedBy(signers'[i], i)
    <3>1. i = k \/ i \in 1..Len(signers)
      BY <1>t, <2>4
    <3> QED BY <2>2, <2>3, <2>4, <3>1 DEF SignersInv
  <2>6. ASSUME NEW i \in 1..Len(signers') PROVE LedBy(signers[i], i)'
    BY <2>1, <2>5 DEF LedBy
  <2> QED BY <2>1, <2>4, <2>5, <2>6 DEF SignersInv
<1>3. CASE UNCHANGED setsVars
  BY <1>1, <1>3 DEF setsVars
<1>4. ASSUME \/ \E from \in 1 .. MaxBlocks, m \in Memberships : SetValidators(from, m)
             \/ \E h \in 1 .. MaxBlocks : RollUp(h)
             \/ \E n \in Nodes : \/ LoadSets(n) \/ ListenFirst(n) \/ SetAdded(n)
                                 \/ NodeEnds(n) \/ TransportError(n) \/ Relisten(n) \/ ReloadSets(n)
      PROVE  UNCHANGED signers
  BY <1>4 DEF SetValidators, RollUp, LoadSets, ListenFirst, SetAdded, NodeEnds, TransportError, Relisten, ReloadSets
<1> QED BY <1>1, <1>2, <1>3, <1>4 DEF SetsNext
\* What the workers read, retry or drop leaves every copy a beginning of the
\* sequence, and nothing unannounced but what came before the first filter.
LEMMA NodesStep ==
    ASSUME SetsInv, [SetsNext]_setsVars
    PROVE  NodesInv'
<1> USE DEF SetsInv
<1> DEFINE Informed(k, c) ==
               k.pc = "wait" => \A i \in Len(c) + 1 .. Len(sets) :
                                   i <= k.start \/ \E e \in DOMAIN k.events : k.events[e] = i
           KeeperOk(k, c) == k \in Keepers /\ Copied(c) /\ (k.pc # "off" => Len(c) >= 1) /\ Informed(k, c)
<1>t. /\ sets \in Seq(SetRecords) /\ Len(sets) \in Nat \ {0} /\ Copied(sets)
      /\ Copied(<<>>) /\ Len(<<>>) = 0
      /\ GetValidatorSets(1) = sets
  <2>1. sets \in Seq(SetRecords) /\ Len(sets) \in Nat \ {0}
    BY LenProperties DEF ContractInv
  <2>2. SubSeq(sets, 1, Len(sets)) = sets
    BY <2>1, SubSeqFull
  <2> QED BY <2>1, <2>2, EmptySeq DEF Copied, GetValidatorSets
<1>k. ASSUME NEW n \in Nodes
      PROVE  KeeperOk(keeper[n], copies[n]) /\ Len(copies[n]) \in Nat /\ keeper[n] \in Keepers
  BY LenProperties DEF NodesInv, MissedOnlyAtStart, Copied
<1>n. ASSUME NEW n \in Nodes, NEW k, NEW c, KeeperOk(k, c),
             keeper' = [keeper EXCEPT ![n] = k], copies' = [copies EXCEPT ![n] = c], UNCHANGED sets
      PROVE  NodesInv'
  <2>0. /\ keeper \in [Nodes -> Keepers] /\ copies \in [Nodes -> Seq(SetRecords)]
        /\ k \in Keepers /\ c \in Seq(SetRecords)
    BY <1>n DEF NodesInv, Copied
  <2>1. ASSUME NEW m \in Nodes PROVE KeeperOk(keeper'[m], copies'[m])
    <3>1. m = n \/ (keeper'[m] = keeper[m] /\ copies'[m] = copies[m])
      BY <1>n, <2>0
    <3>2. m = n => keeper'[m] = k /\ copies'[m] = c
      BY <1>n, <2>0
    <3> HIDE DEF KeeperOk
    <3> QED BY <1>k, <1>n, <3>1, <3>2
  <2>2. keeper' \in [Nodes -> Keepers] /\ copies' \in [Nodes -> Seq(SetRecords)]
    BY <1>n, <2>0
  <2> QED BY <1>n, <2>1, <2>2 DEF NodesInv, MissedOnlyAtStart, Copied
<1> HIDE DEF KeeperOk
<1>1. ASSUME NEW from \in 1..MaxBlocks, NEW m \in Memberships, SetValidators(from, m)
      PROVE  NodesInv'
  <2> DEFINE new == [from |-> from, members |-> m]
  <2>1. new \in SetRecords
    BY ValidatorSetsAssumption DEF SetRecords
  <2>2. /\ sets' = Append(sets, new) /\ UNCHANGED copies
        /\ keeper' = [n \in Nodes |->
                        IF keeper[n].pc \in {"wait", "reload"}
                        THEN [keeper[n] EXCEPT !.events = Append(@, Len(sets) + 1)] ELSE keeper[n]]
    BY <1>1 DEF SetValidators
  <2> HIDE DEF new
  <2>3. /\ sets' \in Seq(SetRecords) /\ Len(sets') = Len(sets) + 1
        /\ \A i \in 1..Len(sets) : sets'[i] = sets[i]
    BY <1>t, <2>1, <2>2, AppendProperties
  <2>4. ASSUME NEW n \in Nodes
        PROVE  /\ keeper'[n] \in Keepers /\ keeper'[n].pc = keeper[n].pc
               /\ Copied(copies[n])' /\ (keeper'[n].pc # "off" => Len(copies'[n]) >= 1)
               /\ keeper'[n].pc = "wait" =>
                    \A i \in Len(copies'[n]) + 1 .. Len(sets') :
                       i <= keeper'[n].start \/ \E e \in DOMAIN keeper'[n].events : keeper'[n].events[e] = i
    <3>1. /\ keeper[n] \in Keepers /\ Copied(copies[n]) /\ (keeper[n].pc # "off" => Len(copies[n]) >= 1)
          /\ Informed(keeper[n], copies[n]) /\ Len(copies[n]) \in Nat
      BY <1>k DEF KeeperOk
    <3>2. keeper[n].events \in Seq(Nat) /\ Len(sets) + 1 \in Nat
      BY <1>t, <3>1 DEF Keepers
    <3> DEFINE more == Append(keeper[n].events, Len(sets) + 1)
    <3>3. /\ more \in Seq(Nat) /\ DOMAIN more = 1 .. Len(keeper[n].events) + 1
          /\ \A e \in DOMAIN keeper[n].events : e \in DOMAIN more /\ more[e] = keeper[n].events[e]
          /\ Len(keeper[n].events) + 1 \in DOMAIN more
          /\ more[Len(keeper[n].events) + 1] = Len(sets) + 1
      <4>1. /\ more \in Seq(Nat) /\ Len(more) = Len(keeper[n].events) + 1
            /\ \A e \in 1..Len(keeper[n].events) : more[e] = keeper[n].events[e]
            /\ more[Len(keeper[n].events) + 1] = Len(sets) + 1
        BY <3>2, AppendProperties
      <4>2. /\ DOMAIN more = 1..Len(more)
            /\ DOMAIN keeper[n].events = 1..Len(keeper[n].events) /\ Len(keeper[n].events) \in Nat
        BY <3>2, <4>1, LenProperties
      <4> HIDE DEF more
      <4> QED BY <4>1, <4>2
    <3> HIDE DEF more
    <3>4. Copied(copies[n])' /\ copies'[n] = copies[n]
      BY <1>t, <2>2, <2>3, <3>1 DEF Copied
    <3>5. CASE keeper[n].pc \in {"wait", "reload"}
      <4>1. keeper'[n] = [keeper[n] EXCEPT !.events = more]
        BY <2>2, <3>5 DEF more
      <4>2. /\ keeper'[n] \in Keepers /\ keeper'[n].pc = keeper[n].pc
            /\ keeper'[n].events = more /\ keeper'[n].start = keeper[n].start
        BY <3>1, <3>3, <4>1 DEF Keepers
      <4>3. ASSUME keeper[n].pc = "wait", NEW i \in Len(copies[n]) + 1 .. Len(sets')
            PROVE  i <= keeper'[n].start \/ \E e \in DOMAIN more : more[e] = i
        <5>1. CASE i = Len(sets) + 1
          BY <3>3, <5>1
        <5>2. CASE i \in Len(copies[n]) + 1 .. Len(sets)
          BY <3>1, <3>3, <4>2, <4>3, <5>2
        <5> QED BY <1>t, <2>3, <3>1, <4>3, <5>1, <5>2
      <4> QED BY <3>1, <3>4, <4>2, <4>3
    <3>6. CASE keeper[n].pc \notin {"wait", "reload"}
      BY <2>2, <3>1, <3>4, <3>6
    <3> QED BY <3>5, <3>6
  <2>5. keeper' \in [Nodes -> Keepers]
    BY <2>2, <2>4
  <2> QED BY <2>2, <2>4, <2>5 DEF NodesInv, MissedOnlyAtStart
<1>2. CASE UNCHANGED <<sets, copies, keeper>>
  BY <1>2 DEF NodesInv, MissedOnlyAtStart, Copied
<1>3. ASSUME NEW n \in Nodes, LoadSets(n) PROVE NodesInv'
  <2> DEFINE k == [keeper[n] EXCEPT !.pc = "loaded"]
  <2>1. keeper' = [keeper EXCEPT ![n] = k] /\ copies' = [copies EXCEPT ![n] = sets] /\ UNCHANGED sets
    BY <1>3, <1>t DEF LoadSets
  <2>2. k \in Keepers
    BY <1>k, <1>t DEF Keepers
  <2> HIDE DEF k
  <2>3. KeeperOk(k, sets)
    BY <1>t, <2>2 DEF KeeperOk
  <2> QED BY <1>n, <2>1, <2>3
<1>4. ASSUME NEW n \in Nodes, ListenFirst(n) PROVE NodesInv'
  <2> DEFINE k == [keeper[n] EXCEPT !.pc = "wait", !.start = Len(sets)]
  <2>1. keeper' = [keeper EXCEPT ![n] = k] /\ copies' = [copies EXCEPT ![n] = copies[n]] /\ UNCHANGED sets
    <3>1. keeper' = [keeper EXCEPT ![n] = k] /\ UNCHANGED <<sets, copies>>
      BY <1>4 DEF ListenFirst
    <3> QED BY <3>1 DEF NodesInv
  <2>2. KeeperOk(k, copies[n])
    <3>1. k \in Keepers /\ k.start = Len(sets) /\ keeper[n].pc # "off"
      BY <1>4, <1>k, <1>t DEF KeeperOk, Keepers, ListenFirst
    <3> QED BY <1>k, <1>t, <3>1 DEF KeeperOk
  <2> HIDE DEF k
  <2> QED BY <1>n, <2>1, <2>2
<1>5. ASSUME NEW n \in Nodes, SetAdded(n) PROVE NodesInv'
  <2> DEFINE k == [keeper[n] EXCEPT !.events = Tail(@), !.errors = 0]
             c == IF Head(keeper[n].events) > Len(copies[n])
                  THEN copies[n] \o GetValidatorSets(Len(copies[n]) + 1) ELSE copies[n]
  <2>0. keeper[n].pc = "wait" /\ keeper[n].events # <<>> /\ UNCHANGED sets
    BY <1>5 DEF SetAdded
  <2>1. keeper' = [keeper EXCEPT ![n] = k] /\ copies' = [copies EXCEPT ![n] = c]
    <3>1. /\ keeper' = [keeper EXCEPT ![n] = k]
          /\ copies' = IF Head(keeper[n].events) > Len(copies[n])
                       THEN [copies EXCEPT ![n] = @ \o GetValidatorSets(Len(@) + 1)] ELSE copies
      BY <1>5 DEF SetAdded
    <3> QED BY <3>1 DEF NodesInv
  <2>2. /\ keeper[n] \in Keepers /\ keeper[n].events \in Seq(Nat) /\ Copied(copies[n])
        /\ Informed(keeper[n], copies[n]) /\ Len(copies[n]) \in Nat /\ Len(copies[n]) >= 1
    BY <1>k, <2>0 DEF KeeperOk, Keepers
  <2>3. /\ Head(keeper[n].events) \in Nat /\ Tail(keeper[n].events) \in Seq(Nat)
        /\ \A e \in DOMAIN keeper[n].events :
              \/ keeper[n].events[e] = Head(keeper[n].events)
              \/ \E f \in DOMAIN Tail(keeper[n].events) :
                    Tail(keeper[n].events)[f] = keeper[n].events[e]
    <3> DEFINE old == keeper[n].events
    <3> HIDE DEF old
    <3>1. old \in Seq(Nat) /\ old # <<>>
      BY <2>0, <2>2 DEF old
    <3>2. /\ Head(old) \in Nat /\ Tail(old) \in Seq(Nat) /\ Len(Tail(old)) = Len(old) - 1
          /\ \A i \in 1 .. Len(Tail(old)) : Tail(old)[i] = old[i + 1]
      BY <3>1, HeadTailProperties
    <3>3. DOMAIN Tail(old) = 1..Len(Tail(old)) /\ DOMAIN old = 1..Len(old) /\ Len(old) \in Nat
      BY <3>1, <3>2, LenProperties
    <3>4. ASSUME NEW e \in DOMAIN old
          PROVE  old[e] = Head(old) \/ \E f \in DOMAIN Tail(old) : Tail(old)[f] = old[e]
      <4>1. CASE e = 1
        BY <3>1, <4>1
      <4>2. CASE e # 1
        <5>1. e - 1 \in 1..Len(Tail(old)) /\ (e - 1) + 1 = e
          BY <3>2, <3>3, <4>2
        <5>2. Tail(old)[e - 1] = old[e]
          BY <3>2, <5>1
        <5> QED BY <3>3, <5>1, <5>2
      <4> QED BY <4>1, <4>2
    <3> QED BY <3>2, <3>4 DEF old
  <2>4. /\ k \in Keepers /\ k.pc = "wait" /\ k.start = keeper[n].start
        /\ k.events = Tail(keeper[n].events)
    BY <2>0, <2>2, <2>3 DEF Keepers
  <2> HIDE DEF k
  <2>5. CASE Head(keeper[n].events) > Len(copies[n])
    <3>1. c = sets
      BY <2>2, <2>5, CopiedSound
    <3> HIDE DEF c
    <3>2. KeeperOk(k, sets)
      BY <1>t, <2>4 DEF KeeperOk
    <3> QED BY <1>n, <2>0, <2>1, <3>1, <3>2
  <2>6. CASE ~(Head(keeper[n].events) > Len(copies[n]))
    <3>1. c = copies[n]
      BY <2>6
    <3> HIDE DEF c
    <3>2. ASSUME NEW i \in Len(copies[n]) + 1 .. Len(sets)
          PROVE  i <= k.start \/ \E f \in DOMAIN k.events : k.events[f] = i
      <4>1. i <= keeper[n].start \/ \E e \in DOMAIN keeper[n].events : keeper[n].events[e] = i
        BY <2>0, <2>2
      <4>2. i # Head(keeper[n].events)
        BY <2>2, <2>3, <2>6, <1>t
      <4> QED BY <2>3, <2>4, <4>1, <4>2
    <3>3. KeeperOk(k, copies[n])
      BY <2>2, <2>4, <3>2 DEF KeeperOk
    <3> QED BY <1>n, <2>0, <2>1, <3>1, <3>3
  <2> QED BY <2>5, <2>6
<1>6. ASSUME NEW n \in Nodes, EndNode(n), UNCHANGED sets PROVE NodesInv'
  <2>1. KeeperOk(Off, <<>>)
    BY <1>t, EmptySeq DEF KeeperOk, Keepers, Off
  <2> QED BY <1>6, <1>n, <2>1 DEF EndNode
<1>7. ASSUME NEW n \in Nodes, TransportError(n) PROVE NodesInv'
  <2>1. CASE keeper[n].errors = MaxTransportErrors
    BY <1>6, <1>7, <2>1 DEF TransportError
  <2>2. CASE keeper[n].errors # MaxTransportErrors
    <3> DEFINE k == [keeper[n] EXCEPT !.pc = "relisten", !.errors = @ + 1, !.events = <<>>]
    <3>1. keeper' = [keeper EXCEPT ![n] = k] /\ copies' = [copies EXCEPT ![n] = copies[n]] /\ UNCHANGED sets
      <4>1. keeper' = [keeper EXCEPT ![n] = k] /\ UNCHANGED <<sets, copies>>
        BY <1>7, <2>2 DEF TransportError
      <4> QED BY <4>1 DEF NodesInv
    <3>2. keeper[n].pc # "off"
      BY <1>7 DEF TransportError
    <3>3. k \in Keepers /\ k.pc = "relisten"
      <4>1. keeper[n].errors + 1 \in Nat /\ <<>> \in Seq(Nat) /\ keeper[n] \in Keepers
        BY <1>k DEF Keepers
      <4> QED BY <4>1 DEF Keepers
    <3> HIDE DEF k
    <3>4. KeeperOk(k, copies[n])
      BY <1>k, <3>2, <3>3 DEF KeeperOk
    <3> QED BY <1>n, <3>1, <3>4
  <2> QED BY <2>1, <2>2
<1>8. ASSUME NEW n \in Nodes, Relisten(n) PROVE NodesInv'
  <2> DEFINE k == [keeper[n] EXCEPT !.pc = "reload"]
  <2>1. keeper' = [keeper EXCEPT ![n] = k] /\ copies' = [copies EXCEPT ![n] = copies[n]] /\ UNCHANGED sets
    <3>1. keeper' = [keeper EXCEPT ![n] = k] /\ UNCHANGED <<sets, copies>>
      BY <1>8 DEF Relisten
    <3> QED BY <3>1 DEF NodesInv
  <2>2. KeeperOk(k, copies[n])
    BY <1>8, <1>k DEF KeeperOk, Keepers, Relisten
  <2> HIDE DEF k
  <2> QED BY <1>n, <2>1, <2>2
<1>9. ASSUME NEW n \in Nodes, ReloadSets(n) PROVE NodesInv'
  <2> DEFINE k == [keeper[n] EXCEPT !.pc = "wait"]
  <2>1. keeper' = [keeper EXCEPT ![n] = k] /\ copies' = [copies EXCEPT ![n] = sets] /\ UNCHANGED sets
    BY <1>9, <1>t DEF ReloadSets
  <2>2. k \in Keepers
    BY <1>k, <1>t DEF Keepers
  <2> HIDE DEF k
  <2>3. KeeperOk(k, sets)
    BY <1>t, <2>2 DEF KeeperOk
  <2> QED BY <1>n, <2>1, <2>3
<1>10. ASSUME \/ \E h \in 1 .. MaxBlocks : RollUp(h)
              \/ \E n \in Nodes : ProduceBlock(n)
              \/ UNCHANGED setsVars
       PROVE  UNCHANGED <<sets, copies, keeper>>
  BY <1>10 DEF RollUp, ProduceBlock, setsVars
<1>11. ASSUME NEW n \in Nodes, NodeEnds(n) PROVE NodesInv'
  BY <1>6, <1>11 DEF NodeEnds
<1> QED BY <1>1, <1>2, <1>3, <1>4, <1>5, <1>7, <1>8, <1>9, <1>10, <1>11 DEF SetsNext
\* The contract accepts the signature of the one validator that leads both blocks.
LEMMA RollsUp ==
    ASSUME SetsInv
    PROVE  RollsUpUnlessLast
<1> USE DEF SetsInv
<1> SUFFICES ASSUME NEW h \in rolled + 1 .. Len(signers) - 1,
                    SetHolds(h + 1) \subseteq 1 .. signers[h + 1].known,
                    SetHolds(h) = SetHolds(h + 1),
                    Len(sets[UpdatedSetIndex(h)].members) = 1
             PROVE  SignedBy(h, sets[UpdatedSetIndex(h)].members)
  BY DEF RollsUpUnlessLast
<1>1. /\ rolled \in Nat /\ Len(signers) \in Nat /\ h \in Nat /\ h + 1 \in 1..Len(signers)
      /\ sets \in Seq(SetRecords) /\ Len(sets) \in Nat /\ DOMAIN sets = 1..Len(sets)
      /\ setIndex \in 1..Len(sets)
  BY LenProperties DEF ContractInv, SignersInv
<1> DEFINE u == UpdatedSetIndex(h)
           s == signers[h + 1]
<1>2. /\ u \in 1..Len(sets) /\ sets[u].from <= h
      /\ \A j \in u + 1 .. Len(sets) : sets[j].from > h
  <2>1. /\ u \in setIndex..Len(sets) /\ sets[u].from <= h
        /\ \A j \in u + 1 .. Len(sets) : sets[j].from > h
    BY <1>1, UpdatedSetIndexFound
  <2> QED BY <1>1, <2>1
<1> HIDE DEF u
<1>3. s.known <= Len(sets) /\ LedBy(s, h + 1) /\ s.known \in Nat
  <2>1. s \in [by : Nodes, known : Nat]
    BY <1>1, ElementOfSeq DEF SignersInv
  <2> QED BY <1>1, <2>1 DEF SignersInv
<1> HIDE DEF s
<1>4. PICK i \in 1..s.known :
         /\ sets[i].from <= h + 1 /\ \A j \in i + 1 .. s.known : sets[j].from > h + 1
         /\ s.by = sets[i].members[((h + 1) % Len(sets[i].members)) + 1]
  BY <1>3 DEF LedBy
<1>5. i = u
  <2>1. i \in SetHolds(h + 1) /\ u \in SetHolds(h)
    BY <1>1, <1>2, <1>3, <1>4 DEF SetHolds
  <2>2. i \in SetHolds(h) /\ u \in 1..s.known
    BY <2>1 DEF s
  <2>3. sets[i].from <= h /\ sets[u].from <= h + 1
    BY <1>1, <2>1, <2>2 DEF SetHolds
  <2>4. ~(i < u)
    <3> SUFFICES ASSUME i < u PROVE FALSE
      OBVIOUS
    <3>1. sets[u].from > h + 1 /\ sets[u].from \in Nat
      BY <1>1, <1>2, <1>4, <2>2, SetRecordOf
    <3> QED BY <1>1, <2>3, <3>1
  <2>5. ~(u < i)
    <3> SUFFICES ASSUME u < i PROVE FALSE
      OBVIOUS
    <3>1. i \in 1..Len(sets)
      BY <1>1, <1>3
    <3>2. sets[i].from > h /\ sets[i].from \in Nat
      BY <1>1, <1>2, <3>1, SetRecordOf
    <3> QED BY <1>1, <2>3, <3>2
  <2> QED BY <1>2, <1>3, <2>4, <2>5
<1> DEFINE members == sets[u].members
<1>6. Len(members) = 1 /\ DOMAIN members = 1..1
  <2>1. members \in Seq(Nodes)
    BY <1>1, <1>2, SetRecordOf
  <2>2. Len(members) = 1
    BY DEF u
  <2> QED BY <2>1, <2>2, LenProperties
<1>7. s.by = members[1]
  <2>1. (h + 1) % 1 = 0
    BY <1>1
  <2> QED BY <1>4, <1>5, <1>6, <2>1
<1>8. Approvals(h) = {members[1]}
  BY <1>7 DEF Approvals, s
<1> HIDE DEF members
<1>9. ((Len(members) * 2) \div 3) + 1 <= 1
  BY <1>6
<1> QED BY <1>6, <1>8, <1>9 DEF SignedBy, members, u

(* Whatever sets the owner adds, and whatever events, transport errors and *)
(* restarts the workers of the nodes meet: every copy is a beginning of    *)
(* the contract's sequence, a node that listens can only miss sets added   *)
(* between its load and its first filter, and a block is accepted by       *)
(* updateValidatorSetIndex and the signature check whenever its one        *)
(* validator and that of the next block come from the same set.            *)
THEOREM ValidatorsAgreeHolds == SetsSpec => []ValidatorsAgree
<1>1. SetsInit => SetsInv
  <2> SUFFICES ASSUME SetsInit PROVE SetsInv
    OBVIOUS
  <2> DEFINE first == [from |-> 0, members |-> FirstMembers]
  <2>1. first \in SetRecords /\ first.from = 0
    BY ValidatorSetsAssumption DEF SetRecords
  <2>2. sets = <<first>> /\ setIndex = 1 /\ rolled = 0
    BY DEF SetsInit
  <2> HIDE DEF first
  <2>3. ContractInv
    BY <2>1, <2>2 DEF ContractInv
  <2>4. NodesInv
    <3>1. copies = [n \in Nodes |-> <<>>] /\ keeper = [n \in Nodes |-> Off]
      BY DEF SetsInit
    <3>2. Off \in Keepers /\ Off.pc = "off"
      BY EmptySeq DEF Off, Keepers
    <3>3. Copied(<<>>) /\ <<>> \in Seq(SetRecords)
      BY <2>2, EmptySeq DEF Copied
    <3> QED BY <3>1, <3>2, <3>3 DEF NodesInv, MissedOnlyAtStart
  <2>5. SignersInv
    BY EmptySeq DEF SetsInit, SignersInv
  <2> QED BY <2>3, <2>4, <2>5 DEF SetsInv
<1>2. SetsInv /\ [SetsNext]_setsVars => SetsInv'
  BY ContractStep, NodesStep, SignersStep DEF SetsInv
<1>3. SetsInv => ValidatorsAgree
  <2> SUFFICES ASSUME SetsInv PROVE ValidatorsAgree
    OBVIOUS
  <2>1. CopiesArePrefixes
    <3> SUFFICES ASSUME NEW n \in Nodes, keeper[n].pc # "off"
                 PROVE  copies[n] = SubSeq(sets, 1, Len(copies[n])) /\ copies[n] # <<>>
      BY DEF CopiesArePrefixes
    <3>1. Copied(copies[n]) /\ Len(copies[n]) >= 1
      BY DEF SetsInv, NodesInv
    <3> QED BY <3>1, CopiedSound, EmptySeq DEF SetsInv
  <2> QED BY <2>1, RollsUp DEF SetsInv, NodesInv, ValidatorsAgree
<1> QED BY <1>1, <1>2, <1>3, PTL DEF SetsSpec
-----------------------------------------------------------------------------
(* The pool.  A value is in one place: free in the pool, held by one task, *)
(* or on its way in one channel.                                           *)
TaskRecords == [pc : {"idle", "waits", "holds", "drops", "sends", "stuck"},
                value : Values \cup {NoTask}, ticket : Nat]
Messages == Values \cup {"open", "closed"}

FoundIn(s) == {v \in Values : \E i \in DOMAIN s : s[i] = v}
OnceIn(s)  == \A i, j \in DOMAIN s : s[i] = s[j] /\ s[i] \in Values => i = j
HeldIn(f)  == {v \in Values : \E t \in Tasks : f[t].value = v}
OnceHeld(f) == \A t, u \in Tasks : f[t].value = f[u].value /\ f[t].value \in Values => t = u

PoolTypeInv ==
    /\ poolState \in [values : Seq(Values), waiters : Seq(Nat)]
    /\ poolLock \in Tasks \cup {NoTask}
    /\ task \in [Tasks -> TaskRecords]
    /\ channel \in Seq(Messages)

Partition(free, held, moving) ==
    /\ free \cup held \cup moving = Values
    /\ free \cap held = {} /\ free \cap moving = {} /\ held \cap moving = {}

PlacesInv ==
    /\ OnceIn(poolState.values) /\ OnceHeld(task) /\ OnceIn(channel)
    /\ Partition(FoundIn(poolState.values), HeldIn(task), FoundIn(channel))

(* A channel has one waiter and at most one entry, which is gone before a  *)
(* value is sent.                                                          *)
WaitersInv ==
    /\ \A i \in DOMAIN poolState.waiters :
          /\ poolState.waiters[i] \in DOMAIN channel
          /\ channel[poolState.waiters[i]] \notin Values
    /\ \A i, j \in DOMAIN poolState.waiters : poolState.waiters[i] = poolState.waiters[j] => i = j
    /\ poolState.values # <<>> =>
          \A i \in DOMAIN poolState.waiters : channel[poolState.waiters[i]] = "closed"

Known(t) ==
    \/ channel[task[t].ticket] \in Values
    \/ \E i \in DOMAIN poolState.waiters : poolState.waiters[i] = task[t].ticket
    \/ \E s \in Tasks : task[s].pc = "sends" /\ task[s].ticket = task[t].ticket

TicketsInv ==
    /\ \A t \in Tasks : task[t].pc \in {"waits", "sends", "stuck"} => task[t].ticket \in DOMAIN channel
    /\ \A t \in Tasks : task[t].pc = "sends" =>
          /\ channel[task[t].ticket] \notin Values
          /\ \A i \in DOMAIN poolState.waiters : poolState.waiters[i] # task[t].ticket
    /\ \A t, u \in Tasks : task[t].pc = "waits" /\ task[u].pc = "waits"
                           /\ task[t].ticket = task[u].ticket => t = u
    /\ \A t \in Tasks : task[t].pc = "waits" => channel[task[t].ticket] # "closed" /\ Known(t)
    /\ \A t \in Tasks : task[t].pc = "stuck" => channel[task[t].ticket] = "closed"

GuardInv ==
    \A t \in Tasks :
        /\ task[t].value \in Values <=> task[t].pc \in {"holds", "drops", "sends", "stuck"}
        /\ poolLock = t <=> task[t].pc \in {"drops", "sends", "stuck"}

PoolInv == PoolTypeInv /\ PlacesInv /\ WaitersInv /\ TicketsInv /\ GuardInv

\* Moving a value between the places: a task takes one or gives it away.
LEMMA TaskTakes ==
    ASSUME NEW f \in [Tasks -> TaskRecords], NEW t \in Tasks, NEW r \in TaskRecords,
           f[t].value = NoTask, OnceHeld(f), r.value \in Values, r.value \notin HeldIn(f)
    PROVE  LET g == [f EXCEPT ![t] = r] IN
           OnceHeld(g) /\ HeldIn(g) = HeldIn(f) \cup {r.value}
<1> DEFINE g == [f EXCEPT ![t] = r]
<1>1. \A u \in Tasks : g[u] = IF u = t THEN r ELSE f[u]
  OBVIOUS
<1>2. NoTask \notin Values
  BY PoolAssumption
<1>3. \A u \in Tasks : f[u].value # r.value
  BY DEF HeldIn
<1> HIDE DEF g
<1>4. OnceHeld(g)
  BY <1>1, <1>3 DEF OnceHeld
<1>5. ASSUME NEW v \in Values PROVE v \in HeldIn(g) <=> v \in HeldIn(f) \/ v = r.value
  BY <1>1, <1>2 DEF HeldIn
<1>6. HeldIn(g) \subseteq Values /\ HeldIn(f) \subseteq Values
  BY DEF HeldIn
<1> QED BY <1>4, <1>5, <1>6 DEF g

\* A task that gives its value away holds none.
LEMMA TaskGives ==
    ASSUME NEW f \in [Tasks -> TaskRecords], NEW t \in Tasks, NEW r \in TaskRecords,
           OnceHeld(f), f[t].value \in Values, r.value = NoTask
    PROVE  LET g == [f EXCEPT ![t] = r] IN
           OnceHeld(g) /\ HeldIn(g) = HeldIn(f) \ {f[t].value}
<1> DEFINE g == [f EXCEPT ![t] = r]
<1>1. \A u \in Tasks : g[u] = IF u = t THEN r ELSE f[u]
  OBVIOUS
<1>2. NoTask \notin Values
  BY PoolAssumption
<1> HIDE DEF g
<1>3. \A u \in Tasks : u # t => f[u].value # f[t].value
  BY DEF OnceHeld
<1>4. OnceHeld(g)
  BY <1>1, <1>2 DEF OnceHeld
<1>5. ASSUME NEW v \in Values PROVE v \in HeldIn(g) <=> v \in HeldIn(f) /\ v # f[t].value
  BY <1>1, <1>2, <1>3 DEF HeldIn
<1>6. HeldIn(g) \subseteq Values /\ HeldIn(f) \subseteq Values
  BY DEF HeldIn
<1> QED BY <1>4, <1>5, <1>6 DEF g

\* A step of a task that keeps its value moves none.
LEMMA TaskKeeps ==
    ASSUME NEW f \in [Tasks -> TaskRecords], NEW t \in Tasks, NEW r \in TaskRecords,
           OnceHeld(f), r.value = f[t].value
    PROVE  LET g == [f EXCEPT ![t] = r] IN OnceHeld(g) /\ HeldIn(g) = HeldIn(f)
<1> DEFINE g == [f EXCEPT ![t] = r]
<1>1. \A u \in Tasks : g[u].value = f[u].value
  OBVIOUS
<1> HIDE DEF g
<1> QED BY <1>1 DEF OnceHeld, HeldIn, g
\* Taking the first value of the pool.
LEMMA FreeTaken ==
    ASSUME NEW S, NEW s \in Seq(S), s # <<>>
    PROVE  /\ Tail(s) \in Seq(S) /\ Head(s) \in S
           /\ \A i \in DOMAIN Tail(s) : i + 1 \in DOMAIN s /\ Tail(s)[i] = s[i + 1]
           /\ \A i \in DOMAIN s : s[i] = Head(s) \/ (i - 1 \in DOMAIN Tail(s) /\ Tail(s)[i - 1] = s[i])
           /\ OnceIn(s) /\ Head(s) \in Values =>
                OnceIn(Tail(s)) /\ FoundIn(Tail(s)) = FoundIn(s) \ {Head(s)} /\ Head(s) \in FoundIn(s)
<1>1. /\ Head(s) \in S /\ Tail(s) \in Seq(S) /\ Len(Tail(s)) = Len(s) - 1
      /\ \A i \in 1 .. Len(Tail(s)) : Tail(s)[i] = s[i + 1]
  BY HeadTailProperties
<1>2. DOMAIN Tail(s) = 1..Len(Tail(s)) /\ DOMAIN s = 1..Len(s) /\ Len(s) \in Nat \ {0}
  BY <1>1, LenProperties, EmptySeq
<1>3. Head(s) = s[1] /\ 1 \in DOMAIN s
  BY <1>2
<1> DEFINE t == Tail(s)
           x == Head(s)
<1> HIDE DEF t, x
<1>4. \A i \in DOMAIN t : i + 1 \in DOMAIN s /\ t[i] = s[i + 1] /\ i \in Nat \ {0}
  BY <1>1, <1>2 DEF t
<1>5. ASSUME NEW i \in DOMAIN s, i # 1
      PROVE  i - 1 \in DOMAIN t /\ t[i - 1] = s[i]
  <2>1. i - 1 \in DOMAIN t /\ (i - 1) + 1 = i
    BY <1>1, <1>2, <1>5 DEF t
  <2> QED BY <1>4, <2>1
<1>6. ASSUME OnceIn(s), x \in Values
      PROVE  OnceIn(t) /\ FoundIn(t) = FoundIn(s) \ {x} /\ x \in FoundIn(s)
  <2>1. OnceIn(t)
    BY <1>4, <1>6 DEF OnceIn
  <2>2. \A i \in DOMAIN t : t[i] # x
    BY <1>3, <1>4, <1>6 DEF OnceIn, x
  <2>3. ASSUME NEW v \in Values PROVE v \in FoundIn(t) <=> v \in FoundIn(s) /\ v # x
    BY <1>3, <1>4, <1>5, <2>2 DEF FoundIn, x
  <2>4. x \in FoundIn(s)
    BY <1>3, <1>6 DEF FoundIn, x
  <2>5. FoundIn(t) \subseteq Values /\ FoundIn(s) \subseteq Values
    BY DEF FoundIn
  <2> QED BY <2>1, <2>3, <2>4, <2>5
<1>7. \A i \in DOMAIN s : s[i] = x \/ (i - 1 \in DOMAIN t /\ t[i - 1] = s[i])
  BY <1>3, <1>5 DEF x
<1> QED BY <1>1, <1>4, <1>6, <1>7 DEF t, x

\* An element at the end of a sequence: a value back in the pool, a waiter, an open channel.
LEMMA Appended ==
    ASSUME NEW S, NEW s \in Seq(S), NEW x \in S
    PROVE  LET t == Append(s, x) IN
           /\ t \in Seq(S) /\ DOMAIN t = DOMAIN s \cup {Len(s) + 1} /\ Len(s) + 1 \notin DOMAIN s
           /\ t[Len(s) + 1] = x /\ \A i \in DOMAIN s : t[i] = s[i]
           /\ OnceIn(s) /\ x \notin FoundIn(s) => OnceIn(t) /\ FoundIn(t) = FoundIn(s) \cup ({x} \cap Values)
<1> DEFINE t == Append(s, x)
<1>1. /\ t \in Seq(S) /\ Len(t) = Len(s) + 1
      /\ \A i \in 1..Len(s) : t[i] = s[i]
      /\ t[Len(s) + 1] = x
  BY AppendProperties
<1>2. DOMAIN t = 1..Len(t) /\ DOMAIN s = 1..Len(s) /\ Len(s) \in Nat
  BY <1>1, LenProperties
<1> HIDE DEF t
<1>3. /\ DOMAIN t = DOMAIN s \cup {Len(s) + 1} /\ Len(s) + 1 \notin DOMAIN s
      /\ \A i \in DOMAIN s : t[i] = s[i]
  BY <1>1, <1>2
<1>4. ASSUME OnceIn(s), x \notin FoundIn(s)
      PROVE  OnceIn(t) /\ FoundIn(t) = FoundIn(s) \cup ({x} \cap Values)
  <2>1. \A i \in DOMAIN s : s[i] = x => x \notin Values
    BY <1>4 DEF FoundIn
  <2>2. OnceIn(t)
    BY <1>1, <1>3, <1>4, <2>1 DEF OnceIn
  <2>3. ASSUME NEW v \in Values PROVE v \in FoundIn(t) <=> v \in FoundIn(s) \/ v = x
    BY <1>1, <1>3 DEF FoundIn
  <2>4. FoundIn(t) \subseteq Values /\ FoundIn(s) \subseteq Values
    BY DEF FoundIn
  <2> QED BY <2>2, <2>3, <2>4
<1> QED BY <1>1, <1>3, <1>4 DEF t

\* A value enters a channel, or leaves it with the one who closes it.
LEMMA ChannelSet ==
    ASSUME NEW c \in Seq(Messages), NEW n \in DOMAIN c, NEW m \in Messages, OnceIn(c),
           m \in Values => c[n] \notin Values /\ m \notin FoundIn(c)
    PROVE  LET d == [c EXCEPT ![n] = m] IN
           /\ d \in Seq(Messages) /\ DOMAIN d = DOMAIN c
           /\ \A i \in DOMAIN c : d[i] = IF i = n THEN m ELSE c[i]
           /\ OnceIn(d) /\ FoundIn(d) = (FoundIn(c) \ {c[n]}) \cup ({m} \cap Values)
<1> DEFINE d == [c EXCEPT ![n] = m]
<1>1. d \in Seq(Messages)
  BY LenProperties, ExceptSeq
<1>2. DOMAIN d = DOMAIN c /\ \A i \in DOMAIN c : d[i] = IF i = n THEN m ELSE c[i]
  OBVIOUS
<1> HIDE DEF d
<1>3. \A i \in DOMAIN c : c[i] = m => m \notin Values
  BY DEF FoundIn
<1>4. OnceIn(d)
  BY <1>2, <1>3 DEF OnceIn
<1>5. ASSUME NEW v \in Values
      PROVE  v \in FoundIn(d) <=> (v \in FoundIn(c) /\ v # c[n]) \/ v = m
  <2>1. \A i \in DOMAIN c : c[i] = c[n] /\ c[n] \in Values => i = n
    BY DEF OnceIn
  <2>2. CASE v = m
    BY <1>2, <2>2 DEF FoundIn
  <2>3. CASE v # m
    BY <1>2, <2>1, <2>3 DEF FoundIn
  <2> QED BY <2>2, <2>3
<1>6. FoundIn(d) \subseteq Values /\ FoundIn(c) \subseteq Values
  BY DEF FoundIn
<1> QED BY <1>1, <1>2, <1>4, <1>5, <1>6 DEF d
\* get takes the first value.
LEMMA GetValueStep ==
    ASSUME PoolInv, NEW t \in Tasks, GetValue(t)
    PROVE  PoolInv'
<1> USE DEF PoolInv
<1> DEFINE x == Head(poolState.values)
           r == [task[t] EXCEPT !.pc = "holds", !.value = x]
<1>1. /\ task[t].pc = "idle" /\ poolState.values # <<>> /\ poolLock = NoTask
      /\ task' = [task EXCEPT ![t] = r]
      /\ poolState' = [poolState EXCEPT !.values = Tail(@)] /\ UNCHANGED <<poolLock, channel>>
  BY DEF GetValue
<1>2. /\ poolState.values \in Seq(Values) /\ task \in [Tasks -> TaskRecords]
      /\ poolState'.values = Tail(poolState.values) /\ poolState'.waiters = poolState.waiters
      /\ task[t] \in TaskRecords
  BY <1>1 DEF PoolTypeInv
<1>3. task[t].value = NoTask
  BY <1>1, <1>2 DEF GuardInv, TaskRecords
<1>4. /\ Tail(poolState.values) \in Seq(Values) /\ x \in Values
      /\ OnceIn(Tail(poolState.values)) /\ FoundIn(Tail(poolState.values)) = FoundIn(poolState.values) \ {x}
      /\ x \in FoundIn(poolState.values)
  BY <1>1, <1>2, FreeTaken DEF PlacesInv
<1> HIDE DEF x
<1>5. r \in TaskRecords /\ r.pc = "holds" /\ r.value = x
  BY <1>2, <1>4 DEF TaskRecords
<1> HIDE DEF r
<1>6. \A u \in Tasks : task'[u] = IF u = t THEN r ELSE task[u]
  BY <1>1, <1>2
<1>7. PoolTypeInv'
  BY <1>1, <1>2, <1>4, <1>5 DEF PoolTypeInv
<1>8. PlacesInv'
  <2>1. x \notin HeldIn(task)
    BY <1>4 DEF PlacesInv, Partition
  <2>2. OnceHeld(task') /\ HeldIn(task') = HeldIn(task) \cup {x}
    BY <1>1, <1>2, <1>3, <1>4, <1>5, <2>1, TaskTakes DEF PlacesInv
  <2>3. Partition(FoundIn(Tail(poolState.values)), HeldIn(task'), FoundIn(channel))
    BY <1>4, <2>2 DEF PlacesInv, Partition
  <2> QED BY <1>1, <1>2, <1>4, <2>2, <2>3 DEF PlacesInv
<1>9. WaitersInv'
  BY <1>1, <1>2 DEF WaitersInv
<1>10. TicketsInv'
  BY <1>1, <1>2, <1>5, <1>6 DEF TicketsInv, Known
<1>11. GuardInv'
  BY <1>1, <1>4, <1>5, <1>6, PoolAssumption DEF GuardInv
<1> QED BY <1>7, <1>8, <1>9, <1>10, <1>11

\* get waits on a channel of its own.
LEMMA GetWaitStep ==
    ASSUME PoolInv, NEW t \in Tasks, GetWait(t)
    PROVE  PoolInv'
<1> USE DEF PoolInv
<1> DEFINE n == Len(channel) + 1
           r == [task[t] EXCEPT !.pc = "waits", !.ticket = n]
<1>1. /\ task[t].pc = "idle" /\ poolState.values = <<>>
      /\ task' = [task EXCEPT ![t] = r] /\ channel' = Append(channel, "open")
      /\ poolState' = [poolState EXCEPT !.waiters = Append(@, n)] /\ UNCHANGED poolLock
  BY DEF GetWait
<1>2. /\ poolState.waiters \in Seq(Nat) /\ channel \in Seq(Messages) /\ task \in [Tasks -> TaskRecords]
      /\ poolState'.values = poolState.values /\ poolState'.waiters = Append(poolState.waiters, n)
      /\ task[t] \in TaskRecords /\ n \in Nat
  BY <1>1, LenProperties DEF PoolTypeInv
<1>3. /\ channel' \in Seq(Messages) /\ DOMAIN channel' = DOMAIN channel \cup {n} /\ n \notin DOMAIN channel
      /\ channel'[n] = "open" /\ \A i \in DOMAIN channel : channel'[i] = channel[i]
      /\ OnceIn(channel') /\ FoundIn(channel') = FoundIn(channel)
  <2>1. "open" \in Messages /\ "open" \notin Values /\ "open" \notin FoundIn(channel)
    BY PoolAssumption DEF Messages, FoundIn
  <2> DEFINE d == Append(channel, "open")
  <2>2. /\ d \in Seq(Messages) /\ DOMAIN d = DOMAIN channel \cup {Len(channel) + 1}
        /\ Len(channel) + 1 \notin DOMAIN channel
        /\ d[Len(channel) + 1] = "open" /\ \A i \in DOMAIN channel : d[i] = channel[i]
        /\ OnceIn(d) /\ FoundIn(d) = FoundIn(channel) \cup ({"open"} \cap Values)
    BY <1>2, <2>1, Appended DEF PlacesInv
  <2>3. d = channel'
    BY <1>1
  <2> HIDE DEF d
  <2> QED BY <2>1, <2>2, <2>3
<1>4. /\ Append(poolState.waiters, n) \in Seq(Nat)
      /\ DOMAIN poolState'.waiters = DOMAIN poolState.waiters \cup {Len(poolState.waiters) + 1}
      /\ Len(poolState.waiters) + 1 \notin DOMAIN poolState.waiters
      /\ poolState'.waiters[Len(poolState.waiters) + 1] = n
      /\ \A i \in DOMAIN poolState.waiters : poolState'.waiters[i] = poolState.waiters[i]
  BY <1>2, Appended
<1>5. r \in TaskRecords /\ r.pc = "waits" /\ r.value = task[t].value /\ r.ticket = n
  BY <1>2 DEF TaskRecords
<1> HIDE DEF r, n
<1>6. \A u \in Tasks : task'[u] = IF u = t THEN r ELSE task[u]
  BY <1>1, <1>2
<1>7. PoolTypeInv'
  BY <1>1, <1>2, <1>3, <1>4, <1>5 DEF PoolTypeInv
<1>8. PlacesInv'
  <2>1. OnceHeld(task') /\ HeldIn(task') = HeldIn(task)
    BY <1>1, <1>2, <1>5, TaskKeeps DEF PlacesInv
  <2> QED BY <1>2, <1>3, <2>1 DEF PlacesInv
<1>9. WaitersInv'
  <2>1. \A i \in DOMAIN poolState.waiters :
           poolState.waiters[i] \in DOMAIN channel /\ channel[poolState.waiters[i]] \notin Values
    BY DEF WaitersInv
  <2>2. \A i \in DOMAIN poolState'.waiters :
           poolState'.waiters[i] \in DOMAIN channel' /\ channel'[poolState'.waiters[i]] \notin Values
    BY <1>3, <1>4, <2>1, PoolAssumption
  <2>3. \A i, j \in DOMAIN poolState'.waiters : poolState'.waiters[i] = poolState'.waiters[j] => i = j
    BY <1>3, <1>4, <2>1 DEF WaitersInv
  <2> QED BY <1>1, <1>2, <2>2, <2>3 DEF WaitersInv
<1>10. TicketsInv'
  <2>1. ASSUME NEW u \in Tasks, task[u].pc = "waits", u # t PROVE Known(u)'
    <3>1. task[u].ticket \in DOMAIN channel /\ Known(u) /\ task'[u] = task[u]
      BY <1>6, <2>1 DEF TicketsInv
    <3>2. CASE channel[task[u].ticket] \in Values
      BY <1>3, <3>1, <3>2 DEF Known
    <3>3. CASE \E i \in DOMAIN poolState.waiters : poolState.waiters[i] = task[u].ticket
      BY <1>4, <3>1, <3>3 DEF Known
    <3>4. CASE \E s \in Tasks : task[s].pc = "sends" /\ task[s].ticket = task[u].ticket
      BY <1>1, <1>6, <3>1, <3>4 DEF Known
    <3> QED BY <3>1, <3>2, <3>3, <3>4 DEF Known
  <2>2. Known(t)'
    BY <1>4, <1>5, <1>6 DEF Known
  <2> HIDE DEF PoolInv
  <2>3. TicketsInv
    BY DEF PoolInv
  <2>4. WaitersInv
    BY DEF PoolInv
  <2>5. \A u \in Tasks : task'[u].pc \in {"waits", "sends", "stuck"} =>
           /\ task'[u].ticket \in DOMAIN channel'
           /\ u # t => task[u].ticket \in DOMAIN channel /\ task'[u] = task[u]
                       /\ channel'[task'[u].ticket] = channel[task[u].ticket]
    BY <1>3, <1>5, <1>6, <2>3 DEF TicketsInv
  <2>6. \A u \in Tasks : task'[u].pc = "sends" =>
          /\ channel'[task'[u].ticket] \notin Values
          /\ \A i \in DOMAIN poolState'.waiters : poolState'.waiters[i] # task'[u].ticket
    BY <1>3, <1>4, <1>5, <1>6, <2>3, <2>5 DEF TicketsInv
  <2>7. \A u, w \in Tasks : task'[u].pc = "waits" /\ task'[w].pc = "waits"
                           /\ task'[u].ticket = task'[w].ticket => u = w
    BY <1>3, <1>5, <1>6, <2>3, <2>5 DEF TicketsInv
  <2>8. \A u \in Tasks : task'[u].pc = "waits" => channel'[task'[u].ticket] # "closed" /\ Known(u)'
    BY <1>3, <1>5, <1>6, <2>1, <2>2, <2>3, <2>5 DEF TicketsInv
  <2>9. \A u \in Tasks : task'[u].pc = "stuck" => channel'[task'[u].ticket] = "closed"
    BY <1>3, <1>5, <1>6, <2>3, <2>5 DEF TicketsInv
  <2> QED BY <2>5, <2>6, <2>7, <2>8, <2>9 DEF TicketsInv
<1>11. GuardInv'
  BY <1>1, <1>5, <1>6 DEF GuardInv
<1> QED BY <1>7, <1>8, <1>9, <1>10, <1>11
\* A task that stops waiting closes its channel, and leaves with the value if one has come.
LEMMA CloseStep ==
    ASSUME PoolInv, NEW t \in Tasks, Receive(t) \/ GiveUp(t)
    PROVE  PoolInv'
<1> USE DEF PoolInv
<1> DEFINE n == task[t].ticket
           x == channel[n]
           r == IF x \in Values THEN [pc |-> "holds", value |-> x, ticket |-> 0] ELSE Idle
<1>1. /\ task[t].pc = "waits" /\ task' = [task EXCEPT ![t] = r]
      /\ channel' = [channel EXCEPT ![n] = "closed"] /\ UNCHANGED <<poolState, poolLock>>
  BY DEF Receive, GiveUp
<1>2. /\ channel \in Seq(Messages) /\ task \in [Tasks -> TaskRecords] /\ task[t] \in TaskRecords
      /\ n \in DOMAIN channel
  BY <1>1 DEF PoolTypeInv, TicketsInv
<1>3. task[t].value = NoTask
  BY <1>1, <1>2 DEF GuardInv, TaskRecords
<1>4. r \in TaskRecords /\ r.pc \in {"holds", "idle"} /\ r.value = IF x \in Values THEN x ELSE NoTask
  BY DEF Idle, TaskRecords
<1>5. r.pc = "holds" <=> x \in Values
  BY DEF Idle
<1> HIDE DEF r
<1>6. \A u \in Tasks : task'[u] = IF u = t THEN r ELSE task[u]
  BY <1>1, <1>2
<1>7. /\ channel' \in Seq(Messages) /\ DOMAIN channel' = DOMAIN channel
      /\ \A i \in DOMAIN channel : channel'[i] = IF i = n THEN "closed" ELSE channel[i]
      /\ OnceIn(channel') /\ FoundIn(channel') = FoundIn(channel) \ {x}
  <2> DEFINE d == [channel EXCEPT ![n] = "closed"]
  <2>1. "closed" \in Messages /\ "closed" \notin Values
    BY PoolAssumption DEF Messages
  <2>2. /\ d \in Seq(Messages) /\ DOMAIN d = DOMAIN channel
        /\ \A i \in DOMAIN channel : d[i] = IF i = n THEN "closed" ELSE channel[i]
        /\ OnceIn(d) /\ FoundIn(d) = (FoundIn(channel) \ {x}) \cup ({"closed"} \cap Values)
    <3> HIDE DEF n
    <3> QED BY <1>2, <2>1, ChannelSet DEF PlacesInv
  <2>3. d = channel'
    BY <1>1
  <2> HIDE DEF d
  <2> QED BY <2>1, <2>2, <2>3
<1>8. PoolTypeInv'
  BY <1>1, <1>2, <1>4, <1>7 DEF PoolTypeInv
<1>9. PlacesInv'
  <2>1. CASE x \in Values
    <3>1. x \in FoundIn(channel)
      BY <1>2, <2>1 DEF FoundIn
    <3>2. x \notin HeldIn(task)
      BY <3>1 DEF PlacesInv, Partition
    <3>a. r.value = x
      BY <1>4, <2>1
    <3> HIDE DEF x
    <3>b. r.value \in Values /\ r.value \notin HeldIn(task) /\ OnceHeld(task)
      BY <2>1, <3>2, <3>a DEF PlacesInv
    <3>c. OnceHeld([task EXCEPT ![t] = r]) /\ HeldIn([task EXCEPT ![t] = r]) = HeldIn(task) \cup {r.value}
      BY <1>2, <1>3, <1>4, <3>b, TaskTakes
    <3>3. OnceHeld(task') /\ HeldIn(task') = HeldIn(task) \cup {x}
      BY <1>1, <3>a, <3>c
    <3>4. Partition(FoundIn(poolState.values), HeldIn(task'), FoundIn(channel'))
      BY <1>7, <3>1, <3>3 DEF PlacesInv, Partition
    <3> QED BY <1>1, <1>7, <3>3, <3>4 DEF PlacesInv
  <2>2. CASE x \notin Values
    <3>1. OnceHeld(task') /\ HeldIn(task') = HeldIn(task)
      BY <1>1, <1>2, <1>3, <1>4, <2>2, TaskKeeps DEF PlacesInv
    <3>2. FoundIn(channel') = FoundIn(channel)
      BY <1>7, <2>2 DEF FoundIn
    <3> QED BY <1>1, <1>7, <3>1, <3>2 DEF PlacesInv
  <2> QED BY <2>1, <2>2
<1>10. WaitersInv'
  BY <1>1, <1>7, PoolAssumption DEF WaitersInv
<1>11. TicketsInv'
  <2>1. ASSUME NEW u \in Tasks, task[u].pc = "waits", u # t
        PROVE  task[u].ticket # n /\ channel'[task[u].ticket] = channel[task[u].ticket]
    BY <1>1, <1>7, <2>1 DEF TicketsInv
  <2>2. ASSUME NEW u \in Tasks, task[u].pc = "waits", u # t PROVE Known(u)'
    <3>1. Known(u) /\ task'[u] = task[u]
      BY <1>6, <2>2 DEF TicketsInv
    <3>2. \A s \in Tasks : task[s].pc = "sends" => task'[s] = task[s]
      BY <1>1, <1>6
    <3> QED BY <1>1, <2>1, <2>2, <3>1, <3>2 DEF Known
  <2>3. \A u \in Tasks : task'[u].pc \in {"waits", "sends", "stuck"} => u # t /\ task'[u] = task[u]
    BY <1>4, <1>6
  <2>4. \A u \in Tasks : task'[u].pc \in {"sends", "stuck"} =>
           channel'[task'[u].ticket] \in {"closed", channel[task[u].ticket]}
    BY <1>7, <2>3 DEF TicketsInv
  <2>5. \A u \in Tasks : task'[u].pc = "sends" => channel'[task'[u].ticket] \notin Values
    BY <2>3, <2>4, PoolAssumption DEF TicketsInv
  <2>6. \A u \in Tasks : task'[u].pc = "stuck" => channel'[task'[u].ticket] = "closed"
    BY <2>3, <2>4 DEF TicketsInv
  <2>7. \A u \in Tasks : task'[u].pc = "waits" => channel'[task'[u].ticket] # "closed" /\ Known(u)'
    BY <2>1, <2>2, <2>3 DEF TicketsInv
  <2>8. \A u \in Tasks : task'[u].pc = "sends" =>
          \A i \in DOMAIN poolState'.waiters : poolState'.waiters[i] # task'[u].ticket
    BY <1>1, <2>3 DEF TicketsInv
  <2>9. \A u, w \in Tasks : task'[u].pc = "waits" /\ task'[w].pc = "waits"
                           /\ task'[u].ticket = task'[w].ticket => u = w
    BY <2>3 DEF TicketsInv
  <2>10. \A u \in Tasks : task'[u].pc \in {"waits", "sends", "stuck"} => task'[u].ticket \in DOMAIN channel'
    BY <1>7, <2>3 DEF TicketsInv
  <2> QED BY <2>5, <2>6, <2>7, <2>8, <2>9, <2>10 DEF TicketsInv
<1>12. GuardInv'
  BY <1>1, <1>4, <1>5, <1>6, PoolAssumption DEF GuardInv
<1> QED BY <1>8, <1>9, <1>10, <1>11, <1>12

\* PoolGuard::drop under the mutex: the value goes to a waiter that listens, or back.
LEMMA DropStep ==
    ASSUME PoolInv, NEW t \in Tasks, DropGuard(t) \/ PopWaiter(t)
    PROVE  PoolInv'
<1> USE DEF PoolInv
<1>t. /\ task \in [Tasks -> TaskRecords] /\ task[t] \in TaskRecords
      /\ poolState.waiters \in Seq(Nat) /\ poolState.values \in Seq(Values)
      /\ NoTask \notin Tasks
  BY PoolAssumption DEF PoolTypeInv
<1>1. CASE DropGuard(t)
  <2> DEFINE r == [task[t] EXCEPT !.pc = "drops"]
  <2>1. /\ task[t].pc = "holds" /\ poolLock = NoTask /\ poolLock' = t
        /\ task' = [task EXCEPT ![t] = r] /\ UNCHANGED <<poolState, channel>>
    BY <1>1 DEF DropGuard
  <2>2. r \in TaskRecords /\ r.pc = "drops" /\ r.value = task[t].value
    BY <1>t DEF TaskRecords
  <2> HIDE DEF r
  <2>3. \A u \in Tasks : task'[u] = IF u = t THEN r ELSE task[u]
    BY <1>t, <2>1
  <2>4. PlacesInv'
    <3>1. OnceHeld(task') /\ HeldIn(task') = HeldIn(task)
      BY <1>t, <2>1, <2>2, TaskKeeps DEF PlacesInv
    <3> QED BY <2>1, <3>1 DEF PlacesInv
  <2>5. PoolTypeInv'
    BY <1>t, <2>1, <2>2 DEF PoolTypeInv
  <2>6. TicketsInv'
    BY <2>1, <2>2, <2>3 DEF TicketsInv, Known
  <2>7. GuardInv'
    BY <1>t, <2>1, <2>2, <2>3 DEF GuardInv
  <2> QED BY <2>1, <2>4, <2>5, <2>6, <2>7 DEF WaitersInv
<1>2. CASE PopWaiter(t)
  <2> DEFINE w == Head(poolState.waiters)
             r == IF IsClosed(w) THEN task[t] ELSE [task[t] EXCEPT !.pc = "sends", !.ticket = w]
  <2>1. /\ task[t].pc = "drops" /\ poolState.waiters # <<>>
        /\ poolState' = [poolState EXCEPT !.waiters = Tail(@)]
        /\ UNCHANGED <<poolLock, channel>>
    BY <1>2 DEF PopWaiter
  <2>2. poolState'.values = poolState.values /\ poolState'.waiters = Tail(poolState.waiters)
    BY <2>1 DEF PoolTypeInv
  <2>3. /\ Tail(poolState.waiters) \in Seq(Nat) /\ w \in Nat
        /\ \A i \in DOMAIN Tail(poolState.waiters) :
              i + 1 \in DOMAIN poolState.waiters /\ Tail(poolState.waiters)[i] = poolState.waiters[i + 1]
        /\ \A i \in DOMAIN poolState.waiters :
              \/ poolState.waiters[i] = w
              \/ i - 1 \in DOMAIN Tail(poolState.waiters)
                 /\ Tail(poolState.waiters)[i - 1] = poolState.waiters[i]
    BY <1>t, <2>1, FreeTaken
  <2>4. /\ w = poolState.waiters[1] /\ 1 \in DOMAIN poolState.waiters
        /\ DOMAIN Tail(poolState.waiters) \subseteq Nat \ {0}
    BY <1>t, <2>1, <2>3, LenProperties, EmptySeq
  <2> HIDE DEF w
  <2>5. \A i \in DOMAIN Tail(poolState.waiters) : Tail(poolState.waiters)[i] # w
    BY <2>3, <2>4 DEF WaitersInv
  <2>6. w \in DOMAIN channel /\ channel[w] \notin Values
    BY <2>4 DEF WaitersInv
  <2>7. task' = [task EXCEPT ![t] = r]
    <3>1. task' = IF IsClosed(w) THEN task
                  ELSE [task EXCEPT ![t] = [@ EXCEPT !.pc = "sends", !.ticket = w]]
      BY <1>2 DEF PopWaiter, w
    <3> QED BY <1>t, <3>1
  <2>8. /\ r \in TaskRecords /\ r.value = task[t].value
        /\ IF IsClosed(w) THEN r.pc = "drops" ELSE r.pc = "sends" /\ r.ticket = w
    BY <1>t, <2>1, <2>3 DEF TaskRecords
  <2> HIDE DEF r
  <2>9. \A u \in Tasks : task'[u] = IF u = t THEN r ELSE task[u]
    BY <1>t, <2>7
  <2>10. PlacesInv'
    <3>1. OnceHeld(task') /\ HeldIn(task') = HeldIn(task)
      BY <1>t, <2>7, <2>8, TaskKeeps DEF PlacesInv
    <3> QED BY <2>1, <2>2, <3>1 DEF PlacesInv
  <2>11. PoolTypeInv'
    BY <1>t, <2>1, <2>3, <2>7, <2>8 DEF PoolTypeInv
  <2>12. WaitersInv'
    <3>1. \A i, j \in DOMAIN Tail(poolState.waiters) :
             Tail(poolState.waiters)[i] = Tail(poolState.waiters)[j] => i = j
      <4> SUFFICES ASSUME NEW i \in DOMAIN Tail(poolState.waiters), NEW j \in DOMAIN Tail(poolState.waiters),
                          Tail(poolState.waiters)[i] = Tail(poolState.waiters)[j]
                   PROVE  i = j
        OBVIOUS
      <4>1. i + 1 = j + 1
        BY <2>3 DEF WaitersInv
      <4> QED BY <2>4, <4>1
    <3> QED BY <2>1, <2>2, <2>3, <3>1 DEF WaitersInv
  <2>13. TicketsInv'
    <3>1. \A u \in Tasks : u # t => task'[u] = task[u] /\ task[u].pc \notin {"drops", "sends", "stuck"}
      BY <2>1, <2>9 DEF GuardInv
    <3>2. ASSUME NEW u \in Tasks, task[u].pc = "waits" PROVE Known(u)'
      <4>1. Known(u) /\ channel[task[u].ticket] # "closed" /\ u # t /\ task'[u] = task[u]
        BY <2>1, <2>9, <3>2 DEF TicketsInv
      <4>2. CASE channel[task[u].ticket] \in Values
        BY <2>1, <4>1, <4>2 DEF Known
      <4>3. CASE \E s \in Tasks : task[s].pc = "sends" /\ task[s].ticket = task[u].ticket
        BY <2>1, <3>1, <4>3
      <4>4. ASSUME NEW i \in DOMAIN poolState.waiters, poolState.waiters[i] = task[u].ticket PROVE Known(u)'
        <5>1. CASE poolState.waiters[i] = w
          BY <2>8, <2>9, <4>1, <4>4, <5>1 DEF Known, IsClosed
        <5>2. CASE poolState.waiters[i] # w
          <6>1. i - 1 \in DOMAIN poolState'.waiters /\ poolState'.waiters[i - 1] = task[u].ticket
            BY <2>2, <2>3, <4>4, <5>2
          <6> QED BY <4>1, <6>1 DEF Known
        <5> QED BY <5>1, <5>2
      <4> QED BY <4>1, <4>2, <4>3, <4>4 DEF Known
    <3>3. task'[t].pc # "waits" /\ task'[t].pc # "stuck" /\ (task'[t].pc = "sends" => task'[t].ticket = w)
      BY <2>8, <2>9
    <3>4. \A u \in Tasks : task'[u].pc = "sends" =>
            /\ channel'[task'[u].ticket] \notin Values
            /\ \A i \in DOMAIN poolState'.waiters : poolState'.waiters[i] # task'[u].ticket
      BY <2>1, <2>2, <2>5, <2>6, <3>1, <3>3
    <3>5. \A u \in Tasks : task'[u].pc \in {"waits", "sends", "stuck"} => task'[u].ticket \in DOMAIN channel'
      BY <2>1, <2>6, <3>1, <3>3 DEF TicketsInv
    <3>6. \A u \in Tasks : task'[u].pc = "waits" => channel'[task'[u].ticket] # "closed" /\ Known(u)'
      BY <2>1, <3>1, <3>2, <3>3 DEF TicketsInv
    <3> QED BY <2>1, <3>1, <3>3, <3>4, <3>5, <3>6 DEF TicketsInv
  <2>14. GuardInv'
    BY <2>1, <2>8, <2>9 DEF GuardInv
  <2> QED BY <2>10, <2>11, <2>12, <2>13, <2>14
<1> QED BY <1>1, <1>2
\* A guard is sent to one that waits; if that one gave up in between, the sender hangs.
LEMMA SendStep ==
    ASSUME PoolInv, NEW t \in Tasks, SendGuard(t)
    PROVE  PoolInv'
<1> USE DEF PoolInv
<1> DEFINE n == task[t].ticket
           x == task[t].value
<1>t. /\ task \in [Tasks -> TaskRecords] /\ task[t] \in TaskRecords /\ channel \in Seq(Messages)
      /\ task[t].pc = "sends" /\ n \in DOMAIN channel /\ channel[n] \notin Values /\ x \in Values
      /\ poolLock = t /\ NoTask \notin Tasks /\ NoTask \notin Values
      /\ UNCHANGED poolState
  BY PoolAssumption DEF PoolTypeInv, SendGuard, TicketsInv, GuardInv
<1>o. \A u \in Tasks : u # t => task[u].pc \notin {"drops", "sends", "stuck"}
  BY <1>t DEF GuardInv
<1>w. \A i \in DOMAIN poolState.waiters :
         poolState.waiters[i] # n /\ poolState.waiters[i] \in DOMAIN channel
         /\ channel[poolState.waiters[i]] \notin Values
  BY <1>t DEF TicketsInv, WaitersInv
<1>1. CASE /\ ~IsClosed(n) /\ channel' = [channel EXCEPT ![n] = x]
           /\ task' = [task EXCEPT ![t] = Idle] /\ poolLock' = NoTask
  <2> HIDE DEF n, x
  <2>1. \A u \in Tasks : task'[u] = IF u = t THEN Idle ELSE task[u]
    BY <1>t, <1>1
  <2>2. Idle \in TaskRecords /\ Idle.value = NoTask /\ Idle.pc = "idle"
    BY DEF Idle, TaskRecords
  <2>3. x \in HeldIn(task) /\ x \notin FoundIn(channel) /\ x \in Messages
    <3>1. x \in HeldIn(task)
      BY <1>t DEF HeldIn, x
    <3> QED BY <1>t, <3>1 DEF PlacesInv, Partition, Messages
  <2>4. /\ channel' \in Seq(Messages) /\ DOMAIN channel' = DOMAIN channel
        /\ \A i \in DOMAIN channel : channel'[i] = IF i = n THEN x ELSE channel[i]
        /\ OnceIn(channel') /\ FoundIn(channel') = FoundIn(channel) \cup {x}
    <3> DEFINE d == [channel EXCEPT ![n] = x]
    <3>1. /\ d \in Seq(Messages) /\ DOMAIN d = DOMAIN channel
          /\ \A i \in DOMAIN channel : d[i] = IF i = n THEN x ELSE channel[i]
          /\ OnceIn(d) /\ FoundIn(d) = (FoundIn(channel) \ {channel[n]}) \cup ({x} \cap Values)
      BY <1>t, <2>3, ChannelSet DEF PlacesInv
    <3>2. d = channel'
      BY <1>1
    <3> HIDE DEF d
    <3>3. FoundIn(channel) \subseteq Values
      BY DEF FoundIn
    <3> QED BY <1>t, <3>1, <3>2, <3>3
  <2>5. PoolTypeInv'
    BY <1>t, <1>1, <2>2, <2>4 DEF PoolTypeInv
  <2>6. PlacesInv'
    <3>1. OnceHeld([task EXCEPT ![t] = Idle]) /\ HeldIn([task EXCEPT ![t] = Idle]) = HeldIn(task) \ {task[t].value}
      BY <1>t, <2>2, TaskGives DEF PlacesInv, x
    <3>2. OnceHeld(task') /\ HeldIn(task') = HeldIn(task) \ {x}
      BY <1>1, <3>1 DEF x
    <3>3. Partition(FoundIn(poolState.values), HeldIn(task'), FoundIn(channel'))
      BY <2>3, <2>4, <3>2 DEF PlacesInv, Partition
    <3> QED BY <1>t, <2>4, <3>2, <3>3 DEF PlacesInv
  <2>7. WaitersInv'
    BY <1>t, <1>w, <2>4 DEF WaitersInv
  <2>8. TicketsInv'
    <3>1. \A u \in Tasks : task'[u].pc \in {"waits", "sends", "stuck"} =>
             /\ u # t /\ task'[u] = task[u] /\ task'[u].pc = "waits"
             /\ task[u].ticket \in DOMAIN channel /\ channel[task[u].ticket] # "closed" /\ Known(u)
      BY <1>o, <2>1, <2>2 DEF TicketsInv
    <3>2. ASSUME NEW u \in Tasks, task'[u].pc = "waits"
          PROVE  channel'[task'[u].ticket] # "closed" /\ Known(u)'
      <4>1. CASE task[u].ticket = n
        BY <1>t, <2>4, <3>1, <3>2, <4>1, PoolAssumption DEF Known
      <4>2. CASE task[u].ticket # n
        <5>1. channel'[task'[u].ticket] = channel[task[u].ticket] /\ channel[task[u].ticket] # "closed" /\ Known(u)
          BY <2>4, <3>1, <3>2, <4>2
        <5>2. ~(\E s \in Tasks : task[s].pc = "sends" /\ task[s].ticket = task[u].ticket)
          BY <1>o, <4>2 DEF n
        <5> QED BY <1>t, <3>1, <3>2, <5>1, <5>2 DEF Known
      <4> QED BY <4>1, <4>2
    <3> QED BY <2>4, <3>1, <3>2 DEF TicketsInv
  <2>9. GuardInv'
    BY <1>t, <1>o, <1>1, <2>1, <2>2 DEF GuardInv
  <2> QED BY <2>5, <2>6, <2>7, <2>8, <2>9
<1>2. CASE IsClosed(n) /\ task' = [task EXCEPT ![t].pc = "stuck"] /\ UNCHANGED <<channel, poolLock>>
  <2> DEFINE r == [task[t] EXCEPT !.pc = "stuck"]
  <2>1. r \in TaskRecords /\ r.value = x /\ r.pc = "stuck" /\ r.ticket = n
    BY <1>t DEF TaskRecords
  <2>2. task' = [task EXCEPT ![t] = r]
    BY <1>2
  <2> HIDE DEF r
  <2>3. \A u \in Tasks : task'[u] = IF u = t THEN r ELSE task[u]
    BY <1>t, <2>2
  <2>4. PlacesInv'
    <3>1. OnceHeld([task EXCEPT ![t] = r]) /\ HeldIn([task EXCEPT ![t] = r]) = HeldIn(task)
      BY <1>t, <2>1, TaskKeeps DEF PlacesInv
    <3> QED BY <1>t, <1>2, <2>2, <3>1 DEF PlacesInv
  <2>5. PoolTypeInv'
    BY <1>t, <1>2, <2>1, <2>2 DEF PoolTypeInv
  <2>6. TicketsInv'
    <3>1. ASSUME NEW u \in Tasks, task[u].pc = "waits" PROVE Known(u)'
      <4>1. Known(u) /\ channel[task[u].ticket] # "closed" /\ task'[u] = task[u]
        BY <1>t, <2>3, <3>1 DEF TicketsInv
      <4>2. ~(\E s \in Tasks : task[s].pc = "sends" /\ task[s].ticket = task[u].ticket)
        BY <1>o, <1>2, <4>1 DEF IsClosed
      <4> QED BY <1>t, <1>2, <4>1, <4>2 DEF Known
    <3>2. \A u \in Tasks : u # t => task'[u] = task[u] /\ task[u].pc \notin {"sends", "stuck"}
      BY <1>o, <2>3
    <3>3. task'[t].pc = "stuck" /\ task'[t].ticket = n /\ channel[n] = "closed"
      BY <1>2, <2>1, <2>3 DEF IsClosed
    <3> QED BY <1>t, <1>2, <3>1, <3>2, <3>3 DEF TicketsInv
  <2>7. GuardInv'
    BY <1>t, <1>2, <2>1, <2>3 DEF GuardInv
  <2> QED BY <1>t, <1>2, <2>4, <2>5, <2>6, <2>7 DEF WaitersInv
<1> QED BY <1>1, <1>2 DEF SendGuard

\* Without a waiter the value goes back to the pool.
LEMMA PushBackStep ==
    ASSUME PoolInv, NEW t \in Tasks, PushBack(t)
    PROVE  PoolInv'
<1> USE DEF PoolInv
<1> DEFINE x == task[t].value
<1>1. /\ task[t].pc = "drops" /\ poolState.waiters = <<>>
      /\ poolState' = [poolState EXCEPT !.values = Append(@, x)]
      /\ task' = [task EXCEPT ![t] = Idle] /\ poolLock' = NoTask /\ UNCHANGED channel
  BY DEF PushBack
<1>2. /\ task \in [Tasks -> TaskRecords] /\ task[t] \in TaskRecords /\ x \in Values
      /\ poolLock = t /\ NoTask \notin Tasks /\ NoTask \notin Values
      /\ poolState'.values = Append(poolState.values, x) /\ poolState'.waiters = poolState.waiters
      /\ poolState.values \in Seq(Values)
  BY <1>1, PoolAssumption DEF PoolTypeInv, GuardInv
<1> HIDE DEF x
<1>3. Idle \in TaskRecords /\ Idle.value = NoTask /\ Idle.pc = "idle"
  BY DEF Idle, TaskRecords
<1>4. \A u \in Tasks : task'[u] = IF u = t THEN Idle ELSE task[u]
  BY <1>1, <1>2
<1>5. x \in HeldIn(task) /\ x \notin FoundIn(poolState.values)
  <2>1. x \in HeldIn(task)
    BY <1>2 DEF HeldIn, x
  <2> QED BY <2>1 DEF PlacesInv, Partition
<1>6. /\ Append(poolState.values, x) \in Seq(Values) /\ OnceIn(Append(poolState.values, x))
      /\ FoundIn(Append(poolState.values, x)) = FoundIn(poolState.values) \cup {x}
  <2>1. /\ Append(poolState.values, x) \in Seq(Values) /\ OnceIn(Append(poolState.values, x))
        /\ FoundIn(Append(poolState.values, x)) = FoundIn(poolState.values) \cup ({x} \cap Values)
    BY <1>2, <1>5, Appended DEF PlacesInv
  <2> QED BY <1>2, <2>1
<1>7. PlacesInv'
  <2>1. OnceHeld([task EXCEPT ![t] = Idle]) /\ HeldIn([task EXCEPT ![t] = Idle]) = HeldIn(task) \ {task[t].value}
    BY <1>2, <1>3, TaskGives DEF PlacesInv, x
  <2>2. OnceHeld(task') /\ HeldIn(task') = HeldIn(task) \ {x}
    BY <1>1, <2>1 DEF x
  <2>3. Partition(FoundIn(poolState'.values), HeldIn(task'), FoundIn(channel))
    BY <1>2, <1>5, <1>6, <2>2 DEF PlacesInv, Partition
  <2> QED BY <1>1, <1>2, <1>6, <2>2, <2>3 DEF PlacesInv
<1>8. PoolTypeInv'
  BY <1>1, <1>2, <1>3, <1>6 DEF PoolTypeInv
<1>9. WaitersInv'
  BY <1>1, <1>2 DEF WaitersInv
<1>10. TicketsInv'
  BY <1>1, <1>2, <1>3, <1>4 DEF TicketsInv, Known
<1>11. GuardInv'
  BY <1>1, <1>2, <1>3, <1>4 DEF GuardInv
<1> QED BY <1>7, <1>8, <1>9, <1>10, <1>11

\* A pool is created with all its values, each once.
LEMMA PoolInitInv == PoolInit => PoolInv
<1> SUFFICES ASSUME PoolInit PROVE PoolInv
  OBVIOUS
<1> DEFINE s == SetToSeq(Values)
           n == Cardinality(Values)
<1>1. IsFiniteSet(Values) /\ n \in Nat
  BY PoolAssumption, FS_CardinalityType
<1>2. \E f \in [1..n -> Values] : IsInjective(f)
  BY <1>1, FS_CardinalityType DEF ExistsBijection, Bijection, Injection
<1>3. s \in [1..n -> Values] /\ IsInjective(s)
  BY <1>2 DEF SetToSeq
<1> HIDE DEF s
<1>4. s \in Surjection(1..n, Values)
  <2>1. s \in Injection(1..n, Values)
    BY <1>3 DEF Injection
  <2>2. IsFiniteSet(1..n) /\ Cardinality(1..n) = n
    BY <1>1, FS_Interval
  <2> QED BY <1>1, <2>1, <2>2, FS_Injection
<1>5. s \in Seq(Values) /\ OnceIn(s) /\ FoundIn(s) = Values
  <2>1. s \in Seq(Values)
    BY <1>1, <1>3
  <2>2. \A v \in Values : \E i \in 1..n : s[i] = v
    BY <1>4 DEF Surjection
  <2> QED BY <1>3, <2>1, <2>2 DEF OnceIn, FoundIn, IsInjective
<1>6. /\ poolState = [values |-> s, waiters |-> <<>>] /\ poolLock = NoTask
      /\ task = [t \in Tasks |-> Idle] /\ channel = <<>>
  BY DEF PoolInit, s
<1>7. Idle \in TaskRecords /\ Idle.value = NoTask /\ Idle.pc = "idle"
  BY DEF Idle, TaskRecords
<1>8. PoolTypeInv
  BY <1>5, <1>6, <1>7, EmptySeq DEF PoolTypeInv
<1>9. PlacesInv
  <2>1. HeldIn(task) = {} /\ OnceHeld(task)
    BY <1>6, <1>7, PoolAssumption DEF HeldIn, OnceHeld
  <2>2. FoundIn(channel) = {} /\ OnceIn(channel)
    BY <1>6 DEF FoundIn, OnceIn
  <2> QED BY <1>5, <1>6, <2>1, <2>2 DEF PlacesInv, Partition
<1>10. WaitersInv /\ TicketsInv /\ GuardInv
  BY <1>6, <1>7, PoolAssumption DEF WaitersInv, TicketsInv, GuardInv
<1> QED BY <1>8, <1>9, <1>10 DEF PoolInv

\* A set with exactly one element.
LEMMA OneElement ==
    ASSUME NEW S, NEW x \in S, \A y \in S : y = x
    PROVE  Cardinality(S) = 1
<1>1. S = {x}
  OBVIOUS
<1> QED BY <1>1, FS_Singleton

\* The three places that copies of a value are counted in: one of them has one.
LEMMA OneCopy ==
    ASSUME PlacesInv, NEW v \in Values
    PROVE  Copies(v) = 1
<1> DEFINE A == {i \in DOMAIN poolState.values : poolState.values[i] = v}
           B == {t \in Tasks : task[t].value = v}
           C == {n \in DOMAIN channel : channel[n] = v}
<1>1. /\ \A i, j \in A : i = j
      /\ \A t, u \in B : t = u
      /\ \A m, n \in C : m = n
  BY DEF PlacesInv, OnceIn, OnceHeld
<1>2. /\ v \in FoundIn(poolState.values) <=> A # {}
      /\ v \in HeldIn(task) <=> B # {}
      /\ v \in FoundIn(channel) <=> C # {}
  BY DEF FoundIn, HeldIn
<1>3. \/ A # {} /\ B = {} /\ C = {}
      \/ A = {} /\ B # {} /\ C = {}
      \/ A = {} /\ B = {} /\ C # {}
  BY <1>2 DEF PlacesInv, Partition
<1>4. Copies(v) = Cardinality(A) + Cardinality(B) + Cardinality(C)
  BY DEF Copies
<1> HIDE DEF A, B, C
<1>5. Cardinality({}) = 0
  BY FS_EmptySet
<1>6. /\ A # {} => Cardinality(A) = 1
      /\ B # {} => Cardinality(B) = 1
      /\ C # {} => Cardinality(C) = 1
  BY <1>1, OneElement
<1> QED BY <1>3, <1>4, <1>5, <1>6

(* Whenever tasks give up, before, while or after a guard is on its way to *)
(* them: no value of the pool is lost or held twice, nobody waits while a  *)
(* value is free, no waiter is forgotten, and only a drop whose waiter     *)
(* gave up after is_closed keeps the mutex for ever.                       *)
THEOREM PoolSoundHolds == PoolSpec => []PoolSound
<1>1. PoolInv /\ [PoolNext]_poolVars => PoolInv'
  <2> SUFFICES ASSUME PoolInv, [PoolNext]_poolVars PROVE PoolInv'
    OBVIOUS
  <2>1. CASE UNCHANGED poolVars
    BY <2>1 DEF poolVars, PoolInv, PoolTypeInv, PlacesInv, WaitersInv, TicketsInv, Known, GuardInv
  <2>2. CASE PoolNext
    BY <2>2, GetValueStep, GetWaitStep, CloseStep, DropStep, SendStep, PushBackStep DEF PoolNext
  <2> QED BY <2>1, <2>2
<1>2. PoolInv => PoolSound
  <2> SUFFICES ASSUME PoolInv PROVE PoolSound
    OBVIOUS
  <2> USE DEF PoolInv
  <2>1. \A v \in Values : Copies(v) = 1
    BY OneCopy
  <2>2. poolState.values # <<>> => Listening = {}
    BY DEF WaitersInv, Listening, ToSet, IsClosed
  <2>3. ASSUME NEW t \in Tasks, task[t].pc = "waits"
        PROVE  \/ task[t].ticket \in Listening \/ channel[task[t].ticket] \in Values
               \/ \E s \in Tasks : task[s].pc = "sends" /\ task[s].ticket = task[t].ticket
    <3>1. channel[task[t].ticket] # "closed" /\ Known(t)
      BY <2>3 DEF TicketsInv
    <3>2. (\E i \in DOMAIN poolState.waiters : poolState.waiters[i] = task[t].ticket)
             => task[t].ticket \in Listening
      BY <3>1 DEF Listening, ToSet, IsClosed
    <3> QED BY <3>1, <3>2 DEF Known
  <2>4. \A t \in Tasks : task[t].pc = "stuck" => IsClosed(task[t].ticket) /\ poolLock = t
    BY DEF TicketsInv, GuardInv, IsClosed
  <2> QED BY <2>1, <2>2, <2>3, <2>4 DEF PoolSound
<1> QED BY <1>1, <1>2, PoolInitInv, PTL DEF PoolSpec
-----------------------------------------------------------------------------
(* Doomslug's approvals.  Totals of stakes for which its two definitions   *)
(* of a sufficient majority agree: with a total of one the threshold is 0, *)
(* and without any stake in this epoch nothing reaches it.                 *)
RealStakes == StakeOf(StakeThis, Validators) > 1 /\ StakeOf(StakeNext, Validators) # 1

Inners == {<<"endorse", h>> : h \in BlockHashes} \cup {<<"skip", k>> : k \in Nat}
TrackerRecords == [witness : SUBSET Validators, approvedThis : Nat, approvedNext : Nat,
                   since : Nat \cup {-1}]

(* The stakes of a tracker are those of its witnesses.                     *)
Weighed(k) ==
    /\ k \in TrackerRecords
    /\ k.approvedThis = StakeOf(StakeThis, k.witness)
    /\ k.approvedNext = StakeOf(StakeNext, k.witness)
Sound(k) == Weighed(k) /\ (Reached(k) => k.since # -1)

(* Of one target height: everybody is a witness of what he approved last,  *)
(* and of nothing else.                                                    *)
Counted(at, last) ==
    /\ DOMAIN at \subseteq Inners /\ at = [x \in DOMAIN at |-> at[x]]
    /\ \A x \in DOMAIN at : Sound(at[x]) /\ at[x].witness = {v \in Validators : last[v] = x}
    /\ \A v \in Validators : last[v] \in DOMAIN at \cup {Nothing}

TrackersInv ==
    /\ now \in Nat
    /\ trackers = [t \in Heights |-> trackers[t]]
    /\ lastApproval \in [Heights -> [Validators -> Inners \cup {Nothing}]]
    /\ \A t \in Heights : Counted(trackers[t], lastApproval[t])

\* The stake of a set of validators, with one more and of two disjoint sets.
LEMMA StakeAdds ==
    ASSUME NEW stake \in [Validators -> Nat], NEW S \in SUBSET Validators
    PROVE  /\ StakeOf(stake, S) \in Nat /\ StakeOf(stake, {}) = 0
           /\ \A v \in Validators \ S : StakeOf(stake, S \cup {v}) = StakeOf(stake, S) + stake[v]
           /\ \A v \in S : StakeOf(stake, S \ {v}) = StakeOf(stake, S) - stake[v]
<1>0. IsFiniteSet(Validators)
  BY DoomslugAssumption
<1>1. \A T : StakeOf(stake, T) = SumOver(stake, T)
  BY DEF StakeOf, SumOver
<1>2. /\ SumOver(stake, S) \in Nat /\ SumOver(stake, {}) = 0
      /\ \A v \in Validators \ S : SumOver(stake, S \cup {v}) = SumOver(stake, S) + stake[v]
  BY <1>0, SumAdds
<1>3. ASSUME NEW v \in S PROVE SumOver(stake, S \ {v}) = SumOver(stake, S) - stake[v]
  <2>1. S \ {v} \in SUBSET Validators /\ v \in Validators \ (S \ {v}) /\ (S \ {v}) \cup {v} = S
    OBVIOUS
  <2>2. /\ SumOver(stake, S \ {v}) \in Nat
        /\ SumOver(stake, (S \ {v}) \cup {v}) = SumOver(stake, S \ {v}) + stake[v]
    BY <1>0, <2>1, SumAdds
  <2>3. stake[v] \in Nat
    BY <2>1
  <2>4. SumOver(stake, S) = SumOver(stake, S \ {v}) + stake[v]
    BY <2>1, <2>2
  <2> QED BY <2>2, <2>3, <2>4
<1> QED BY <1>1, <1>2, <1>3

\* Two disjoint sets of validators have no more than the whole stake.
LEMMA StakeDisjoint ==
    ASSUME NEW stake \in [Validators -> Nat],
           NEW S \in SUBSET Validators, NEW T \in SUBSET Validators, S \cap T = {}
    PROVE  StakeOf(stake, S) + StakeOf(stake, T) <= StakeOf(stake, Validators)
<1>0. IsFiniteSet(Validators)
  BY DoomslugAssumption
<1>1. \A U : StakeOf(stake, U) = SumOver(stake, U)
  BY DEF StakeOf, SumOver
<1>2. SumOver(stake, S) + SumOver(stake, T) <= SumOver(stake, Validators)
  BY <1>0, SumDisjoint
<1> QED BY <1>1, <1>2

\* Two thirds, rounded down.
LEMMA TwoThirdsIs ==
    ASSUME NEW stake \in [Validators -> Nat]
    PROVE  /\ TwoThirds(stake) \in Nat
           /\ 3 * TwoThirds(stake) <= 2 * StakeOf(stake, Validators)
           /\ 2 * StakeOf(stake, Validators) < 3 * TwoThirds(stake) + 3
<1>1. StakeOf(stake, Validators) \in Nat
  BY StakeAdds
<1>2. \A n \in Nat : /\ (n * 2) \div 3 \in Nat
                     /\ 3 * ((n * 2) \div 3) <= 2 * n /\ 2 * n < 3 * ((n * 2) \div 3) + 3
  OBVIOUS
<1> QED BY <1>1, <1>2 DEF TwoThirds
\* A withdrawn approval takes its stake away: nothing new is reached.
LEMMA WithdrawnSound ==
    ASSUME NEW k, Sound(k), NEW v \in Validators
    PROVE  Sound(Withdrawn(k, v)) /\ Withdrawn(k, v).witness = k.witness \ {v}
<1> DEFINE w == Withdrawn(k, v)
<1>0. StakeThis \in [Validators -> Nat] /\ StakeNext \in [Validators -> Nat]
  BY DoomslugAssumption
<1>1. CASE v \notin k.witness
  <2>1. w = k /\ k.witness = k.witness \ {v}
    BY <1>1 DEF Withdrawn
  <2> QED BY <2>1
<1>2. CASE v \in k.witness
  <2>1. k \in TrackerRecords /\ k.witness \in SUBSET Validators
    BY DEF Sound, Weighed, TrackerRecords
  <2>2. w = [witness |-> k.witness \ {v}, approvedThis |-> k.approvedThis - StakeThis[v],
             approvedNext |-> k.approvedNext - StakeNext[v], since |-> k.since]
    BY <1>2 DEF Withdrawn
  <2>3. /\ StakeOf(StakeThis, w.witness) = k.approvedThis - StakeThis[v]
        /\ StakeOf(StakeNext, w.witness) = k.approvedNext - StakeNext[v]
    <3>1. /\ StakeOf(StakeThis, k.witness \ {v}) = StakeOf(StakeThis, k.witness) - StakeThis[v]
          /\ StakeOf(StakeNext, k.witness \ {v}) = StakeOf(StakeNext, k.witness) - StakeNext[v]
      BY <1>0, <1>2, <2>1, StakeAdds
    <3> QED BY <3>1, <2>2 DEF Sound, Weighed
  <2>4. StakeOf(StakeThis, w.witness) \in Nat /\ StakeOf(StakeNext, w.witness) \in Nat
    <3>1. w.witness \in SUBSET Validators
      BY <2>1, <2>2
    <3> HIDE DEF w
    <3> QED BY <1>0, <3>1, StakeAdds
  <2>5. Weighed(w)
    BY <2>1, <2>2, <2>3, <2>4 DEF Weighed, TrackerRecords
  <2>6. Reached(w) => Reached(k)
    <3>1. /\ StakeThis[v] \in Nat /\ StakeNext[v] \in Nat
          /\ k.approvedThis \in Nat /\ k.approvedNext \in Nat
          /\ TwoThirds(StakeThis) \in Nat /\ TwoThirds(StakeNext) \in Nat
      BY <1>0, <2>1, TwoThirdsIs DEF TrackerRecords
    <3>2. w.approvedThis = k.approvedThis - StakeThis[v] /\ w.approvedNext = k.approvedNext - StakeNext[v]
      BY <2>2
    <3> HIDE DEF w
    <3>3. w.approvedThis > TwoThirds(StakeThis) => k.approvedThis > TwoThirds(StakeThis)
      BY <3>1, <3>2
    <3>4. w.approvedNext > TwoThirds(StakeNext) => k.approvedNext > TwoThirds(StakeNext)
      BY <3>1, <3>2
    <3> QED BY <3>3, <3>4 DEF Reached
  <2> QED BY <2>2, <2>5, <2>6 DEF Sound
<1> QED BY <1>1, <1>2

\* An approval adds its stake once, and the time when the threshold is reached.
LEMMA ApprovedSound ==
    ASSUME NEW k, Weighed(k), NEW v \in Validators, now \in Nat
    PROVE  Sound(Approved(k, v)) /\ Approved(k, v).witness = k.witness \cup {v}
<1> DEFINE j == IF v \in k.witness THEN k
                ELSE [witness |-> k.witness \cup {v}, approvedThis |-> k.approvedThis + StakeThis[v],
                      approvedNext |-> k.approvedNext + StakeNext[v], since |-> k.since]
<1>0. StakeThis \in [Validators -> Nat] /\ StakeNext \in [Validators -> Nat]
  BY DoomslugAssumption
<1>1. k \in TrackerRecords /\ k.witness \in SUBSET Validators
  BY DEF Weighed, TrackerRecords
<1>2. Weighed(j) /\ j.witness = k.witness \cup {v}
  <2>1. CASE v \in k.witness
    BY <2>1
  <2>2. CASE v \notin k.witness
    <3>1. /\ StakeOf(StakeThis, k.witness \cup {v}) = StakeOf(StakeThis, k.witness) + StakeThis[v]
          /\ StakeOf(StakeNext, k.witness \cup {v}) = StakeOf(StakeNext, k.witness) + StakeNext[v]
      BY <1>0, <1>1, <2>2, StakeAdds
    <3>2. StakeThis[v] \in Nat /\ StakeNext[v] \in Nat
      BY <1>0
    <3> QED BY <3>1, <3>2, <2>2, <1>1 DEF Weighed, TrackerRecords
  <2> QED BY <2>1, <2>2
<1>3. Approved(k, v) = IF Reached(j) /\ j.since = -1 THEN [j EXCEPT !.since = now] ELSE j
  BY DEF Approved
<1> HIDE DEF j
<1>4. CASE Reached(j) /\ j.since = -1
  <2>1. Approved(k, v) = [j EXCEPT !.since = now]
    BY <1>3, <1>4
  <2>2. Weighed([j EXCEPT !.since = now]) /\ [j EXCEPT !.since = now].witness = j.witness
        /\ [j EXCEPT !.since = now].since = now
    BY <1>2 DEF Weighed, TrackerRecords
  <2> QED BY <1>2, <2>1, <2>2 DEF Sound
<1>5. CASE ~(Reached(j) /\ j.since = -1)
  BY <1>2, <1>3, <1>5 DEF Sound
<1> QED BY <1>4, <1>5
\* The last approval of a validator is withdrawn; what has other witnesses stays.
LEMMA WithoutCounted ==
    ASSUME NEW at, NEW last \in [Validators -> Inners \cup {Nothing}], Counted(at, last),
           NEW v \in Validators
    PROVE  LET rest == Without(at, v, last[v]) IN
           /\ DOMAIN rest \subseteq DOMAIN at
           /\ \A x \in DOMAIN rest :
                 Sound(rest[x]) /\ rest[x].witness = {u \in Validators \ {v} : last[u] = x}
           /\ \A u \in Validators \ {v} : last[u] \in DOMAIN rest \cup {Nothing}
<1> DEFINE rest == Without(at, v, last[v])
           k    == Withdrawn(at[last[v]], v)
<1>1. CASE last[v] \notin DOMAIN at
  <2>1. rest = at
    BY <1>1 DEF Without
  <2>2. \A x \in DOMAIN at : {u \in Validators : last[u] = x} = {u \in Validators \ {v} : last[u] = x}
    BY <1>1
  <2> QED BY <2>1, <2>2 DEF Counted
<1>2. CASE last[v] \in DOMAIN at
  <2>1. Sound(k) /\ k.witness = {u \in Validators \ {v} : last[u] = last[v]}
    <3>1. Sound(at[last[v]]) /\ at[last[v]].witness = {u \in Validators : last[u] = last[v]}
      BY <1>2 DEF Counted
    <3>2. Sound(k) /\ k.witness = at[last[v]].witness \ {v}
      BY <3>1, WithdrawnSound
    <3> HIDE DEF k
    <3> QED BY <3>1, <3>2
  <2>2. ASSUME NEW x \in DOMAIN at, x # last[v]
        PROVE  Sound(at[x]) /\ at[x].witness = {u \in Validators \ {v} : last[u] = x}
    BY <2>2 DEF Counted
  <2>3. CASE k.witness = {}
    <3>1. rest = [x \in DOMAIN at \ {last[v]} |-> at[x]]
      BY <1>2, <2>3 DEF Without, Restrict
    <3>2. \A u \in Validators \ {v} : last[u] # last[v]
      <4> HIDE DEF k
      <4> QED BY <2>1, <2>3
    <3> HIDE DEF rest, k
    <3> QED BY <3>1, <3>2, <2>2 DEF Counted, rest
  <2>4. CASE k.witness # {}
    <3>1. rest = [at EXCEPT ![last[v]] = k]
      BY <1>2, <2>4 DEF Without
    <3>2. DOMAIN rest = DOMAIN at /\ rest[last[v]] = k
          /\ \A x \in DOMAIN at : x # last[v] => rest[x] = at[x]
      <4> HIDE DEF k, rest
      <4> QED BY <3>1, <1>2 DEF Counted
    <3> HIDE DEF rest, k
    <3>3. ASSUME NEW x \in DOMAIN rest
          PROVE  Sound(rest[x]) /\ rest[x].witness = {u \in Validators \ {v} : last[u] = x}
      <4>1. CASE x = last[v]
        BY <4>1, <3>2, <2>1
      <4>2. CASE x # last[v]
        BY <4>2, <3>2, <2>2
      <4> QED BY <4>1, <4>2
    <3> QED BY <3>2, <3>3 DEF Counted, rest
  <2> QED BY <2>3, <2>4
<1> QED BY <1>1, <1>2

\* Then the new one is counted, in a tracker that may be new.
LEMMA WithApprovalCounted ==
    ASSUME NEW at, NEW last \in [Validators -> Inners \cup {Nothing}], Counted(at, last),
           NEW v \in Validators, NEW inner \in Inners, now \in Nat
    PROVE  Counted(WithApproval(at, v, inner, last[v]), [last EXCEPT ![v] = inner])
<1> DEFINE rest == Without(at, v, last[v])
           k    == IF inner \in DOMAIN rest THEN rest[inner] ELSE NewTracker
           after == [x \in DOMAIN rest \cup {inner} |-> IF x = inner THEN Approved(k, v) ELSE rest[x]]
           newLast == [last EXCEPT ![v] = inner]
<1>1. WithApproval(at, v, inner, last[v]) = after
  BY DEF WithApproval
<1>2. /\ DOMAIN rest \subseteq DOMAIN at
      /\ \A x \in DOMAIN rest :
            Sound(rest[x]) /\ rest[x].witness = {u \in Validators \ {v} : last[u] = x}
      /\ \A u \in Validators \ {v} : last[u] \in DOMAIN rest \cup {Nothing}
  BY WithoutCounted
<1> HIDE DEF rest
<1>3. inner # Nothing
  BY DEF Inners, Nothing
<1>4. Weighed(k) /\ k.witness = {u \in Validators \ {v} : last[u] = inner}
  <2>1. CASE inner \in DOMAIN rest
    BY <2>1, <1>2 DEF Sound
  <2>2. CASE inner \notin DOMAIN rest
    <3>1. {u \in Validators \ {v} : last[u] = inner} = {}
      BY <2>2, <1>2, <1>3
    <3>2. StakeOf(StakeThis, {}) = 0 /\ StakeOf(StakeNext, {}) = 0
      BY StakeAdds, DoomslugAssumption
    <3> QED BY <2>2, <3>1, <3>2 DEF NewTracker, Weighed, TrackerRecords
  <2> QED BY <2>1, <2>2
<1> HIDE DEF k
<1>5. Sound(Approved(k, v)) /\ Approved(k, v).witness = k.witness \cup {v}
  BY <1>4, ApprovedSound
<1>6. /\ newLast[v] = inner /\ \A u \in Validators \ {v} : newLast[u] = last[u]
      /\ newLast \in [Validators -> Inners \cup {Nothing}]
  OBVIOUS
<1> HIDE DEF newLast
<1>7. DOMAIN after = DOMAIN rest \cup {inner} /\ after = [x \in DOMAIN after |-> after[x]]
  OBVIOUS
<1>8. ASSUME NEW x \in DOMAIN after
      PROVE  Sound(after[x]) /\ after[x].witness = {u \in Validators : newLast[u] = x}
  <2>1. CASE x = inner
    <3>1. after[x] = Approved(k, v)
      BY <2>1
    <3>2. {u \in Validators : newLast[u] = x} = {u \in Validators \ {v} : last[u] = inner} \cup {v}
      BY <2>1, <1>6
    <3> QED BY <3>1, <3>2, <1>4, <1>5
  <2>2. CASE x # inner
    <3>1. after[x] = rest[x] /\ x \in DOMAIN rest
      BY <2>2
    <3>2. {u \in Validators : newLast[u] = x} = {u \in Validators \ {v} : last[u] = x}
      BY <2>2, <1>6
    <3> QED BY <3>1, <3>2, <1>2
  <2> QED BY <2>1, <2>2
<1>9. DOMAIN after \subseteq Inners
  BY <1>2, <1>7 DEF Counted
<1>10. \A u \in Validators : newLast[u] \in DOMAIN after \cup {Nothing}
  BY <1>2, <1>6, <1>7
<1> HIDE DEF after
<1> QED BY <1>1, <1>7, <1>8, <1>9, <1>10 DEF Counted, newLast
\* Every step of the library counts each validator once per height.
LEMMA TrackersStep ==
    ASSUME TrackersInv, [DoomslugNext]_doomslugVars
    PROVE  TrackersInv'
<1> USE DEF TrackersInv
<1>1. ASSUME NEW v \in Validators, NEW inner \in Inners, NEW target \in Heights,
             OnApproval(v, inner, target)
      PROVE  TrackersInv'
  <2>1. /\ trackers' = [trackers EXCEPT ![target] =
                            WithApproval(trackers[target], v, inner, lastApproval[target][v])]
        /\ lastApproval' = [lastApproval EXCEPT ![target] =
                            [lastApproval[target] EXCEPT ![v] = inner]]
        /\ now' = now
    BY <1>1 DEF OnApproval, timerVars
  <2> DEFINE last == lastApproval[target]
             newAt == WithApproval(trackers[target], v, inner, last[v])
             newLast == [last EXCEPT ![v] = inner]
  <2>2. Counted(newAt, newLast)
    BY WithApprovalCounted
  <2>3. newLast \in [Validators -> Inners \cup {Nothing}]
    OBVIOUS
  <2> HIDE DEF newAt, newLast
  <2>4. /\ trackers'[target] = newAt /\ lastApproval'[target] = newLast
        /\ \A t \in Heights : t # target => trackers'[t] = trackers[t] /\ lastApproval'[t] = lastApproval[t]
        /\ trackers' = [t \in Heights |-> trackers'[t]]
        /\ lastApproval' \in [Heights -> [Validators -> Inners \cup {Nothing}]]
    BY <2>1, <2>3 DEF newAt, newLast
  <2>5. ASSUME NEW t \in Heights PROVE Counted(trackers'[t], lastApproval'[t])
    BY <2>2, <2>4
  <2>6. \A t \in Heights : Counted(trackers[t], lastApproval[t])'
    BY <2>5
  <2> QED BY <2>1, <2>4, <2>6
<1>2. ASSUME NEW h, NEW height \in Heights, NEW final, OnBlock(h, height, final)
      PROVE  TrackersInv'
  <2> DEFINE Kept(t) == t > Above0(height - HeightsBefore) /\ t <= height + HeightsAhead
             nothing == [v \in Validators |-> Nothing]
  <2>1. /\ trackers' = [t \in Heights |-> IF Kept(t) THEN trackers[t] ELSE <<>>]
        /\ lastApproval' = [t \in Heights |-> IF Kept(t) THEN lastApproval[t] ELSE nothing]
        /\ now' = now
    BY <1>2 DEF OnBlock
  <2>2. Counted(<<>>, nothing)
    BY DEF Counted
  <2>3. ASSUME NEW t \in Heights PROVE Counted(trackers[t], lastApproval[t])'
    <3>1. CASE Kept(t)
      <4>1. trackers'[t] = trackers[t] /\ lastApproval'[t] = lastApproval[t]
        BY <2>1, <3>1
      <4> QED BY <4>1
    <3>2. CASE ~Kept(t)
      <4>1. trackers'[t] = <<>> /\ lastApproval'[t] = nothing
        BY <2>1, <3>2
      <4> QED BY <4>1, <2>2 DEF Counted
    <3> QED BY <3>1, <3>2
  <2>4. lastApproval' \in [Heights -> [Validators -> Inners \cup {Nothing}]]
    BY <2>1
  <2> QED BY <2>1, <2>3, <2>4
<1>3. ASSUME UNCHANGED <<trackers, lastApproval>>, now' \in Nat
      PROVE  TrackersInv'
  BY <1>3
<1>4. CASE ProcessTimer
  BY <1>3, <1>4 DEF ProcessTimer
<1>5. CASE DoomslugClock
  BY <1>3, <1>5 DEF DoomslugClock
<1>6. CASE UNCHANGED doomslugVars
  BY <1>3, <1>6 DEF doomslugVars, timerVars
<1>7. /\ \A h \in BlockHashes : <<"endorse", h>> \in Inners
      /\ \A k \in Nat : <<"skip", k>> \in Inners
  BY DEF Inners
<1>8. ASSUME NEW v \in Validators, NEW target \in Heights, NEW h \in BlockHashes,
             OnApproval(v, <<"endorse", h>>, target)
      PROVE  TrackersInv'
  <2> HIDE DEF TrackersInv
  <2> QED BY <1>1, <1>7, <1>8
<1>9. ASSUME NEW v \in Validators, NEW target \in Heights, NEW k \in 0 .. target - 2,
             OnApproval(v, <<"skip", k>>, target)
      PROVE  TrackersInv'
  <2>1. k \in Nat
    OBVIOUS
  <2> HIDE DEF TrackersInv
  <2> QED BY <2>1, <1>1, <1>7, <1>9
<1> HIDE DEF TrackersInv
<1> QED BY <1>2, <1>4, <1>5, <1>6, <1>8, <1>9 DEF DoomslugNext

\* A tracker reaches its threshold exactly when its witnesses are enough to produce the block.
LEMMA ReachedIsProducible ==
    ASSUME RealStakes, NEW k, Weighed(k)
    PROVE  Reached(k) = CanBeProduced(k.witness)
<1> DEFINE p == StakeOf(StakeThis, Validators)
           n == StakeOf(StakeNext, Validators)
           tp == TwoThirds(StakeThis)
           tn == TwoThirds(StakeNext)
<1>1. StakeThis \in [Validators -> Nat] /\ StakeNext \in [Validators -> Nat]
  BY DoomslugAssumption
<1>2. /\ tp \in Nat /\ 3 * tp <= 2 * p /\ 2 * p < 3 * tp + 3
      /\ tn \in Nat /\ 3 * tn <= 2 * n /\ 2 * n < 3 * tn + 3
  BY <1>1, TwoThirdsIs
<1>3. p \in Nat /\ n \in Nat /\ p > 1 /\ n # 1
  BY <1>1, StakeAdds DEF RealStakes
<1>4. tp # 0 /\ (tn = 0 <=> n = 0)
  <2> HIDE DEF p, n, tp, tn
  <2> QED BY <1>2, <1>3
<1> QED BY <1>4 DEF Reached, CanBeProduced, Weighed

\* Two blocks of a height cannot both have more than two thirds of the stake.
LEMMA OneReached ==
    ASSUME NEW a, NEW b, Weighed(a), Weighed(b), a.witness \cap b.witness = {},
           Reached(a), Reached(b)
    PROVE  NoApprovals
<1> SUFFICES ASSUME ~NoApprovals PROVE FALSE
  OBVIOUS
<1> DEFINE p == StakeOf(StakeThis, Validators)
           tp == TwoThirds(StakeThis)
<1>1. StakeThis \in [Validators -> Nat]
  BY DoomslugAssumption
<1>2. tp \in Nat /\ 3 * tp <= 2 * p /\ 2 * p < 3 * tp + 3
  BY <1>1, TwoThirdsIs
<1>3. p \in Nat
  BY <1>1, StakeAdds
<1>4. a.approvedThis \in Nat /\ b.approvedThis \in Nat /\ a.approvedThis > tp /\ b.approvedThis > tp
  BY DEF Reached, Weighed, TrackerRecords
<1>5. a.approvedThis + b.approvedThis <= p
  <2>1. a.witness \in SUBSET Validators /\ b.witness \in SUBSET Validators
    BY DEF Weighed, TrackerRecords
  <2> QED BY <1>1, <2>1, StakeDisjoint DEF Weighed
<1> HIDE DEF p, tp
<1> QED BY <1>2, <1>3, <1>4, <1>5

\* What the trackers of a height say is right.
LEMMA TrackersSound ==
    ASSUME RealStakes, TrackersInv
    PROVE  OneBlockReady
<1> SUFFICES ASSUME NEW t \in Heights
    PROVE  /\ \A inner \in DOMAIN trackers[t] : LET k == trackers[t][inner] IN
                 /\ k.witness = {v \in Validators : lastApproval[t][v] = inner}
                 /\ k.approvedThis = StakeOf(StakeThis, k.witness)
                 /\ k.approvedNext = StakeOf(StakeNext, k.witness)
                 /\ Reached(k) = CanBeProduced(k.witness)
                 /\ Reached(k) => k.since >= 0
           /\ NoApprovals \/ \A a, b \in DOMAIN trackers[t] :
                 Reached(trackers[t][a]) /\ Reached(trackers[t][b]) => a = b
           /\ ReadyToProduce(t, FALSE) => ReadyToProduce(t, TRUE)
  BY DEF OneBlockReady
<1>1. Counted(trackers[t], lastApproval[t])
  BY DEF TrackersInv
<1>2. ASSUME NEW inner \in DOMAIN trackers[t]
      PROVE  LET k == trackers[t][inner] IN
                 /\ k.witness = {v \in Validators : lastApproval[t][v] = inner}
                 /\ k.approvedThis = StakeOf(StakeThis, k.witness)
                 /\ k.approvedNext = StakeOf(StakeNext, k.witness)
                 /\ Reached(k) = CanBeProduced(k.witness)
                 /\ Reached(k) => k.since >= 0
  <2>1. Sound(trackers[t][inner])
    BY <1>1 DEF Counted
  <2>2. Weighed(trackers[t][inner])
    BY <2>1 DEF Sound
  <2>3. Reached(trackers[t][inner]) = CanBeProduced(trackers[t][inner].witness)
    BY <2>2, ReachedIsProducible
  <2>4. Reached(trackers[t][inner]) => trackers[t][inner].since >= 0
    BY <2>1, <2>2 DEF Sound, Weighed, TrackerRecords
  <2> QED BY <1>1, <2>2, <2>3, <2>4 DEF Counted, Weighed
<1>3. ASSUME NEW a \in DOMAIN trackers[t], NEW b \in DOMAIN trackers[t],
             Reached(trackers[t][a]), Reached(trackers[t][b]), a # b
      PROVE  NoApprovals
  <2>1. Weighed(trackers[t][a]) /\ Weighed(trackers[t][b])
    BY <1>1 DEF Counted, Sound
  <2>2. trackers[t][a].witness \cap trackers[t][b].witness = {}
    BY <1>1, <1>3 DEF Counted
  <2> QED BY <1>3, <2>1, <2>2, OneReached
<1> QED BY <1>2, <1>3 DEF ReadyToProduce
-----------------------------------------------------------------------------
(* Doomslug's timer, as process_timer sees it in a round of its loop.      *)
Hashes == BlockHashes \cup {"genesis"}
ApprovalRecords == [inner : {<<"endorse", h>> : h \in Hashes} \cup {<<"skip", k>> : k \in Nat},
                    target : Nat]
TimerStates == [timer : [started : Nat, endorsed : Nat, height : Nat], target : Nat,
                pending : BOOLEAN, out : Seq(ApprovalRecords), ok : BOOLEAN, done : BOOLEAN]

InOrder(s) ==
    \A j \in DOMAIN s : s[j].inner[1] = "endorse" => \A i \in 1..j - 1 : s[i].target < s[j].target

(* An endorsement is due before the skip of the next height, the timer is  *)
(* ahead of the tip once anything was sent, and nothing that was sent is   *)
(* above largest_sent_target_height.                                       *)
TimerOk(s) ==
    /\ s \in TimerStates /\ s.ok
    /\ s.timer.endorsed <= now
    /\ s.pending => s.timer.endorsed <= s.timer.started /\ tip.height < s.timer.height
    /\ tip.height < s.timer.height \/ (tip.height = s.timer.height /\ s.out = <<>>)
    /\ \A i \in DOMAIN s.out : s.out[i].target <= s.target
    /\ InOrder(s.out)

TimerState == [timer |-> timer, target |-> sentTarget, pending |-> pendingEndorse,
               out |-> sent, ok |-> asserted, done |-> FALSE]
Clocked == now \in Nat /\ tip \in [hash : Hashes, height : Nat] /\ finalHeight \in Nat
TimerInv == Clocked /\ TimerOk(TimerState)

\* The delay of a skip, for any height, leaves time for the endorsement.
LEMMA DelayBounds ==
    ASSUME NEW n \in Int
    PROVE  GetDelay(n) \in Nat /\ GetDelay(n) >= 2 * EndorsementDelay
<1> DEFINE a == Above0(n - 2)
           d == DelayStep * a
<1>1. a \in Nat
  BY DEF Above0
<1>2. EndorsementDelay \in Nat /\ MinDelay \in Nat /\ DelayStep \in Nat /\ MaxDelay \in Nat
      /\ 2 * EndorsementDelay <= MinDelay /\ MinDelay <= MaxDelay
  BY DoomslugAssumption
<1> HIDE DEF a
<1>3. d \in Nat
  BY <1>1, <1>2
<1> HIDE DEF d
<1>4. GetDelay(n) = IF MaxDelay < MinDelay + d THEN MaxDelay ELSE MinDelay + d
  BY DEF GetDelay, Smaller, d, a
<1> QED BY <1>2, <1>3, <1>4

\* An endorsement goes to a height above all others, a skip to any.
LEMMA SendInOrder ==
    ASSUME NEW s \in Seq(ApprovalRecords), InOrder(s), NEW m \in Nat,
           \A i \in DOMAIN s : s[i].target <= m, NEW a \in ApprovalRecords, NEW n \in Nat,
           m <= n, a.target <= n, a.inner[1] = "endorse" => s = <<>> \/ m < a.target
    PROVE  /\ Append(s, a) \in Seq(ApprovalRecords) /\ InOrder(Append(s, a))
           /\ \A i \in DOMAIN Append(s, a) : Append(s, a)[i].target <= n
<1> DEFINE t == Append(s, a)
<1>1. /\ t \in Seq(ApprovalRecords) /\ Len(s) \in Nat
      /\ DOMAIN t = 1..Len(s) + 1 /\ DOMAIN s = 1..Len(s)
      /\ t[Len(s) + 1] = a /\ \A i \in 1..Len(s) : t[i] = s[i]
  BY AppendProperties, LenProperties
<1>2. a.target \in Nat /\ \A i \in 1..Len(s) : s[i].target \in Nat
  <2>1. \A i \in 1..Len(s) : s[i] \in ApprovalRecords
    BY ElementOfSeq
  <2> QED BY <2>1 DEF ApprovalRecords
<1>3. s = <<>> => Len(s) = 0
  OBVIOUS
<1> HIDE DEF t
<1>4. ASSUME NEW j \in DOMAIN t, t[j].inner[1] = "endorse", NEW i \in 1..j - 1
      PROVE  t[i].target < t[j].target
  <2>1. j \in 1..Len(s) + 1 /\ i \in 1..Len(s) /\ t[i] = s[i]
    BY <1>1
  <2>2. CASE j = Len(s) + 1
    <3>1. t[j] = a /\ Len(s) # 0 /\ s[i].target <= m
      BY <1>1, <2>1, <2>2
    <3>2. m < a.target
      BY <1>3, <1>4, <3>1
    <3> QED BY <3>1, <3>2, <2>1, <1>2
  <2>3. CASE j # Len(s) + 1
    <3>1. j \in 1..Len(s) /\ t[j] = s[j]
      BY <1>1, <2>1, <2>3
    <3> QED BY <3>1, <2>1, <1>1, <1>4 DEF InOrder
  <2> QED BY <2>2, <2>3
<1>5. ASSUME NEW i \in DOMAIN t PROVE t[i].target <= n
  <2>1. CASE i = Len(s) + 1
    BY <2>1, <1>1
  <2>2. CASE i # Len(s) + 1
    <3>1. i \in 1..Len(s)
      BY <2>2, <1>1
    <3>2. t[i] = s[i] /\ s[i].target <= m /\ s[i].target \in Nat
      BY <3>1, <1>1, <1>2
    <3> QED BY <3>2
  <2> QED BY <2>1, <2>2
<1>6. InOrder(t)
  BY <1>4 DEF InOrder
<1> QED BY <1>1, <1>5, <1>6 DEF t

\* What is sent for a target, by the tip.
LEMMA ApprovalOf ==
    ASSUME Clocked, NEW target \in Nat
    PROVE  /\ Approval(target) \in ApprovalRecords /\ Approval(target).target = target
           /\ Approval(target).inner[1] = IF target = tip.height + 1 THEN "endorse" ELSE "skip"
  BY DEF Clocked, Approval, ApprovalRecords, Inner
\* The endorsement is above everything sent, and afterwards none is due.
LEMMA EndorseOk ==
    ASSUME Clocked, NEW s, TimerOk(s)
    PROVE  /\ TimerOk(Endorse(s))
           /\ Endorse(s).pending => now < Endorse(s).timer.endorsed + EndorsementDelay
<1>0. /\ now \in Nat /\ tip.height \in Nat /\ EndorsementDelay \in Nat /\ s.target \in Nat
      /\ s \in TimerStates /\ s.timer \in [started : Nat, endorsed : Nat, height : Nat]
      /\ s.out \in Seq(ApprovalRecords)
  BY DoomslugAssumption DEF Clocked, TimerOk, TimerStates
<1> DEFINE t == [s EXCEPT !.timer.endorsed = now, !.pending = FALSE]
           a == Approval(tip.height + 1)
           u == [t EXCEPT !.target = tip.height + 1, !.out = Append(@, a)]
<1>1. CASE ~s.pending \/ now < s.timer.endorsed + EndorsementDelay
  <2>1. Endorse(s) = s
    BY <1>1 DEF Endorse
  <2> QED BY <1>1, <2>1
<1>2. CASE ~(~s.pending \/ now < s.timer.endorsed + EndorsementDelay)
  <2>1. Endorse(s) = IF tip.height < s.target THEN t ELSE u
    BY <1>2 DEF Endorse
  <2>2. /\ t \in TimerStates /\ t.ok = s.ok /\ ~t.pending /\ t.out = s.out /\ t.target = s.target
        /\ t.timer.endorsed = now /\ t.timer.started = s.timer.started
        /\ t.timer.height = s.timer.height
    BY <1>0 DEF TimerStates
  <2> HIDE DEF t
  <2>3. TimerOk(t)
    BY <1>0, <2>2 DEF TimerOk
  <2>4. ASSUME ~(tip.height < s.target) PROVE TimerOk(u) /\ ~u.pending
    <3>1. a \in ApprovalRecords /\ a.target = tip.height + 1
      BY <1>0, ApprovalOf
    <3> HIDE DEF a
    <3>2. tip.height + 1 \in Nat /\ s.target <= tip.height + 1 /\ s.target < a.target
      BY <1>0, <2>4, <3>1
    <3>3. InOrder(s.out) /\ \A i \in DOMAIN s.out : s.out[i].target <= s.target
      BY DEF TimerOk
    <3>4. /\ Append(s.out, a) \in Seq(ApprovalRecords) /\ InOrder(Append(s.out, a))
          /\ \A i \in DOMAIN Append(s.out, a) : Append(s.out, a)[i].target <= tip.height + 1
      <4> DEFINE n == tip.height + 1
                 q == s.out
                 m == s.target
      <4>1. /\ q \in Seq(ApprovalRecords) /\ InOrder(q) /\ m \in Nat /\ n \in Nat
            /\ \A i \in DOMAIN q : q[i].target <= m
        BY <1>0, <3>2, <3>3
      <4>2. m <= n /\ a.target <= n /\ m < a.target
        BY <3>1, <3>2
      <4> HIDE DEF n, q, m
      <4>3. /\ Append(q, a) \in Seq(ApprovalRecords) /\ InOrder(Append(q, a))
            /\ \A i \in DOMAIN Append(q, a) : Append(q, a)[i].target <= n
        BY <3>1, <4>1, <4>2, SendInOrder
      <4> QED BY <4>3 DEF n, q
    <3>5. /\ u \in TimerStates /\ u.ok = s.ok /\ ~u.pending /\ u.out = Append(s.out, a)
          /\ u.target = tip.height + 1 /\ u.timer = t.timer
      BY <2>2, <3>2, <3>4 DEF TimerStates
    <3> HIDE DEF u
    <3>6. tip.height < s.timer.height
      BY <1>2 DEF TimerOk
    <3> QED BY <1>0, <2>2, <3>4, <3>5, <3>6 DEF TimerOk
  <2> QED BY <2>1, <2>2, <2>3, <2>4
<1> QED BY <1>1, <1>2

\* A skip finds no endorsement pending: that was due at half the time at least.
LEMMA SkipOk ==
    ASSUME Clocked, NEW s, TimerOk(s), TimedOut(s),
           s.pending => now < s.timer.endorsed + EndorsementDelay
    PROVE  TimerOk(Skip(s))
<1>0. /\ now \in Nat /\ tip.height \in Nat /\ finalHeight \in Nat /\ EndorsementDelay \in Nat
      /\ s.target \in Nat /\ s \in TimerStates
      /\ s.timer \in [started : Nat, endorsed : Nat, height : Nat] /\ s.out \in Seq(ApprovalRecords)
  BY DoomslugAssumption DEF Clocked, TimerOk, TimerStates
<1> DEFINE d == SkipDelay(s)
           n == IF s.target > s.timer.height + 1 THEN s.target ELSE s.timer.height + 1
           a == Approval(s.timer.height + 1)
           u == Skip(s)
<1>1. d \in Nat /\ d >= 2 * EndorsementDelay
  <2>1. Above0(s.timer.height - finalHeight) \in Int
    BY <1>0 DEF Above0
  <2> QED BY <2>1, DelayBounds DEF SkipDelay
<1>2. now >= s.timer.started + d
  BY DEF TimedOut
<1> HIDE DEF d
<1>3. ~s.pending
  BY <1>0, <1>1, <1>2 DEF TimerOk
<1>4. s.timer.height + 1 \in Nat /\ n \in Nat /\ s.target <= n /\ s.timer.height + 1 <= n
  BY <1>0
<1>5. /\ a \in ApprovalRecords /\ a.target = s.timer.height + 1
      /\ a.inner[1] = IF s.timer.height + 1 = tip.height + 1 THEN "endorse" ELSE "skip"
  BY <1>4, ApprovalOf
<1> HIDE DEF a, n
<1>6. a.inner[1] = "endorse" => s.out = <<>>
  <2>1. tip.height < s.timer.height \/ s.out = <<>>
    BY DEF TimerOk
  <2>2. tip.height < s.timer.height => a.inner[1] = "skip"
    BY <1>0, <1>5
  <2> QED BY <2>1, <2>2
<1>7. InOrder(s.out) /\ \A i \in DOMAIN s.out : s.out[i].target <= s.target
  BY DEF TimerOk
<1>8. /\ Append(s.out, a) \in Seq(ApprovalRecords) /\ InOrder(Append(s.out, a))
      /\ \A i \in DOMAIN Append(s.out, a) : Append(s.out, a)[i].target <= n
  BY <1>0, <1>4, <1>5, <1>6, <1>7, SendInOrder
<1>9. u = [s EXCEPT !.target = n, !.out = Append(s.out, a), !.ok = s.ok /\ ~s.pending,
                    !.timer.started = s.timer.started + d, !.timer.height = s.timer.height + 1]
  BY <1>0 DEF Skip, n, a, d, TimerStates
<1>10. s.ok \in BOOLEAN /\ s.pending \in BOOLEAN /\ s.ok
  BY <1>0 DEF TimerOk, TimerStates
<1>11. /\ u \in TimerStates /\ u.ok /\ ~u.pending /\ u.out = Append(s.out, a) /\ u.target = n
       /\ u.timer.endorsed = s.timer.endorsed /\ u.timer.height = s.timer.height + 1
  <2> DEFINE q == Append(s.out, a)
             w == [s.timer EXCEPT !.started = s.timer.started + d, !.height = s.timer.height + 1]
  <2>1. q \in Seq(ApprovalRecords)
    BY <1>8
  <2>2. /\ w \in [started : Nat, endorsed : Nat, height : Nat]
        /\ w.endorsed = s.timer.endorsed /\ w.height = s.timer.height + 1
    <3>1. s.timer.started + d \in Nat
      BY <1>0, <1>1
    <3> DEFINE x == s.timer.started + d
               y == s.timer.height + 1
    <3>2. x \in Nat /\ y \in Nat
      BY <3>1, <1>4
    <3> HIDE DEF x, y
    <3> QED BY <1>0, <3>2 DEF x, y
  <2> HIDE DEF q
  <2>3. u = [s EXCEPT !.target = n, !.out = q, !.ok = s.ok /\ ~s.pending, !.timer = w]
    BY <1>0, <1>9 DEF TimerStates, q
  <2> HIDE DEF u, w
  <2>4. u \in TimerStates /\ u.ok /\ u.pending = s.pending /\ u.out = q /\ u.target = n /\ u.timer = w
    BY <1>0, <1>3, <1>4, <1>10, <2>1, <2>2, <2>3 DEF TimerStates
  <2> QED BY <2>2, <2>4, <1>3 DEF q
<1> HIDE DEF u
<1>12. tip.height < u.timer.height
  <2>1. tip.height <= s.timer.height
    BY <1>0 DEF TimerOk
  <2> QED BY <1>0, <1>11, <2>1
<1> QED BY <1>8, <1>11, <1>12 DEF TimerOk, u

\* A round of the loop of process_timer.
LEMMA RoundOk ==
    ASSUME Clocked, NEW s, TimerOk(s), NEW i
    PROVE  TimerOk(TimerRound(s, i))
<1> DEFINE t == [s EXCEPT !.ok = @ /\ SkipDelay(s) >= 2 * EndorsementDelay]
           e == Endorse(t)
<1>0. /\ finalHeight \in Nat /\ s \in TimerStates
      /\ s.timer \in [started : Nat, endorsed : Nat, height : Nat] /\ s.ok
  BY DEF Clocked, TimerOk, TimerStates
<1>1. SkipDelay(s) >= 2 * EndorsementDelay
  <2>1. Above0(s.timer.height - finalHeight) \in Int
    BY <1>0 DEF Above0
  <2> QED BY <2>1, DelayBounds DEF SkipDelay
<1>2. t = s
  <2>1. t = [s EXCEPT !.ok = s.ok]
    <3>1. (s.ok /\ SkipDelay(s) >= 2 * EndorsementDelay) = s.ok
      <4>1. s.ok \in BOOLEAN
        BY <1>0 DEF TimerStates
      <4> QED BY <4>1, <1>1
    <3> QED BY <3>1
  <2> QED BY <2>1, <1>0 DEF TimerStates
<1>3. TimerRound(s, i) = IF s.done THEN s
                         ELSE IF TimedOut(e) THEN Skip(e) ELSE [e EXCEPT !.done = TRUE]
  BY DEF TimerRound
<1> HIDE DEF t
<1>4. TimerOk(e) /\ (e.pending => now < e.timer.endorsed + EndorsementDelay)
  BY <1>2, EndorseOk
<1> HIDE DEF e
<1>5. TimerOk([e EXCEPT !.done = TRUE])
  <2>1. e \in TimerStates
    BY <1>4 DEF TimerOk
  <2> DEFINE f == [e EXCEPT !.done = TRUE]
  <2>2. /\ f \in TimerStates /\ f.timer = e.timer /\ f.target = e.target /\ f.pending = e.pending
        /\ f.out = e.out /\ f.ok = e.ok
    BY <2>1 DEF TimerStates
  <2> HIDE DEF f
  <2>3. TimerOk(f)
    BY <1>4, <2>2 DEF TimerOk
  <2> QED BY <2>3 DEF f
<1> QED BY <1>3, <1>4, <1>5, SkipOk
\* The loop of process_timer, as many rounds as there are.
LEMMA LoopOk ==
    ASSUME Clocked, TimerOk(TimerState)
    PROVE  TimerOk(FoldLeft(LAMBDA a, i : TimerRound(a, i), TimerState,
                            [i \in 1..MaxTimerIters |-> i]))
<1> DEFINE I   == 1..MaxTimerIters
           seq == [i \in I |-> i]
           Loop(G) == G = [s \in SUBSET (DOMAIN seq) |-> IF s = {} THEN TimerState
                               ELSE LET x == Max(s) IN TimerRound(G[s \ {x}], seq[x])]
           G == CHOOSE G : Loop(G)
<1>1. FoldLeft(LAMBDA a, i : TimerRound(a, i), TimerState, seq) = G[DOMAIN seq]
  BY DEF FoldLeft, MapThenFoldSet
<1>2. IsFiniteSet(I) /\ I \subseteq 0..MaxTimerIters /\ MaxTimerIters \in Nat
  <2>1. MaxTimerIters \in Nat
    BY DoomslugAssumption
  <2> QED BY <2>1, FS_Interval
<1>3. ASSUME NEW s \in SUBSET I, s # {} PROVE Max(s) \in s
  <2>1. s \subseteq 0..MaxTimerIters
    BY <1>2
  <2> HIDE DEF I
  <2> QED BY <1>2, <1>3, <2>1, MaxOf
<1>4. DOMAIN seq = I /\ \A x \in I : seq[x] = x
  OBVIOUS
<1>5. \E F : Loop(F)
  <2> DEFINE D == {s \in TimerStates : TimerOk(s)}
             pick == [s \in SUBSET I |-> Max(s)]
             op == [p \in I \X D |-> TimerRound(p[2], p[1])]
  <2>1. TimerState \in D
    BY DEF TimerOk
  <2>2. Picks(I, pick)
    BY <1>3 DEF Picks
  <2>3. op \in [I \X D -> D]
    BY RoundOk DEF TimerOk
  <2>4. PICK F \in [SUBSET I -> D] : FoldStep(I, F, TimerState, pick, op)
    <3> HIDE DEF I, D, pick, op
    <3> QED BY <1>2, <2>1, <2>2, <2>3, FoldExists
  <2>5. ASSUME NEW s \in SUBSET I, s # {}
        PROVE  F[s] = TimerRound(F[s \ {Max(s)}], seq[Max(s)])
    <3>1. F[s] = op[<<pick[s], F[s \ {pick[s]}]>>]
      BY <2>4, <2>5 DEF FoldStep
    <3>2. Max(s) \in I /\ F[s \ {Max(s)}] \in D /\ pick[s] = Max(s)
      BY <1>3, <2>4, <2>5
    <3>3. <<Max(s), F[s \ {Max(s)}]>> \in I \X D
      BY <3>2
    <3> QED BY <3>1, <3>2, <3>3, <1>4
  <2>6. F[{}] = TimerState /\ F = [s \in SUBSET I |-> F[s]]
    BY <2>4 DEF FoldStep
  <2> HIDE DEF seq
  <2>7. Loop(F)
    BY <2>5, <2>6, <1>4
  <2> QED BY <2>7
<1>6. Loop(G)
  <2> HIDE DEF Loop
  <2> QED BY <1>5
<1>7. G[{}] = TimerState
      /\ \A s \in SUBSET I : s # {} => G[s] = TimerRound(G[s \ {Max(s)}], seq[Max(s)])
  <2> HIDE DEF G, seq
  <2> QED BY <1>4, <1>6
<1> HIDE DEF G, Loop, seq
<1> DEFINE C == {s \in SUBSET I : ~TimerOk(G[s])}
<1>8. C = {}
  <2> SUFFICES ASSUME C # {} PROVE FALSE
    OBVIOUS
  <2>1. \A s \in SUBSET I : IsFiniteSet(s) /\ Cardinality(s) \in Nat
    BY <1>2, FS_Subset, FS_CardinalityType
  <2>2. PICK s \in C : \A u \in C : Cardinality(s) <= Cardinality(u)
    BY <2>1, SmallestSet
  <2>3. s # {}
    BY <1>7
  <2> DEFINE r == s \ {Max(s)}
  <2>4. r \in SUBSET I /\ Cardinality(r) = Cardinality(s) - 1
    BY <1>3, <2>1, <2>3, FS_RemoveElement
  <2>5. r \notin C
    <3>1. Cardinality(s) \in Nat
      BY <2>1
    <3> HIDE DEF C, r
    <3> QED BY <3>1, <2>2, <2>4
  <2>6. TimerOk(G[r])
    BY <2>4, <2>5
  <2>7. TimerOk(TimerRound(G[r], seq[Max(s)]))
    BY <2>6, RoundOk
  <2> QED BY <1>7, <2>3, <2>7
<1>9. TimerOk(G[DOMAIN seq])
  BY <1>4, <1>8
<1> QED BY <1>1, <1>9 DEF seq
\* Every step keeps the timer ahead of the tip and what was sent in order.
LEMMA TimerStep ==
    ASSUME TimerInv, [DoomslugNext]_doomslugVars
    PROVE  TimerInv'
<1>0. /\ now \in Nat /\ tip.height \in Nat /\ TimerState \in TimerStates
      /\ timer \in [started : Nat, endorsed : Nat, height : Nat]
      /\ sentTarget \in Nat /\ pendingEndorse \in BOOLEAN /\ sent \in Seq(ApprovalRecords)
  <2>1. now \in Nat /\ tip.height \in Nat /\ TimerState \in TimerStates
    BY DEF TimerInv, Clocked, TimerOk
  <2> QED BY <2>1 DEF TimerState, TimerStates
<1>1. ASSUME UNCHANGED <<timer, sentTarget, pendingEndorse, sent, asserted, tip, finalHeight>>,
             now' \in Nat, now <= now'
      PROVE  TimerInv'
  <2>1. TimerState' = TimerState
    BY <1>1 DEF TimerState
  <2>2. TimerState.timer.endorsed \in Nat
    BY <1>0 DEF TimerStates
  <2> HIDE DEF TimerState
  <2> QED BY <1>0, <1>1, <2>1, <2>2 DEF TimerInv, Clocked, TimerOk
<1>2. ASSUME NEW h \in BlockHashes, NEW height \in Heights,
             NEW final \in {finalHeight, tip.height}, OnBlock(h, height, final)
      PROVE  TimerInv'
  <2>1. /\ height > tip.height /\ tip' = [hash |-> h, height |-> height] /\ finalHeight' = final
        /\ timer' = [timer EXCEPT !.height = height + 1, !.started = now]
        /\ pendingEndorse' = TRUE
        /\ UNCHANGED <<now, sentTarget, sent, asserted>>
    BY <1>2 DEF OnBlock
  <2>2. height \in Nat /\ final \in Nat /\ height + 1 \in Nat
    BY <1>0 DEF Heights, TimerInv, Clocked
  <2>3. Clocked'
    BY <1>0, <2>1, <2>2 DEF Clocked, Hashes
  <2>4. /\ timer'.endorsed = timer.endorsed /\ timer'.started = now /\ timer'.height = height + 1
        /\ timer' \in [started : Nat, endorsed : Nat, height : Nat]
    BY <1>0, <2>1, <2>2
  <2>5. /\ TimerState'.timer = timer' /\ TimerState'.target = sentTarget
        /\ TimerState'.pending = TRUE /\ TimerState'.out = sent /\ TimerState'.ok = asserted
        /\ TimerState' \in TimerStates
    BY <1>0, <2>1, <2>4 DEF TimerState, TimerStates
  <2>6. /\ TimerState.timer = timer /\ TimerState.target = sentTarget
        /\ TimerState.out = sent /\ TimerState.ok = asserted
    BY DEF TimerState
  <2>7. /\ asserted /\ timer.endorsed <= now
        /\ \A i \in DOMAIN sent : sent[i].target <= sentTarget
        /\ InOrder(sent)
    BY <2>6 DEF TimerInv, TimerOk
  <2>8. tip'.height < timer'.height
    BY <2>1, <2>2, <2>4
  <2> HIDE DEF TimerState
  <2>9. TimerOk(TimerState)'
    BY <2>1, <2>4, <2>5, <2>7, <2>8 DEF TimerOk
  <2> QED BY <2>3, <2>9 DEF TimerInv
<1>3. CASE ProcessTimer
  <2> DEFINE s == FoldLeft(LAMBDA a, i : TimerRound(a, i), TimerState, [i \in 1..MaxTimerIters |-> i])
  <2>1. /\ timer' = s.timer /\ sentTarget' = s.target /\ pendingEndorse' = s.pending
        /\ sent' = s.out /\ asserted' = s.ok
        /\ UNCHANGED <<now, tip, finalHeight>>
    BY <1>3 DEF ProcessTimer, TimerState
  <2>2. TimerOk(s)
    BY LoopOk DEF TimerInv
  <2> HIDE DEF s
  <2>3. s \in TimerStates
    BY <2>2 DEF TimerOk
  <2>4. /\ TimerState'.timer = s.timer /\ TimerState'.target = s.target
        /\ TimerState'.pending = s.pending /\ TimerState'.out = s.out /\ TimerState'.ok = s.ok
        /\ TimerState' \in TimerStates
    BY <2>1, <2>3 DEF TimerState, TimerStates
  <2> HIDE DEF TimerState
  <2>5. TimerOk(TimerState)'
    BY <2>1, <2>2, <2>4 DEF TimerOk
  <2> QED BY <2>1, <2>5 DEF TimerInv, Clocked
<1>4. CASE DoomslugClock
  BY <1>0, <1>1, <1>4 DEF DoomslugClock
<1>5. CASE \E v \in Validators, target \in Heights :
              \/ \E h \in BlockHashes : OnApproval(v, <<"endorse", h>>, target)
              \/ \E k \in 0..target - 2 : OnApproval(v, <<"skip", k>>, target)
  <2>1. UNCHANGED <<now, timer, sentTarget, pendingEndorse, sent, asserted, tip, finalHeight>>
    BY <1>5 DEF OnApproval, timerVars
  <2> QED BY <1>0, <1>1, <2>1
<1>6. CASE UNCHANGED doomslugVars
  BY <1>0, <1>1, <1>6 DEF doomslugVars, timerVars
<1> HIDE DEF TimerInv
<1> QED BY <1>2, <1>3, <1>4, <1>5, <1>6 DEF DoomslugNext

\* Every validator counts once per height, no two blocks of a height are ready, and no
\* endorsement follows an approval of its height or a later one (pkg/doomslug), for any
\* stakes for which the thresholds are what they say.
THEOREM DoomslugSafeHolds ==
    ASSUME RealStakes
    PROVE  DoomslugSpec => []DoomslugSafe
<1>1. DoomslugInit => TrackersInv /\ TimerInv
  <2> SUFFICES ASSUME DoomslugInit PROVE TrackersInv /\ TimerInv
    OBVIOUS
  <2>1. TrackersInv
    BY DEF DoomslugInit, TrackersInv, Counted
  <2>2. Clocked
    BY DEF DoomslugInit, Clocked, Hashes
  <2>3. TimerState \in TimerStates
    <3>1. /\ timer \in [started : Nat, endorsed : Nat, height : Nat]
          /\ sentTarget \in Nat /\ pendingEndorse \in BOOLEAN /\ asserted \in BOOLEAN
      BY DEF DoomslugInit
    <3>2. sent \in Seq(ApprovalRecords)
      BY EmptySeq DEF DoomslugInit
    <3> QED BY <3>1, <3>2 DEF TimerState, TimerStates
  <2>4. TimerOk(TimerState)
    BY <2>3 DEF DoomslugInit, TimerState, TimerOk, InOrder
  <2> QED BY <2>1, <2>2, <2>4 DEF TimerInv
<1>2. TrackersInv /\ TimerInv /\ [DoomslugNext]_doomslugVars => (TrackersInv /\ TimerInv)'
  BY TrackersStep, TimerStep
<1>3. TrackersInv /\ TimerInv => DoomslugSafe
  BY TrackersSound DEF TimerInv, TimerOk, TimerState, InOrder, NeverEndorsesSkipped, DoomslugSafe
<1> QED BY <1>1, <1>2, <1>3, PTL DEF DoomslugSpec
-----------------------------------------------------------------------------
(* Listing: commit streams.                                                *)
NonEmptyOf(ch, st) == {h \in st : ch[h] > 0}

(* A commit stream r over the stored blocks st, of which p has not been    *)
(* told yet.  What it has is in order but for empty blocks, and a block    *)
(* with transactions that is still to be told lies beyond it.  It has every*)
(* block with transactions from where it starts: once it is open from the  *)
(* height asked for, before that from the first block it was told.         *)
StreamOk(r, ch, st, p) ==
    /\ r = [pc |-> r.pc, from |-> r.from, out |-> r.out]
    /\ r.out \in Seq(st)
    /\ \A i, j \in DOMAIN r.out : i < j => r.out[i] < r.out[j] \/ ch[r.out[j]] = 0
    /\ p # 0 /\ ch[p] > 0 => \A i \in DOMAIN r.out : r.out[i] < p
    /\ r.pc = "registered" /\ r.out # <<>> =>
          \A h \in NonEmptyOf(ch, st) \ {p} : r.out[1] <= h => \E i \in DOMAIN r.out : r.out[i] = h
    /\ r.pc = "open" =>
          \A h \in NonEmptyOf(ch, st) \ {p} : r.from <= h => \E i \in DOMAIN r.out : r.out[i] = h

(* Blocks above the height of the node have been passed over or committed  *)
(* before, and are empty; so a block with transactions is new when it is   *)
(* stored, and beyond everything else with transactions.                   *)
ChainOk(ch, c, st, p) ==
    /\ ch \in Seq(Nat) /\ c \in 0..Len(ch) /\ st \subseteq 1..Len(ch)
    /\ p = 0 \/ p \in st
    /\ \A h \in c + 1 .. Len(ch) : ch[h] = 0
    /\ p # 0 => \A h \in NonEmptyOf(ch, st) : h <= p

ListingInv ==
    /\ ChainOk(chain, confirmed, stored, pending)
    /\ streams = [s \in Streams |-> streams[s]]
    /\ \A s \in Streams : StreamOk(streams[s], chain, stored, pending)

\* The keys of a listing are those of the set, in ascending order.
LEMMA AscendingLists ==
    ASSUME NEW n \in Nat, NEW S \in SUBSET (1..n)
    PROVE  /\ Cardinality(S) \in Nat /\ DOMAIN Ascending(S) = 1..Cardinality(S)
           /\ Ascending(S) \in Seq(S) /\ Len(Ascending(S)) = Cardinality(S)
           /\ Enumerates(Ascending(S), S)
<1>1. IsFiniteSet(S) /\ S \subseteq Int
  <2>1. IsFiniteSet(1..n)
    BY FS_Interval
  <2>2. IsFiniteSet(S)
    BY <2>1, FS_Subset
  <2> QED BY <2>2
<1>2. Ascending(S) = ByRank(S)
  BY DEF Ascending, ByRank
<1>3. Cardinality(S) \in Nat /\ Enumerates(Ascending(S), S)
  BY <1>1, <1>2, RanksEnumerate
<1>4. Ascending(S) \in [1..Cardinality(S) -> S]
  BY <1>3 DEF Enumerates
<1>5. Ascending(S) \in Seq(S)
  BY <1>3, <1>4, SeqDef
<1>6. DOMAIN Ascending(S) = 1..Cardinality(S)
  BY <1>4
<1>7. Len(Ascending(S)) = Cardinality(S)
  BY <1>3, <1>5, <1>6, LenProperties
<1> QED BY <1>3, <1>5, <1>6, <1>7

(* The filter has the blocks at the positions at[1], at[2], ..., which are *)
(* those of the blocks from the height on, in order.                       *)
Selects(at, out, from) ==
    /\ at \in [DOMAIN SelectFrom(out, from) -> DOMAIN out]
    /\ \A j \in DOMAIN at : SelectFrom(out, from)[j] = out[at[j]]
    /\ \A j, k \in DOMAIN at : j < k => at[j] < at[k]
    /\ \A i \in DOMAIN out : from <= out[i] => \E j \in DOMAIN at : at[j] = i

\* The filter keeps the positions of the blocks from the height on, in order.
LEMMA SelectFromIs ==
    ASSUME NEW S, NEW out \in Seq(S), NEW from
    PROVE  /\ SelectFrom(out, from) \in Seq(S)
           /\ \E at : Selects(at, out, from)
<1> DEFINE I == {i \in DOMAIN out : out[i] >= from}
           at == Ascending(I)
<1>1. Len(out) \in Nat /\ DOMAIN out = 1..Len(out) /\ \A i \in DOMAIN out : out[i] \in S
  BY LenProperties, ElementOfSeq
<1>2. I \in SUBSET (1..Len(out)) /\ I \in SUBSET (DOMAIN out)
  BY <1>1
<1>3. \A i \in DOMAIN out : from <= out[i] => i \in I
  OBVIOUS
<1>4. SelectFrom(out, from) = [j \in DOMAIN at |-> out[at[j]]]
  BY DEF SelectFrom, Filtered
<1> HIDE DEF I
<1>5. Cardinality(I) \in Nat /\ DOMAIN at = 1..Cardinality(I) /\ Enumerates(at, I)
  BY <1>1, <1>2, AscendingLists
<1>6. /\ at \in [DOMAIN at -> DOMAIN out]
      /\ \A j, k \in DOMAIN at : j < k => at[j] < at[k]
      /\ \A i \in I : \E j \in DOMAIN at : at[j] = i
  BY <1>2, <1>5 DEF Enumerates
<1> HIDE DEF at
<1>7. SelectFrom(out, from) \in [1..Cardinality(I) -> S]
  BY <1>1, <1>4, <1>5, <1>6
<1>8. SelectFrom(out, from) \in Seq(S)
  BY <1>5, <1>7, SeqDef
<1>9. DOMAIN SelectFrom(out, from) = DOMAIN at /\ \A j \in DOMAIN at : SelectFrom(out, from)[j] = out[at[j]]
  BY <1>4
<1>10. Selects(at, out, from)
  BY <1>3, <1>6, <1>9 DEF Selects
<1> QED BY <1>8, <1>10

\* A block is stored: a stream keeps what it has.
LEMMA StreamStored ==
    ASSUME NEW r, NEW ch, NEW st \in SUBSET (Nat \ {0}), NEW h \in Nat \ {0}, NEW ch2,
           StreamOk(r, ch, st, 0), \A k \in st : ch2[k] = ch[k],
           h \in st => ch2[h] = 0, h \notin st => \A k \in st : k < h \/ ch2[h] = 0
    PROVE  StreamOk(r, ch2, st \cup {h}, h)
<1> USE DEF StreamOk, NonEmptyOf
<1>1. r.out \in Seq(st)
  OBVIOUS
<1>2. r.out \in Seq(st \cup {h}) /\ \A i \in DOMAIN r.out : r.out[i] \in st
  BY <1>1, SeqMonotonic, LenProperties, ElementOfSeq
<1>3. \A i, j \in DOMAIN r.out : i < j => r.out[i] < r.out[j] \/ ch2[r.out[j]] = 0
  BY <1>2
<1>4. h # 0 /\ ch2[h] > 0 => \A i \in DOMAIN r.out : r.out[i] < h
  BY <1>2
<1>5. \A k \in NonEmptyOf(ch2, st \cup {h}) \ {h} : k \in NonEmptyOf(ch, st) \ {0}
  OBVIOUS
<1>6. r.out # <<>> => 1 \in DOMAIN r.out
  BY <1>1, LenProperties, EmptySeq
<1> QED BY <1>2, <1>3, <1>4, <1>5, <1>6

\* The chain grows without a new stored block.
LEMMA StreamKeeps ==
    ASSUME NEW r, NEW ch, NEW st \in SUBSET Nat, NEW p, p = 0 \/ p \in st, NEW ch2,
           StreamOk(r, ch, st, p), \A k \in st : ch2[k] = ch[k]
    PROVE  StreamOk(r, ch2, st, p)
<1> USE DEF StreamOk, NonEmptyOf
<1>1. r.out \in Seq(st)
  OBVIOUS
<1>2. \A i \in DOMAIN r.out : r.out[i] \in st
  BY <1>1, LenProperties, ElementOfSeq
<1> QED BY <1>1, <1>2

\* A stream that has nothing yet.
LEMMA StreamNew ==
    ASSUME NEW r, NEW ch, NEW st, NEW p, r.pc # "open", r.out = <<>>,
           r = [pc |-> r.pc, from |-> r.from, out |-> r.out]
    PROVE  StreamOk(r, ch, st, p)
BY EmptySeq DEF StreamOk

\* The listeners are told of the pending block.
LEMMA StreamTold ==
    ASSUME NEW r, NEW ch, NEW st \in SUBSET (Nat \ {0}), NEW p \in st, \A k \in st : ch[k] \in Nat,
           StreamOk(r, ch, st, p), \A k \in NonEmptyOf(ch, st) : k <= p
    PROVE  StreamOk(Sent(r, p), ch, st, 0)
<1>1. /\ r.out \in Seq(st) /\ Len(r.out) \in Nat /\ DOMAIN r.out = 1..Len(r.out)
      /\ \A i \in DOMAIN r.out : r.out[i] \in st
  BY LenProperties, ElementOfSeq DEF StreamOk
<1> DEFINE out == Append(r.out, p)
<1>2. /\ out \in Seq(st) /\ DOMAIN out = 1..Len(r.out) + 1 /\ out[Len(r.out) + 1] = p
      /\ \A i \in DOMAIN r.out : out[i] = r.out[i]
  BY <1>1, AppendProperties
<1>3. \A i, j \in DOMAIN out : i < j => out[i] < out[j] \/ ch[out[j]] = 0
  <2> SUFFICES ASSUME NEW i \in DOMAIN out, NEW j \in DOMAIN out, i < j
               PROVE  out[i] < out[j] \/ ch[out[j]] = 0
    OBVIOUS
  <2> HIDE DEF out
  <2>1. i \in DOMAIN r.out
    BY <1>1, <1>2
  <2>2. CASE j \in DOMAIN r.out
    BY <1>2, <2>1, <2>2 DEF StreamOk
  <2>3. CASE j = Len(r.out) + 1
    <3>1. p # 0 /\ (ch[p] > 0 \/ ch[p] = 0)
      OBVIOUS
    <3> QED BY <1>2, <2>1, <2>3, <3>1 DEF StreamOk
  <2> QED BY <1>1, <1>2, <2>2, <2>3
<1>4. \E i \in DOMAIN out : out[i] = p
  BY <1>1, <1>2
<1>5. \A h : (\E i \in DOMAIN r.out : r.out[i] = h) => \E i \in DOMAIN out : out[i] = h
  BY <1>1, <1>2
<1>6. CASE r.pc = "registered"
  <2>1. Sent(r, p) = [pc |-> r.pc, from |-> r.from, out |-> out]
    BY <1>6 DEF Sent, StreamOk
  <2>2. ASSUME NEW h \in NonEmptyOf(ch, st) \ {0}, out[1] <= h PROVE \E i \in DOMAIN out : out[i] = h
    <3>1. CASE h = p
      BY <1>4, <3>1
    <3>2. CASE h # p /\ r.out # <<>>
      <4>1. 1 \in DOMAIN r.out
        BY <1>1, <3>2, EmptySeq
      <4>2. r.out[1] <= h
        BY <1>2, <2>2, <4>1
      <4> HIDE DEF out
      <4> QED BY <1>5, <1>6, <3>2, <4>2 DEF StreamOk
    <3>3. CASE h # p /\ r.out = <<>>
      <4>1. out[1] = p
        BY <1>2, <3>3, EmptySeq
      <4>2. h <= p /\ p <= h /\ h \in Nat /\ p \in Nat
        BY <2>2, <4>1 DEF NonEmptyOf
      <4> QED BY <3>3, <4>2
    <3> QED BY <3>1, <3>2, <3>3
  <2> HIDE DEF out
  <2> QED BY <1>2, <1>3, <1>6, <2>1, <2>2 DEF StreamOk
<1>7. CASE r.pc = "open" /\ p >= r.from
  <2>1. Sent(r, p) = [pc |-> r.pc, from |-> r.from, out |-> out]
    BY <1>7 DEF Sent, StreamOk
  <2>2. ASSUME NEW h \in NonEmptyOf(ch, st) \ {0}, r.from <= h PROVE \E i \in DOMAIN out : out[i] = h
    <3>1. CASE h = p
      BY <1>4, <3>1
    <3>2. CASE h # p
      <4> HIDE DEF out
      <4> QED BY <1>5, <1>7, <2>2, <3>2 DEF StreamOk
    <3> QED BY <3>1, <3>2
  <2> HIDE DEF out
  <2> QED BY <1>2, <1>3, <1>7, <2>1, <2>2 DEF StreamOk
<1>8. CASE r.pc # "registered" /\ ~(r.pc = "open" /\ p >= r.from)
  <2>1. Sent(r, p) = r
    BY <1>8 DEF Sent
  <2>2. ASSUME r.pc = "open", NEW h \in NonEmptyOf(ch, st), r.from <= h PROVE h # p
    BY <1>8, <2>2
  <2> QED BY <1>8, <2>1, <2>2 DEF StreamOk
<1> QED BY <1>6, <1>7, <1>8

\* After the first commit the stream lists what is stored below that block.
LEMMA StreamOpened ==
    ASSUME NEW r, NEW n \in Nat, NEW ch, stored \in SUBSET (1..n), NEW p, p = 0 \/ p \in stored,
           \A k \in stored : ch[k] \in Nat,
           StreamOk(r, ch, stored, p), r.pc = "registered", r.out # <<>>
    PROVE  StreamOk(Opened(r), ch, stored, p)
<1> DEFINE low == {h \in stored : r.from <= h /\ h < Head(r.out)}
           a   == Ascending(low)
           b   == SelectFrom(r.out, r.from)
           out == a \o b
<1>0. \A h \in stored : h \in Nat
  <2>1. \A h \in stored : h \in 1..n
    OBVIOUS
  <2>2. \A h \in 1..n : h \in Nat
    OBVIOUS
  <2> QED BY ONLY <2>1, <2>2
<1>1. /\ r.out \in Seq(stored) /\ Len(r.out) \in Nat /\ DOMAIN r.out = 1..Len(r.out)
      /\ \A i \in DOMAIN r.out : r.out[i] \in stored
      /\ 1 \in DOMAIN r.out /\ Head(r.out) = r.out[1]
  <2>1. r.out \in Seq(stored)
    BY DEF StreamOk
  <2> QED BY <2>1, LenProperties, ElementOfSeq, EmptySeq, HeadTailProperties
<1>2. low \in SUBSET (1..n) /\ low \in SUBSET stored
  OBVIOUS
<1>3. Opened(r) = [pc |-> "open", from |-> r.from, out |-> out]
  <2>1. r = [pc |-> r.pc, from |-> r.from, out |-> r.out]
    BY DEF StreamOk
  <2>2. Opened(r) = [r EXCEPT !.pc = "open", !.out = out]
    BY DEF Opened
  <2> HIDE DEF out
  <2> QED BY <2>1, <2>2
<1>4. \A h \in low : r.from <= h /\ h < r.out[1] /\ h \in stored
  BY <1>1
<1>5. \A h \in stored : r.from <= h /\ h < r.out[1] => h \in low
  BY <1>1
<1> HIDE DEF low
<1>6. /\ a \in Seq(stored) /\ Len(a) \in Nat /\ DOMAIN a = 1..Len(a)
      /\ \A i \in DOMAIN a : a[i] \in low
      /\ \A h \in low : \E i \in DOMAIN a : a[i] = h
      /\ \A i, j \in DOMAIN a : i < j => a[i] < a[j]
  <2>1. /\ Cardinality(low) \in Nat /\ DOMAIN a = 1..Cardinality(low)
        /\ a \in Seq(low) /\ Len(a) = Cardinality(low) /\ Enumerates(a, low)
    BY <1>2, AscendingLists
  <2> HIDE DEF a
  <2>2. a \in Seq(stored)
    BY <1>2, <2>1, SeqMonotonic
  <2> QED BY <2>1, <2>2 DEF Enumerates
<1>7. b \in Seq(stored) /\ Len(b) \in Nat /\ DOMAIN b = 1..Len(b)
  BY <1>1, SelectFromIs, LenProperties
<1>8. PICK at : /\ at \in [DOMAIN b -> DOMAIN r.out]
                /\ \A j \in DOMAIN at : b[j] = r.out[at[j]]
                /\ \A j, k \in DOMAIN at : j < k => at[j] < at[k]
                /\ \A i \in DOMAIN r.out : r.from <= r.out[i] => \E j \in DOMAIN at : at[j] = i
  <2>1. PICK at : Selects(at, r.out, r.from)
    BY <1>1, SelectFromIs
  <2> QED BY <2>1 DEF Selects
<1> HIDE DEF a, b
<1>9. /\ out \in Seq(stored) /\ Len(out) = Len(a) + Len(b) /\ DOMAIN out = 1..Len(a) + Len(b)
      /\ \A i \in DOMAIN a : i \in DOMAIN out /\ out[i] = a[i]
      /\ \A j \in DOMAIN b : Len(a) + j \in DOMAIN out /\ out[Len(a) + j] = b[j]
      /\ \A i \in DOMAIN out : i \in DOMAIN a \/ (i - Len(a) \in DOMAIN b /\ out[i] = b[i - Len(a)])
  <2>1. /\ out \in Seq(stored) /\ Len(out) = Len(a) + Len(b)
        /\ \A i \in 1..Len(a) + Len(b) : out[i] = IF i <= Len(a) THEN a[i] ELSE b[i - Len(a)]
    BY <1>6, <1>7, ConcatProperties
  <2>2. DOMAIN out = 1..Len(a) + Len(b)
    BY <2>1, LenProperties
  <2> HIDE DEF out
  <2> QED BY <1>6, <1>7, <2>1, <2>2
<1> HIDE DEF out
<1>10. ASSUME NEW i \in DOMAIN out, NEW j \in DOMAIN out, i < j
       PROVE  out[i] < out[j] \/ ch[out[j]] = 0
  <2>1. i \in Int /\ j \in Int
    BY <1>6, <1>7, <1>9
  <2>2. CASE j \in DOMAIN a
    BY <1>6, <1>9, <1>10, <2>1, <2>2
  <2>3. CASE i \in DOMAIN a /\ j \notin DOMAIN a
    <3>1. j - Len(a) \in DOMAIN b /\ out[j] = r.out[at[j - Len(a)]] /\ at[j - Len(a)] \in DOMAIN r.out
      BY <1>8, <1>9, <2>3
    <3>2. out[i] < r.out[1] /\ out[i] \in Nat
      BY <1>0, <1>4, <1>6, <1>9, <2>3
    <3> DEFINE k == at[j - Len(a)]
    <3>3. k \in DOMAIN r.out /\ out[j] = r.out[k]
      BY <3>1
    <3> HIDE DEF k
    <3>4. CASE k = 1
      BY <3>2, <3>3, <3>4
    <3>5. CASE k # 1
      <4>1. 1 < k
        BY <1>1, <3>3, <3>5
      <4>2. r.out[1] < r.out[k] \/ ch[r.out[k]] = 0
        BY <1>1, <3>3, <4>1 DEF StreamOk
      <4>3. r.out[1] \in Nat /\ r.out[k] \in Nat
        BY <1>0, <1>1, <3>3
      <4> QED BY <3>2, <3>3, <4>2, <4>3
    <3> QED BY <3>4, <3>5
  <2>4. CASE i \notin DOMAIN a /\ j \notin DOMAIN a
    <3> DEFINE k == i - Len(a)
               l == j - Len(a)
    <3>1. k \in DOMAIN b /\ l \in DOMAIN b /\ out[i] = b[k] /\ out[j] = b[l] /\ k < l
      BY <1>6, <1>9, <1>10, <2>1, <2>4
    <3> HIDE DEF k, l
    <3>2. at[k] \in DOMAIN r.out /\ at[l] \in DOMAIN r.out /\ at[k] < at[l]
      BY <1>8, <3>1
    <3>3. out[i] = r.out[at[k]] /\ out[j] = r.out[at[l]]
      BY <1>8, <3>1
    <3> QED BY <3>2, <3>3 DEF StreamOk
  <2> QED BY <1>6, <1>9, <2>1, <2>2, <2>3, <2>4
<1>11. ASSUME p # 0, ch[p] > 0, NEW i \in DOMAIN out PROVE out[i] < p
  <2>1. \A k \in DOMAIN r.out : r.out[k] < p
    BY <1>11 DEF StreamOk
  <2>2. CASE i \in DOMAIN a
    <3>1. out[i] < r.out[1] /\ r.out[1] < p
      BY <1>1, <1>4, <1>6, <1>9, <2>1, <2>2
    <3>2. out[i] \in Nat /\ r.out[1] \in Nat /\ p \in Nat
      BY <1>0, <1>1, <1>4, <1>6, <1>9, <1>11, <2>2
    <3> QED BY <3>1, <3>2
  <2>3. CASE i \notin DOMAIN a
    <3>1. i - Len(a) \in DOMAIN b /\ out[i] = r.out[at[i - Len(a)]] /\ at[i - Len(a)] \in DOMAIN r.out
      BY <1>8, <1>9, <2>3
    <3> QED BY <2>1, <3>1
  <2> QED BY <2>2, <2>3
<1>12. ASSUME NEW h \in NonEmptyOf(ch, stored) \ {p}, r.from <= h PROVE \E i \in DOMAIN out : out[i] = h
  <2>1. h \in stored /\ h \in Nat /\ r.out[1] \in Nat
    BY <1>0, <1>1 DEF NonEmptyOf
  <2>2. CASE h < r.out[1]
    <3>1. PICK i \in DOMAIN a : a[i] = h
      BY <1>5, <1>6, <1>12, <2>1, <2>2
    <3> QED BY <1>9, <3>1
  <2>3. CASE r.out[1] <= h
    <3>1. PICK i \in DOMAIN r.out : r.out[i] = h
      BY <2>3 DEF StreamOk
    <3>2. PICK j \in DOMAIN at : at[j] = i
      BY <1>8, <1>12, <3>1
    <3>3. j \in DOMAIN b /\ b[j] = h
      BY <1>8, <3>1, <3>2
    <3> QED BY <1>9, <3>3
  <2> QED BY <2>1, <2>2, <2>3
<1> QED BY <1>3, <1>9, <1>10, <1>11, <1>12 DEF StreamOk

\* The height moves to the next block, new or passed before.
LEMMA GrowChain ==
    ASSUME ChainOk(chain, confirmed, stored, pending), NEW n \in Nat, Grow(n)
    PROVE  /\ chain' \in Seq(Nat) /\ Len(chain) <= Len(chain') /\ confirmed' = confirmed + 1
           /\ confirmed' \in 1..Len(chain')
           /\ \A h \in 1..Len(chain) : chain'[h] = chain[h]
           /\ \A h \in confirmed' + 1 .. Len(chain') : chain'[h] = 0
           /\ chain'[confirmed'] = 0 \/ confirmed = Len(chain)
<1>1. chain \in Seq(Nat) /\ Len(chain) \in Nat /\ confirmed \in 0..Len(chain)
      /\ confirmed' = confirmed + 1 /\ \A h \in confirmed + 1 .. Len(chain) : chain[h] = 0
  BY LenProperties DEF ChainOk, Grow
<1>2. CASE confirmed < Len(chain)
  BY <1>1, <1>2 DEF Grow
<1>3. CASE confirmed = Len(chain)
  <2>1. chain' = Append(chain, n)
    BY <1>1, <1>3 DEF Grow
  <2>2. chain' \in Seq(Nat) /\ Len(chain') = Len(chain) + 1 /\ \A h \in 1..Len(chain) : chain'[h] = chain[h]
    BY <1>1, <2>1, AppendProperties
  <2> QED BY <1>1, <1>3, <2>2
<1> QED BY <1>1, <1>2, <1>3

\* No step makes a stream miss a block or repeat one that has transactions.
LEMMA ListingStep ==
    ASSUME ListingInv, [ListingNext]_listingVars
    PROVE  ListingInv'
<1>0. /\ ChainOk(chain, confirmed, stored, pending) /\ streams = [s \in Streams |-> streams[s]]
      /\ \A s \in Streams : StreamOk(streams[s], chain, stored, pending)
  BY DEF ListingInv
<1>1. /\ chain \in Seq(Nat) /\ Len(chain) \in Nat /\ confirmed \in 0..Len(chain)
      /\ stored \in SUBSET (1..Len(chain)) /\ stored \in SUBSET (Nat \ {0}) /\ stored \in SUBSET Nat
      /\ \A h \in stored : chain[h] \in Nat
      /\ pending = 0 \/ pending \in stored
  <2>1. chain \in Seq(Nat) /\ Len(chain) \in Nat
    BY <1>0, LenProperties DEF ChainOk
  <2>2. confirmed \in 0..Len(chain) /\ stored \in SUBSET (1..Len(chain)) /\ (pending = 0 \/ pending \in stored)
    BY <1>0 DEF ChainOk
  <2> QED BY <2>1, <2>2, ElementOfSeq
<1>2. Closed = [pc |-> Closed.pc, from |-> Closed.from, out |-> Closed.out] /\ Closed.pc # "open" /\ Closed.out = <<>>
  BY DEF Closed
<1>3. \A ch, st, p : StreamOk(Closed, ch, st, p)
  BY <1>2, StreamNew
<1>4. ASSUME NEW n \in Nat, CommitStore(n) PROVE ListingInv'
  <2>1. /\ pending = 0 /\ Grow(n) /\ stored' = stored \cup {confirmed'} /\ pending' = confirmed'
        /\ streams' = streams
    BY <1>4 DEF CommitStore, Grow
  <2>2. /\ chain' \in Seq(Nat) /\ Len(chain) <= Len(chain') /\ confirmed' = confirmed + 1
        /\ confirmed' \in 1..Len(chain')
        /\ \A h \in 1..Len(chain) : chain'[h] = chain[h]
        /\ \A h \in confirmed' + 1 .. Len(chain') : chain'[h] = 0
        /\ chain'[confirmed'] = 0 \/ confirmed = Len(chain)
    BY <1>0, <2>1, GrowChain
  <2>3. Len(chain') \in Nat /\ confirmed' \in Nat \ {0}
    BY <2>2, LenProperties
  <2>4. stored' \subseteq 1..Len(chain')
    BY <1>1, <2>1, <2>2, <2>3
  <2>5. \A h \in NonEmptyOf(chain', stored') : h <= confirmed'
    BY <2>2, <2>3, <2>4 DEF NonEmptyOf
  <2>6. ChainOk(chain', confirmed', stored', pending')
    <3>1. confirmed' \in 0..Len(chain') /\ pending' \in stored'
      BY <2>1, <2>2, <2>3
    <3>2. \A h \in NonEmptyOf(chain', stored') : h <= pending'
      BY <2>1, <2>5
    <3> QED BY <2>2, <2>4, <3>1, <3>2 DEF ChainOk
  <2>7. \A s \in Streams : StreamOk(streams[s], chain', stored \cup {confirmed'}, confirmed')
    <3>1. \A k \in stored : chain'[k] = chain[k]
      BY <1>1, <2>2
    <3>2. confirmed' \in stored => chain'[confirmed'] = 0
      BY <1>1, <2>2
    <3>3. \A k \in stored : k < confirmed' \/ chain'[confirmed'] = 0
      BY <1>1, <2>2
    <3>4. \A s \in Streams : StreamOk(streams[s], chain, stored, 0)
      BY <1>0, <2>1
    <3> QED BY <1>1, <2>3, <3>1, <3>2, <3>3, <3>4, StreamStored
  <2> QED BY <1>0, <2>1, <2>6, <2>7 DEF ListingInv
<1>5. ASSUME NEW n \in Nat, FastForward(n) PROVE ListingInv'
  <2>1. Grow(n) /\ stored' = stored /\ pending' = pending /\ streams' = streams
    BY <1>5 DEF FastForward
  <2>2. /\ chain' \in Seq(Nat) /\ Len(chain) <= Len(chain') /\ confirmed' \in 1..Len(chain')
        /\ \A h \in 1..Len(chain) : chain'[h] = chain[h]
        /\ \A h \in confirmed' + 1 .. Len(chain') : chain'[h] = 0
    BY <1>0, <2>1, GrowChain
  <2>3. Len(chain') \in Nat /\ stored \subseteq 1..Len(chain') /\ \A k \in stored : chain'[k] = chain[k]
    BY <1>1, <2>2, LenProperties
  <2>4. NonEmptyOf(chain', stored) = NonEmptyOf(chain, stored)
    BY <2>3 DEF NonEmptyOf
  <2>5. ChainOk(chain', confirmed', stored', pending')
    BY <1>0, <1>1, <2>1, <2>2, <2>3, <2>4 DEF ChainOk
  <2>6. \A s \in Streams : StreamOk(streams[s], chain', stored, pending)
    BY <1>0, <1>1, <2>3, StreamKeeps
  <2> QED BY <1>0, <2>1, <2>5, <2>6 DEF ListingInv
<1>6. CASE CommitNotify
  <2>1. /\ pending # 0 /\ streams' = [s \in Streams |-> Sent(streams[s], pending)] /\ pending' = 0
        /\ chain' = chain /\ confirmed' = confirmed /\ stored' = stored
    BY <1>6 DEF CommitNotify
  <2>2. ChainOk(chain', confirmed', stored', pending')
    BY <1>0, <2>1 DEF ChainOk
  <2>3. \A s \in Streams : StreamOk(Sent(streams[s], pending), chain, stored, 0)
    <3>1. pending \in stored /\ \A k \in NonEmptyOf(chain, stored) : k <= pending
      BY <1>0, <1>1, <2>1 DEF ChainOk
    <3> QED BY <1>0, <1>1, <3>1, StreamTold
  <2> QED BY <2>1, <2>2, <2>3 DEF ListingInv
<1>7. ASSUME NEW h \in Int, 0 <= h, FastBack(h) PROVE ListingInv'
  <2>1. /\ h < confirmed /\ (\A k \in h + 1 .. confirmed : chain[k] = 0) /\ confirmed' = h
        /\ chain' = chain /\ stored' = stored /\ pending' = pending /\ streams' = streams
    BY <1>7 DEF FastBack
  <2>2. \A k \in h + 1 .. Len(chain) : chain[k] = 0
    BY <1>0, <1>1, <1>7, <2>1 DEF ChainOk
  <2>3. ChainOk(chain', confirmed', stored', pending')
    BY <1>0, <1>1, <1>7, <2>1, <2>2 DEF ChainOk
  <2> QED BY <1>0, <2>1, <2>3 DEF ListingInv
<1>8. CASE Restart
  <2>1. /\ pending' = 0 /\ streams' = [s \in Streams |-> Closed]
        /\ chain' = chain /\ confirmed' = confirmed /\ stored' = stored
    BY <1>8 DEF Restart
  <2>2. ChainOk(chain', confirmed', stored', pending')
    BY <1>0, <2>1 DEF ChainOk
  <2> QED BY <1>3, <2>1, <2>2 DEF ListingInv
\* The other steps change at most one stream.
<1>9. ASSUME NEW t \in Streams, NEW r, StreamOk(r, chain, stored, pending),
             streams' = [streams EXCEPT ![t] = r], UNCHANGED <<chain, confirmed, stored, pending>>
      PROVE  ListingInv'
  <2>1. streams' = [s \in Streams |-> IF s = t THEN r ELSE streams[s]]
    BY <1>0, <1>9
  <2>2. \A s \in Streams : StreamOk(streams'[s], chain, stored, pending)
    BY <1>0, <1>9, <2>1
  <2>3. streams' = [s \in Streams |-> streams'[s]]
    BY <2>1
  <2> QED BY <1>0, <1>9, <2>2, <2>3 DEF ListingInv
<1>10. ASSUME UNCHANGED <<chain, confirmed, stored, pending, streams>> PROVE ListingInv'
  BY <1>0, <1>10 DEF ListingInv
<1>11. ASSUME NEW t \in Streams, NEW from, Register(t, from), UNCHANGED <<chain, confirmed, stored, pending>>
       PROVE  ListingInv'
  <2> DEFINE r == [pc |-> "registered", from |-> from, out |-> <<>>]
  <2>1. StreamOk(r, chain, stored, pending)
    BY StreamNew
  <2>2. streams' = [streams EXCEPT ![t] = r]
    BY <1>11 DEF Register
  <2> HIDE DEF r
  <2> QED BY <1>9, <1>11, <2>1, <2>2
<1>12. ASSUME NEW from, StreamRegister(from) PROVE ListingInv'
  <2>1. "prover" \in Streams
    BY DEF Streams
  <2> QED BY <1>11, <1>12, <2>1 DEF StreamRegister
<1>13. ASSUME NEW t \in Streams, StreamFirst(t) PROVE ListingInv'
  <2>1. /\ streams[t].pc = "registered" /\ streams[t].out # <<>>
        /\ streams' = [streams EXCEPT ![t] = Opened(streams[t])]
        /\ UNCHANGED <<chain, confirmed, stored, pending>>
    BY <1>13 DEF StreamFirst
  <2>2. StreamOk(Opened(streams[t]), chain, stored, pending)
    BY <1>0, <1>1, <2>1, StreamOpened
  <2> QED BY <1>9, <2>1, <2>2
<1>14. ASSUME NEW t \in Streams, streams' = [streams EXCEPT ![t] = Closed],
              UNCHANGED <<chain, confirmed, stored, pending>>
       PROVE  ListingInv'
  BY <1>3, <1>9, <1>14
<1>15. CASE StreamClose
  BY <1>14, <1>15 DEF StreamClose, Streams
<1>16. CASE PollEmpty
  <2> DEFINE r == [streams["poll"] EXCEPT !.pc = "empty"]
  <2>1. streams["poll"].pc = "closed" /\ streams' = [streams EXCEPT !["poll"] = r]
        /\ UNCHANGED <<chain, confirmed, stored, pending>>
    BY <1>16 DEF PollEmpty
  <2>2. StreamOk(streams["poll"], chain, stored, pending)
    BY <1>0 DEF Streams
  <2>3. r = [pc |-> "empty", from |-> streams["poll"].from, out |-> streams["poll"].out]
    BY <2>2 DEF StreamOk
  <2>4. StreamOk(r, chain, stored, pending)
    BY <2>2, <2>3 DEF StreamOk
  <2> HIDE DEF r
  <2> QED BY <1>9, <2>1, <2>4 DEF Streams
<1>17. CASE PollRegister
  <2>1. Register("poll", NewestSeen[1] + 1) /\ UNCHANGED <<chain, confirmed, stored, pending>>
    BY <1>17 DEF PollRegister
  <2> QED BY <1>11, <2>1 DEF Streams
<1>18. CASE PollAnswer
  BY <1>14, <1>18 DEF PollAnswer, Streams
<1>19. CASE PollTimeout
  BY <1>14, <1>19 DEF PollTimeout, Streams
<1>20. ASSUME NEW order, NEW limit, ListFirst(order, limit) PROVE ListingInv'
  BY <1>10, <1>20 DEF ListFirst
<1>21. CASE ListNext
  BY <1>10, <1>21 DEF ListNext
<1>22. CASE ListPrev
  BY <1>10, <1>22 DEF ListPrev
<1>23. CASE UNCHANGED listingVars
  BY <1>10, <1>23 DEF listingVars
<1>24. \A n \in 0..MaxTxns : n \in Nat
  OBVIOUS
<1> QED BY <1>4, <1>5, <1>6, <1>7, <1>8, <1>12, <1>13, <1>15, <1>16, <1>17, <1>18, <1>19, <1>20,
           <1>21, <1>22, <1>23, <1>24 DEF ListingNext

\* A node starts with nothing listed.
LEMMA ListingStarts ==
    ASSUME ListingInit
    PROVE  ListingInv
<1>1. Closed = [pc |-> Closed.pc, from |-> Closed.from, out |-> Closed.out] /\ Closed.pc # "open" /\ Closed.out = <<>>
  BY DEF Closed
<1>2. StreamOk(Closed, chain, stored, pending)
  BY <1>1, StreamNew
<1>3. ChainOk(chain, confirmed, stored, pending)
  BY EmptySeq DEF ListingInit, ChainOk
<1>4. streams = [s \in Streams |-> Closed]
  BY DEF ListingInit
<1> QED BY <1>2, <1>3, <1>4 DEF ListingInv

(* A commit stream has every block with transactions that the node         *)
(* committed from the height asked for on, in order, whatever commits, fast*)
(* snapshots and restarts fall between its steps (node.rs:482).            *)
THEOREM StreamExactHolds == ListingSpec => []StreamExact
<1>1. ListingInit => ListingInv
  BY ListingStarts
<1>2. ListingInv /\ [ListingNext]_listingVars => ListingInv'
  BY ListingStep
<1>3. ListingInv => StreamExact
  <2> SUFFICES ASSUME ListingInv, NEW s \in Streams, streams[s].pc = "open"
               PROVE  /\ {h \in NonEmpty \ {pending} : streams[s].from <= h /\ h <= confirmed}
                            \subseteq Range(streams[s].out)
                      /\ \A i, j \in DOMAIN streams[s].out :
                            i < j => \/ streams[s].out[i] < streams[s].out[j]
                                     \/ chain[streams[s].out[j]] = 0
    BY DEF StreamExact
  <2>1. StreamOk(streams[s], chain, stored, pending)
    BY DEF ListingInv
  <2>2. NonEmpty = NonEmptyOf(chain, stored)
    BY DEF NonEmpty, NonEmptyOf
  <2> QED BY <2>1, <2>2 DEF StreamOk, Range
<1> QED BY <1>1, <1>2, <1>3, PTL DEF ListingSpec
-----------------------------------------------------------------------------
(* Listings: sequences in a strict order.                                  *)

(* R is a strict total order of T; s has the elements of S in the order R, *)
(* each of them once; A is a beginning, or an end, of S.                   *)
Orders(R, T) ==
    /\ \A x, y \in T : ~ (<<x, y>> \in R /\ <<y, x>> \in R)
    /\ \A x, y \in T : x = y \/ <<x, y>> \in R \/ <<y, x>> \in R
    /\ \A x, y, z \in T : <<x, y>> \in R /\ <<y, z>> \in R => <<x, z>> \in R
Lists(s, S, R) ==
    /\ s \in Seq(S)
    /\ \A i, j \in 1 .. Len(s) : i < j => <<s[i], s[j]>> \in R
    /\ \A x \in S : \E i \in 1 .. Len(s) : s[i] = x
Begins(A, S, R) == A \subseteq S /\ \A x \in S, y \in A : <<x, y>> \in R => x \in A
Ends(A, S, R)   == A \subseteq S /\ \A x \in S, y \in A : <<y, x>> \in R => x \in A

\* The elements of a listing.
LEMMA ListsBasic ==
    ASSUME NEW s, NEW S, NEW R, Lists(s, S, R)
    PROVE  /\ Len(s) \in Nat /\ DOMAIN s = 1 .. Len(s) /\ s \in Seq(S)
           /\ \A i \in 1 .. Len(s) : s[i] \in S
           /\ s = <<>> <=> S = {}
           /\ s = <<>> <=> Len(s) = 0
<1>1. Len(s) \in Nat /\ DOMAIN s = 1 .. Len(s) /\ s \in Seq(S)
  BY LenProperties DEF Lists
<1>2. \A i \in 1 .. Len(s) : s[i] \in S
  BY <1>1, ElementOfSeq
<1>3. s = <<>> <=> Len(s) = 0
  BY <1>1, EmptySeq
<1>4. S = {} => Len(s) = 0
  <2> SUFFICES ASSUME S = {}, Len(s) # 0 PROVE FALSE
    OBVIOUS
  <2>1. 1 \in 1 .. Len(s)
    BY <1>1
  <2> QED BY <1>2, <2>1
<1>5. Len(s) = 0 => S = {}
  BY DEF Lists
<1> QED BY <1>1, <1>2, <1>3, <1>4, <1>5

\* A position in a listing is a place in the order.
LEMMA ListsPlaces ==
    ASSUME NEW R, NEW T, Orders(R, T), NEW S \in SUBSET T, NEW s, Lists(s, S, R),
           NEW i \in 1 .. Len(s), NEW j \in 1 .. Len(s)
    PROVE  (<<s[i], s[j]>> \in R <=> i < j) /\ (s[i] = s[j] <=> i = j)
<1>1. s[i] \in T /\ s[j] \in T /\ i \in Int /\ j \in Int
  BY ListsBasic
<1>2. i < j => <<s[i], s[j]>> \in R
  BY DEF Lists
<1>3. j < i => <<s[j], s[i]>> \in R
  BY DEF Lists
<1>4. ~ (<<s[i], s[j]>> \in R /\ <<s[j], s[i]>> \in R)
  BY <1>1 DEF Orders
<1>5. i < j \/ i = j \/ j < i
  BY <1>1
<1>6. ~ (<<s[i], s[i]>> \in R)
  BY <1>1 DEF Orders
<1> QED BY <1>1, <1>2, <1>3, <1>4, <1>5, <1>6

\* Half of the next fact: one listing is a beginning of the other.
LEMMA ListsAgree ==
    ASSUME NEW R, NEW T, Orders(R, T), NEW S \in SUBSET T,
           NEW s, Lists(s, S, R), NEW r, Lists(r, S, R)
    PROVE  Len(s) <= Len(r) /\ \A i \in 1 .. Len(s) : s[i] = r[i]
<1>1. Len(s) \in Nat /\ Len(r) \in Nat
  BY ListsBasic
<1> DEFINE Bad == {i \in 1 .. Len(s) : ~ (i <= Len(r) /\ s[i] = r[i])}
<1>2. Bad = {}
  <2> SUFFICES ASSUME Bad # {} PROVE FALSE
    OBVIOUS
  <2>1. PICK i \in Bad : \A k \in Bad : i <= k
    <3>1. Bad \subseteq Nat
      BY <1>1
    <3> HIDE DEF Bad
    <3> QED BY <3>1, LeastExists
  <2>2. i \in 1 .. Len(s) /\ ~ (i <= Len(r) /\ s[i] = r[i])
    BY <2>1
  <2>3. \A k \in 1 .. i - 1 : k \in 1 .. Len(s) /\ k \in 1 .. Len(r) /\ s[k] = r[k]
    <3> SUFFICES ASSUME NEW k \in 1 .. i - 1
                 PROVE  k \in 1 .. Len(s) /\ k \in 1 .. Len(r) /\ s[k] = r[k]
      OBVIOUS
    <3>1. k \in 1 .. Len(s) /\ k < i
      BY <1>1, <2>2
    <3>2. k \notin Bad
      <4> HIDE DEF Bad
      <4> QED BY <1>1, <2>1, <2>2, <3>1
    <3> QED BY <1>1, <3>1, <3>2
  <2>4. s[i] \in S
    BY <2>2, ListsBasic
  <2>5. PICK k \in 1 .. Len(r) : r[k] = s[i]
    BY <2>4 DEF Lists
  <2>6. ~ (k < i)
    <3> SUFFICES ASSUME k < i PROVE FALSE
      OBVIOUS
    <3>1. k \in 1 .. i - 1
      BY <1>1, <2>2
    <3>2. s[k] = s[i] /\ k \in 1 .. Len(s)
      BY <2>3, <2>5, <3>1
    <3>3. (<<s[k], s[i]>> \in R <=> k < i) /\ (s[k] = s[i] <=> k = i)
      BY <2>2, <3>2, ListsPlaces
    <3> QED BY <1>1, <2>2, <3>2, <3>3
  <2>7. i \in 1 .. Len(r) /\ i < k
    BY <1>1, <2>2, <2>5, <2>6
  <2>8. r[i] \in S
    BY <2>7, ListsBasic
  <2>9. PICK l \in 1 .. Len(s) : s[l] = r[i]
    BY <2>8 DEF Lists
  <2>10. CASE l < i
    <3>1. l \in 1 .. i - 1
      BY <1>1, <2>2, <2>10
    <3>2. r[l] = r[i] /\ l \in 1 .. Len(r)
      BY <2>3, <2>9, <3>1
    <3>3. (<<r[l], r[i]>> \in R <=> l < i) /\ (r[l] = r[i] <=> l = i)
      BY <2>7, <3>2, ListsPlaces
    <3> QED BY <1>1, <2>2, <2>10, <3>2, <3>3
  <2>11. CASE l = i
    BY <2>2, <2>7, <2>9, <2>11, <1>1
  <2>12. CASE i < l
    <3>1. <<s[i], s[l]>> \in R
      BY <2>2, <2>9, <2>12 DEF Lists
    <3>2. <<r[i], r[k]>> \in R
      BY <2>5, <2>7 DEF Lists
    <3>3. s[i] \in T /\ r[i] \in T
      BY <2>4, <2>8
    <3> QED BY <2>5, <2>9, <3>1, <3>2, <3>3 DEF Orders
  <2> QED BY <1>1, <2>2, <2>9, <2>10, <2>11, <2>12
<1>3. \A i \in 1 .. Len(s) : i <= Len(r) /\ s[i] = r[i]
  BY <1>2
<1>4. Len(s) <= Len(r)
  <2>1. Len(s) # 0 => Len(s) \in 1 .. Len(s)
    BY <1>1
  <2> QED BY <1>1, <1>3, <2>1
<1> QED BY <1>3, <1>4

\* A set has one listing.
LEMMA ListsUnique ==
    ASSUME NEW R, NEW T, Orders(R, T), NEW S \in SUBSET T,
           NEW s, Lists(s, S, R), NEW r, Lists(r, S, R)
    PROVE  s = r
<1>1. Len(s) \in Nat /\ Len(r) \in Nat /\ s \in Seq(S) /\ r \in Seq(S)
  BY ListsBasic
<1>2. Len(s) <= Len(r) /\ \A i \in 1 .. Len(s) : s[i] = r[i]
  BY ListsAgree
<1>3. Len(r) <= Len(s)
  BY ListsAgree
<1>4. Len(s) = Len(r)
  BY <1>1, <1>2, <1>3
<1> QED BY <1>1, <1>2, <1>4, SeqEqual

\* A part of a listing, from one position to another.
LEMMA ListsPart ==
    ASSUME NEW s, NEW S, NEW R, Lists(s, S, R),
           NEW m \in 1 .. Len(s) + 1, NEW n \in m - 1 .. Len(s),
           NEW A, A = {s[k] : k \in m .. n}
    PROVE  /\ Lists(SubSeq(s, m, n), A, R) /\ Len(SubSeq(s, m, n)) = n - m + 1
           /\ \A i \in 1 .. n - m + 1 : SubSeq(s, m, n)[i] = s[m + i - 1]
<1> DEFINE r == SubSeq(s, m, n)
           l == n - m + 1
<1>1. Len(s) \in Nat /\ s \in Seq(S)
  BY ListsBasic
<1>2. m \in Int /\ n \in Int /\ l \in Nat
  BY <1>1
<1>3. r = [i \in 1 .. l |-> s[m + i - 1]]
  <2>1. r = [i \in 1 .. (1 + n - m) |-> s[i + m - 1]]
    OBVIOUS
  <2>2. 1 + n - m = l
    BY <1>2
  <2>3. \A i \in 1 .. l : s[i + m - 1] = s[m + i - 1]
    <3>1. \A i \in 1 .. l : i + m - 1 = m + i - 1
      BY <1>2
    <3> QED BY <3>1
  <2> HIDE DEF l, r
  <2> QED BY <2>1, <2>2, <2>3
<1> HIDE DEF r
<1>4. \A i \in 1 .. l : m + i - 1 \in m .. n /\ m + i - 1 \in 1 .. Len(s)
  BY <1>1, <1>2
<1>5. \A i \in 1 .. l : r[i] = s[m + i - 1] /\ r[i] \in A
  BY <1>3, <1>4
<1>6. r \in Seq(A) /\ Len(r) = l
  <2>1. r \in [1 .. l -> A]
    BY <1>3, <1>5
  <2> HIDE DEF l
  <2>2. r \in Seq(A)
    BY <1>2, <2>1, SeqDef
  <2>3. Len(r) = l
    BY <1>2, <2>1, <2>2, LenProperties
  <2> QED BY <2>2, <2>3
<1>7. ASSUME NEW i \in 1 .. l, NEW j \in 1 .. l, i < j PROVE <<r[i], r[j]>> \in R
  <2>1. m + i - 1 < m + j - 1
    BY <1>2, <1>7
  <2>2. <<s[m + i - 1], s[m + j - 1]>> \in R
    BY <1>4, <2>1 DEF Lists
  <2> QED BY <1>5, <2>2
<1>8. ASSUME NEW x \in A PROVE \E i \in 1 .. l : r[i] = x
  <2>1. PICK k \in m .. n : x = s[k]
    OBVIOUS
  <2>2. k - m + 1 \in 1 .. l /\ m + (k - m + 1) - 1 = k
    BY <1>2
  <2>3. r[k - m + 1] = s[k]
    BY <1>5, <2>2
  <2> QED BY <2>1, <2>2, <2>3
<1> HIDE DEF l
<1>9. Lists(r, A, R)
  BY <1>6, <1>7, <1>8 DEF Lists
<1> QED BY <1>5, <1>6, <1>9 DEF r, l

\* The first elements of a listing list a beginning of the set.
LEMMA ListsFirst ==
    ASSUME NEW R, NEW T, Orders(R, T), NEW S \in SUBSET T, NEW s, Lists(s, S, R),
           NEW n \in 0 .. Len(s)
    PROVE  /\ Len(SubSeq(s, 1, n)) = n /\ \A i \in 1 .. n : SubSeq(s, 1, n)[i] = s[i]
           /\ \E A \in SUBSET S : Lists(SubSeq(s, 1, n), A, R) /\ Begins(A, S, R)
<1> DEFINE A == {s[k] : k \in 1 .. n}
<1>1. Len(s) \in Nat /\ \A i \in 1 .. Len(s) : s[i] \in S
  BY ListsBasic
<1>2. 1 \in 1 .. Len(s) + 1 /\ n \in 1 - 1 .. Len(s) /\ n - 1 + 1 = n
  BY <1>1
<1>3. \A i \in 1 .. n : i \in 1 .. Len(s) /\ 1 + i - 1 = i
  BY <1>1
<1>4. A \in SUBSET S
  BY <1>1, <1>3
<1>5. ASSUME NEW x \in S, NEW y \in A, <<x, y>> \in R PROVE x \in A
  <2>1. PICK k \in 1 .. n : y = s[k]
    OBVIOUS
  <2>2. PICK i \in 1 .. Len(s) : s[i] = x
    BY DEF Lists
  <2>3. k \in 1 .. Len(s)
    BY <1>3, <2>1
  <2>4. <<s[i], s[k]>> \in R <=> i < k
    BY <2>3, ListsPlaces
  <2>5. i < k
    BY <1>5, <2>1, <2>2, <2>4
  <2>6. i \in 1 .. n
    BY <1>1, <2>5
  <2> QED BY <2>2, <2>6
<1> HIDE DEF A
<1>6. /\ Lists(SubSeq(s, 1, n), A, R) /\ Len(SubSeq(s, 1, n)) = n - 1 + 1
      /\ \A i \in 1 .. n - 1 + 1 : SubSeq(s, 1, n)[i] = s[1 + i - 1]
  BY ONLY <1>2, ListsPart, Lists(s, S, R), A = {s[k] : k \in 1 .. n} DEF A
<1>7. Begins(A, S, R)
  BY <1>4, <1>5 DEF Begins
<1> QED BY <1>2, <1>3, <1>4, <1>6, <1>7

\* The last elements of a listing list an end of the set.
LEMMA ListsLast ==
    ASSUME NEW R, NEW T, Orders(R, T), NEW S \in SUBSET T, NEW s, Lists(s, S, R),
           NEW m \in 1 .. Len(s) + 1
    PROVE  /\ Len(SubSeq(s, m, Len(s))) = Len(s) - m + 1
           /\ \A i \in 1 .. Len(s) - m + 1 : SubSeq(s, m, Len(s))[i] = s[m + i - 1]
           /\ \E A \in SUBSET S : Lists(SubSeq(s, m, Len(s)), A, R) /\ Ends(A, S, R)
<1> DEFINE n == Len(s)
           A == {s[k] : k \in m .. n}
<1>1. n \in Nat /\ \A i \in 1 .. n : s[i] \in S
  BY ListsBasic
<1>2. n \in m - 1 .. n /\ m \in Int
  BY <1>1
<1>3. \A i \in m .. n : i \in 1 .. n
  BY <1>1
<1>4. A \in SUBSET S
  BY <1>1, <1>3
<1>5. ASSUME NEW x \in S, NEW y \in A, <<y, x>> \in R PROVE x \in A
  <2>1. PICK k \in m .. n : y = s[k]
    OBVIOUS
  <2>2. PICK i \in 1 .. n : s[i] = x
    BY DEF Lists
  <2>3. k \in 1 .. n
    BY <1>3, <2>1
  <2>4. <<s[k], s[i]>> \in R <=> k < i
    BY <2>3, ListsPlaces
  <2>5. k < i
    BY <1>5, <2>1, <2>2, <2>4
  <2>6. i \in m .. n
    BY <1>1, <1>2, <2>5
  <2> QED BY <2>2, <2>6
<1>6. A = {s[k] : k \in m .. n}
  OBVIOUS
<1> HIDE DEF A, n
<1>7. m \in 1 .. Len(s) + 1 /\ n \in m - 1 .. Len(s)
  BY <1>2 DEF n
<1>8. /\ Lists(SubSeq(s, m, n), A, R) /\ Len(SubSeq(s, m, n)) = n - m + 1
      /\ \A i \in 1 .. n - m + 1 : SubSeq(s, m, n)[i] = s[m + i - 1]
  BY ONLY <1>6, <1>7, ListsPart, Lists(s, S, R)
<1>9. Ends(A, S, R)
  BY <1>4, <1>5 DEF Ends
<1> QED BY <1>4, <1>8, <1>9 DEF n

\* Two listings one after the other.
LEMMA ListsConcat ==
    ASSUME NEW R, NEW s, NEW A, Lists(s, A, R), NEW r, NEW B, Lists(r, B, R),
           \A x \in A, y \in B : <<x, y>> \in R, NEW S, S = A \cup B
    PROVE  /\ Lists(s \o r, S, R) /\ Len(s \o r) = Len(s) + Len(r)
           /\ \A i \in 1 .. Len(s) : (s \o r)[i] = s[i]
           /\ \A i \in 1 .. Len(r) : (s \o r)[Len(s) + i] = r[i]
<1> DEFINE c == s \o r
<1>1. /\ Len(s) \in Nat /\ Len(r) \in Nat /\ s \in Seq(A) /\ r \in Seq(B)
      /\ \A i \in 1 .. Len(s) : s[i] \in A
      /\ \A i \in 1 .. Len(r) : r[i] \in B
  BY ListsBasic
<1>2. s \in Seq(S) /\ r \in Seq(S)
  <2>1. A \subseteq S /\ B \subseteq S
    OBVIOUS
  <2> QED BY <1>1, <2>1, SeqMonotonic
<1>3. /\ c \in Seq(S) /\ Len(c) = Len(s) + Len(r)
      /\ \A i \in 1 .. Len(s) + Len(r) : c[i] = IF i <= Len(s) THEN s[i] ELSE r[i - Len(s)]
  BY <1>2, ConcatProperties
<1> HIDE DEF c
<1>4. \A i \in 1 .. Len(s) : c[i] = s[i] /\ i \in 1 .. Len(c)
  BY <1>1, <1>3
<1>5. \A i \in 1 .. Len(r) : c[Len(s) + i] = r[i] /\ Len(s) + i \in 1 .. Len(c)
  <2> SUFFICES ASSUME NEW i \in 1 .. Len(r)
               PROVE  c[Len(s) + i] = r[i] /\ Len(s) + i \in 1 .. Len(c)
    OBVIOUS
  <2>1. Len(s) + i \in 1 .. Len(s) + Len(r) /\ ~ (Len(s) + i <= Len(s)) /\ (Len(s) + i) - Len(s) = i
    BY <1>1
  <2> QED BY <1>3, <2>1
<1>6. ASSUME NEW i \in 1 .. Len(c), NEW j \in 1 .. Len(c), i < j PROVE <<c[i], c[j]>> \in R
  <2>1. i \in Int /\ j \in Int
    BY <1>1, <1>3
  <2>2. CASE j <= Len(s)
    <3>1. i \in 1 .. Len(s) /\ j \in 1 .. Len(s)
      BY <1>1, <1>3, <1>6, <2>2
    <3>2. <<s[i], s[j]>> \in R
      BY <1>6, <3>1 DEF Lists
    <3> QED BY <1>4, <3>1, <3>2
  <2>3. CASE i <= Len(s) /\ Len(s) < j
    <3>1. i \in 1 .. Len(s) /\ j - Len(s) \in 1 .. Len(r) /\ Len(s) + (j - Len(s)) = j
      BY <1>1, <1>3, <2>3
    <3>2. c[i] = s[i] /\ c[j] = r[j - Len(s)] /\ s[i] \in A /\ r[j - Len(s)] \in B
      BY <1>1, <1>4, <1>5, <3>1
    <3> QED BY <3>2
  <2>4. CASE Len(s) < i
    <3> DEFINE k == i - Len(s)
               l == j - Len(s)
    <3>1. /\ k \in 1 .. Len(r) /\ l \in 1 .. Len(r) /\ Len(s) + k = i /\ Len(s) + l = j /\ k < l
      BY <1>1, <1>3, <1>6, <2>1, <2>4
    <3> HIDE DEF k, l
    <3>2. c[i] = r[k] /\ c[j] = r[l]
      BY <1>5, <3>1
    <3>3. <<r[k], r[l]>> \in R
      BY <3>1 DEF Lists
    <3> QED BY <3>2, <3>3
  <2> QED BY <1>1, <2>1, <2>2, <2>3, <2>4
<1>7. ASSUME NEW x \in S PROVE \E i \in 1 .. Len(c) : c[i] = x
  <2>1. CASE x \in A
    <3>1. PICK i \in 1 .. Len(s) : s[i] = x
      BY <2>1 DEF Lists
    <3> QED BY <1>4, <3>1
  <2>2. CASE x \in B
    <3>1. PICK i \in 1 .. Len(r) : r[i] = x
      BY <2>2 DEF Lists
    <3> QED BY <1>5, <3>1
  <2> QED BY <2>1, <2>2
<1>8. Lists(c, S, R)
  BY <1>3, <1>6, <1>7 DEF Lists
<1> QED BY <1>3, <1>4, <1>5, <1>8 DEF c

\* A listing backwards.
LEMMA ListsBack ==
    ASSUME NEW s, NEW S, NEW R, Lists(s, S, R), NEW Q,
           \A x, y \in S : <<x, y>> \in R => <<y, x>> \in Q
    PROVE  Lists(Reverse(s), S, Q) /\ Len(Reverse(s)) = Len(s)
<1> DEFINE r == Reverse(s)
<1>1. Len(s) \in Nat /\ \A i \in 1 .. Len(s) : s[i] \in S
  BY ListsBasic
<1>2. \A i \in 1 .. Len(s) : (Len(s) - i) + 1 \in 1 .. Len(s)
  BY <1>1
<1>3. r = [i \in 1 .. Len(s) |-> s[(Len(s) - i) + 1]]
  BY DEF Reverse
<1> HIDE DEF r
<1>4. r \in [1 .. Len(s) -> S] /\ \A i \in 1 .. Len(s) : r[i] = s[(Len(s) - i) + 1]
  BY <1>1, <1>2, <1>3
<1>5. r \in Seq(S)
  BY <1>1, <1>4, SeqDef
<1>6. Len(r) = Len(s)
  BY <1>1, <1>4, <1>5, LenProperties
<1>7. ASSUME NEW i \in 1 .. Len(s), NEW j \in 1 .. Len(s), i < j PROVE <<r[i], r[j]>> \in Q
  <2> DEFINE k == (Len(s) - i) + 1
             l == (Len(s) - j) + 1
  <2>1. k \in 1 .. Len(s) /\ l \in 1 .. Len(s) /\ l < k
    BY <1>1, <1>7
  <2>2. r[i] = s[k] /\ r[j] = s[l]
    BY <1>4
  <2> HIDE DEF k, l
  <2>3. <<s[l], s[k]>> \in R /\ s[l] \in S /\ s[k] \in S
    BY <1>1, <2>1 DEF Lists
  <2> QED BY <2>2, <2>3
<1>8. ASSUME NEW x \in S PROVE \E i \in 1 .. Len(s) : r[i] = x
  <2>1. PICK k \in 1 .. Len(s) : s[k] = x
    BY DEF Lists
  <2>2. (Len(s) - k) + 1 \in 1 .. Len(s) /\ (Len(s) - ((Len(s) - k) + 1)) + 1 = k
    BY <1>1
  <2> QED BY <1>4, <2>1, <2>2
<1>9. Lists(r, S, Q)
  BY <1>5, <1>6, <1>7, <1>8 DEF Lists
<1> QED BY <1>6, <1>9 DEF r

\* Some of the elements of a listing.
LEMMA ListsFiltered ==
    ASSUME NEW s, NEW S, NEW R, Lists(s, S, R), NEW I \in SUBSET (DOMAIN s),
           NEW A, A = {s[i] : i \in I}
    PROVE  Lists(Filtered(s, I), A, R)
<1> DEFINE at == Ascending(I)
           c  == Cardinality(I)
<1>1. Len(s) \in Nat /\ DOMAIN s = 1 .. Len(s)
  BY ListsBasic
<1>2. I \in SUBSET (1 .. Len(s))
  BY <1>1
<1>3. c \in Nat /\ DOMAIN at = 1 .. c /\ Enumerates(at, I)
  BY <1>1, <1>2, AscendingLists
<1>4. Filtered(s, I) = [j \in 1 .. c |-> s[at[j]]]
  BY <1>3 DEF Filtered
<1>5. /\ \A j \in 1 .. c : at[j] \in I /\ at[j] \in 1 .. Len(s)
      /\ \A j, k \in 1 .. c : j < k => at[j] < at[k]
      /\ \A i \in I : \E j \in 1 .. c : at[j] = i
  BY <1>2, <1>3 DEF Enumerates
<1> HIDE DEF at, c
<1> DEFINE f == Filtered(s, I)
<1>6. f \in [1 .. c -> A] /\ \A j \in 1 .. c : f[j] = s[at[j]]
  BY <1>4, <1>5
<1> HIDE DEF f
<1>7. f \in Seq(A)
  BY <1>3, <1>6, SeqDef
<1>8. Len(f) = c
  BY <1>3, <1>6, <1>7, LenProperties
<1>9. ASSUME NEW i \in 1 .. c, NEW j \in 1 .. c, i < j PROVE <<f[i], f[j]>> \in R
  <2>1. at[i] < at[j] /\ at[i] \in 1 .. Len(s) /\ at[j] \in 1 .. Len(s)
    BY <1>5, <1>9
  <2>2. <<s[at[i]], s[at[j]]>> \in R
    BY <2>1 DEF Lists
  <2> QED BY <1>6, <2>2
<1>10. ASSUME NEW x \in A PROVE \E j \in 1 .. c : f[j] = x
  <2>1. PICK i \in I : s[i] = x
    OBVIOUS
  <2>2. PICK j \in 1 .. c : at[j] = i
    BY <1>5
  <2> QED BY <1>6, <2>1, <2>2
<1>11. Lists(f, A, R)
  BY <1>7, <1>8, <1>9, <1>10 DEF Lists
<1> QED BY <1>11 DEF f

-----------------------------------------------------------------------------
(* Listings: pages of blocks and their transactions.                       *)

AnyTxn == Nat \X Nat
BlockOrder(order) == {p \in Nat \X Nat : IF order = "asc" THEN p[1] < p[2] ELSE p[2] < p[1]}
TxnOrder(order) ==
    {p \in AnyTxn \X AnyTxn : \/ <<p[1][1], p[2][1]>> \in BlockOrder(order)
                              \/ p[1][1] = p[2][1] /\ p[1][2] < p[2][2]}
TxnsIn(B) == {t \in AnyTxn : t[1] \in B /\ t[2] < chain[t[1]]}

\* Two heights in the order of a listing.
LEMMA BlockOrderIs ==
    ASSUME NEW order, NEW g \in Nat, NEW h \in Nat
    PROVE  <<g, h>> \in BlockOrder(order) <=> (IF order = "asc" THEN g < h ELSE h < g)
BY DEF BlockOrder

\* Heights are ordered.
LEMMA BlockOrders ==
    ASSUME NEW order
    PROVE  Orders(BlockOrder(order), Nat)
BY BlockOrderIs DEF Orders

\* Two transactions in the order of a listing.
LEMMA TxnOrderIs ==
    ASSUME NEW order, NEW t \in AnyTxn, NEW u \in AnyTxn
    PROVE  <<t, u>> \in TxnOrder(order)
              <=> \/ <<t[1], u[1]>> \in BlockOrder(order)
                  \/ t[1] = u[1] /\ t[2] < u[2]
<1>1. <<t, u>> \in AnyTxn \X AnyTxn
  OBVIOUS
<1>2. <<t, u>>[1] = t /\ <<t, u>>[2] = u
  OBVIOUS
<1> DEFINE p == <<t, u>>
<1>3. p[1] = t /\ p[2] = u /\ p \in AnyTxn \X AnyTxn
  BY <1>1, <1>2
<1> HIDE DEF p
<1>4. p \in TxnOrder(order) <=> \/ <<t[1], u[1]>> \in BlockOrder(order)
                                \/ t[1] = u[1] /\ t[2] < u[2]
  BY <1>3 DEF TxnOrder
<1> QED BY <1>4 DEF p

\* A transaction is its height and its index.
LEMMA TxnIs ==
    ASSUME NEW t \in AnyTxn
    PROVE  t[1] \in Nat /\ t[2] \in Nat /\ t = <<t[1], t[2]>>
BY DEF AnyTxn

\* Transactions are ordered.
LEMMA TxnOrders ==
    ASSUME NEW order
    PROVE  Orders(TxnOrder(order), AnyTxn)
<1> DEFINE R == TxnOrder(order)
           Q == BlockOrder(order)
<1>1. ASSUME NEW x \in AnyTxn, NEW y \in AnyTxn
      PROVE  <<x, y>> \in R <=> (<<x[1], y[1]>> \in Q \/ (x[1] = y[1] /\ x[2] < y[2]))
  BY TxnOrderIs
<1>2. Orders(Q, Nat)
  BY BlockOrders
<1> HIDE DEF R, Q
<1>3. ASSUME NEW x \in AnyTxn, NEW y \in AnyTxn
      PROVE  ~ (<<x, y>> \in R /\ <<y, x>> \in R) /\ (x = y \/ <<x, y>> \in R \/ <<y, x>> \in R)
  <2> DEFINE a == x[1]
             b == y[1]
             i == x[2]
             j == y[2]
  <2>1. a \in Nat /\ b \in Nat /\ i \in Nat /\ j \in Nat /\ x = <<a, i>> /\ y = <<b, j>>
    BY TxnIs
  <2>2. /\ <<x, y>> \in R <=> (<<a, b>> \in Q \/ (a = b /\ i < j))
        /\ <<y, x>> \in R <=> (<<b, a>> \in Q \/ (b = a /\ j < i))
    BY <1>1
  <2>3. ~ (<<a, b>> \in Q /\ <<b, a>> \in Q) /\ (a = b \/ <<a, b>> \in Q \/ <<b, a>> \in Q)
    BY <1>2, <2>1 DEF Orders
  <2>4. ~ (<<a, a>> \in Q)
    BY <1>2, <2>1 DEF Orders
  <2> HIDE DEF a, b, i, j
  <2>5. a = b /\ i = j => x = y
    BY <2>1
  <2>6. ~ (<<x, y>> \in R /\ <<y, x>> \in R)
    <3>1. CASE a = b
      <4>1. ~ (<<a, b>> \in Q) /\ ~ (<<b, a>> \in Q)
        BY <2>4, <3>1
      <4> QED BY <2>1, <2>2, <4>1
    <3>2. CASE a # b
      BY <2>2, <2>3, <3>2
    <3> QED BY <3>1, <3>2
  <2>7. x = y \/ <<x, y>> \in R \/ <<y, x>> \in R
    <3>1. i < j \/ i = j \/ j < i
      BY <2>1
    <3> QED BY <2>2, <2>3, <2>5, <3>1
  <2> QED BY <2>6, <2>7
<1>4. ASSUME NEW x \in AnyTxn, NEW y \in AnyTxn, NEW z \in AnyTxn,
             <<x, y>> \in R, <<y, z>> \in R
      PROVE  <<x, z>> \in R
  <2>1. x[1] \in Nat /\ y[1] \in Nat /\ z[1] \in Nat /\ x[2] \in Nat /\ y[2] \in Nat /\ z[2] \in Nat
    BY TxnIs
  <2>2. <<x[1], y[1]>> \in Q \/ (x[1] = y[1] /\ x[2] < y[2])
    BY <1>1, <1>4
  <2>3. <<y[1], z[1]>> \in Q \/ (y[1] = z[1] /\ y[2] < z[2])
    BY <1>1, <1>4
  <2>4. <<x[1], y[1]>> \in Q /\ <<y[1], z[1]>> \in Q => <<x[1], z[1]>> \in Q
    BY <1>2, <2>1 DEF Orders
  <2>5. <<x[1], z[1]>> \in Q \/ (x[1] = z[1] /\ x[2] < z[2])
    <3>1. CASE x[1] = y[1] /\ x[2] < y[2]
      <4>1. CASE y[1] = z[1] /\ y[2] < z[2]
        BY <2>1, <3>1, <4>1
      <4>2. CASE <<y[1], z[1]>> \in Q
        BY <3>1, <4>2
      <4> QED BY <2>3, <4>1, <4>2
    <3>2. CASE <<x[1], y[1]>> \in Q
      <4>1. CASE y[1] = z[1] /\ y[2] < z[2]
        BY <3>2, <4>1
      <4> QED BY <2>3, <2>4, <3>2, <4>1
    <3> QED BY <2>2, <3>1, <3>2
  <2> QED BY <1>1, <2>5
<1>5. Orders(R, AnyTxn)
  BY <1>3, <1>4 DEF Orders
<1> QED BY <1>5 DEF R

(* The keys in the order asked for. *)
Keys(S, order) == LET up == Ascending(S) IN IF order = "asc" THEN up ELSE Reverse(up)

\* The keys, listed.
LEMMA KeysListed ==
    ASSUME NEW n \in Nat, NEW S \in SUBSET (1 .. n), NEW order \in {"asc", "desc"}
    PROVE  Lists(Keys(S, order), S, BlockOrder(order))
<1> DEFINE up == Ascending(S)
           listed == IF order = "asc" THEN up ELSE Reverse(up)
           Q == BlockOrder(order)
<1>1. S \in SUBSET (1 .. n) /\ S \in SUBSET Nat
  <2>1. \A x \in 1 .. n : x \in Nat
    OBVIOUS
  <2> QED BY <2>1
<1>2. Lists(up, S, BlockOrder("asc"))
  <2>1. /\ Cardinality(S) \in Nat /\ up \in Seq(S) /\ Len(up) = Cardinality(S) /\ Enumerates(up, S)
    BY <1>1, AscendingLists
  <2> HIDE DEF up
  <2>2. ASSUME NEW i \in 1 .. Len(up), NEW j \in 1 .. Len(up), i < j
        PROVE  <<up[i], up[j]>> \in BlockOrder("asc")
    <3>1. up[i] < up[j] /\ up[i] \in S /\ up[j] \in S
      BY <2>1, <2>2 DEF Enumerates
    <3>2. up[i] \in Nat /\ up[j] \in Nat
      BY <1>1, <3>1
    <3> QED BY <3>1, <3>2, BlockOrderIs
  <2>3. \A x \in S : \E i \in 1 .. Len(up) : up[i] = x
    BY <2>1 DEF Enumerates
  <2> QED BY <2>1, <2>2, <2>3 DEF Lists
<1> HIDE DEF up
<1>3. Lists(listed, S, Q)
  <2>1. CASE order = "asc"
    BY <1>2, <2>1
  <2>2. CASE order = "desc"
    <3>1. \A x, y \in S : <<x, y>> \in BlockOrder("asc") => <<y, x>> \in Q
      <4>1. "desc" # "asc"
        OBVIOUS
      <4> QED BY <1>1, <2>2, <4>1, BlockOrderIs
    <3>2. Lists(Reverse(up), S, Q)
      <4> HIDE DEF Q
      <4> QED BY <1>2, <3>1, ListsBack
    <3> QED BY <2>2, <3>2
  <2> QED BY <2>1, <2>2
<1>4. Keys(S, order) = listed
  BY DEF Keys, up
<1> QED BY <1>3, <1>4 DEF Q

(* What a page of a listing is: a beginning of what the cursor leaves, or  *)
(* for a cursor before an end of it, which is full or has all of it.       *)
IsPageOf(page, S, order, cursor, limit) ==
    LET B == Between(S, order, cursor) IN
    /\ B \in SUBSET S /\ Len(page) <= limit
    /\ \E A \in SUBSET B :
          /\ Lists(page, A, BlockOrder(order))
          /\ cursor.type # "before" => Begins(A, B, BlockOrder(order))
          /\ cursor.type = "before" => Ends(A, B, BlockOrder(order))
          /\ Len(page) = limit \/ A = B

\* Pages of blocks are such.
LEMMA BlocksListed ==
    ASSUME NEW n \in Nat, NEW S \in SUBSET (1 .. n), NEW order \in {"asc", "desc"},
           NEW cursor, NEW limit \in Nat
    PROVE  IsPageOf(ListPaginated(S, order, cursor, limit), S, order, cursor, limit)
<1> DEFINE B == Between(S, order, cursor)
           page == ListPaginated(S, order, cursor, limit)
           up == Ascending(B)
           listed == IF order = "asc" THEN up ELSE Reverse(up)
           Q == BlockOrder(order)
<1>0. SUFFICES /\ B \in SUBSET S /\ Len(page) <= limit
               /\ \E A \in SUBSET B : /\ Lists(page, A, Q)
                                      /\ cursor.type # "before" => Begins(A, B, Q)
                                      /\ cursor.type = "before" => Ends(A, B, Q)
                                      /\ Len(page) = limit \/ A = B
  BY DEF IsPageOf
<1>1. B \in SUBSET S /\ B \in SUBSET (1 .. n) /\ B \in SUBSET Nat
  <2>1. B \subseteq S
    BY DEF Between
  <2>2. \A x \in 1 .. n : x \in Nat
    OBVIOUS
  <2> QED BY <2>1, <2>2
<1>3. Lists(listed, B, Q)
  <2>1. Lists(Keys(B, order), B, Q)
    BY <1>1, KeysListed
  <2> QED BY <2>1 DEF Keys
<1> HIDE DEF up
<1>4. Orders(Q, Nat)
  BY BlockOrders
<1> DEFINE m == Len(listed)
<1>5. m \in Nat
  BY <1>3, ListsBasic
<1>6. page = IF cursor.type = "before"
             THEN SubSeq(listed, IF m > limit THEN m - limit + 1 ELSE 1, m)
             ELSE SubSeq(listed, 1, IF m > limit THEN limit ELSE m)
  BY DEF ListPaginated, up
<1> HIDE DEF B, page, listed, Q
<1>7. CASE cursor.type = "before"
  <2> DEFINE k == IF m > limit THEN m - limit + 1 ELSE 1
  <2>1. k \in 1 .. m + 1 /\ page = SubSeq(listed, k, m)
    BY <1>5, <1>6, <1>7
  <2>2. k = m - limit + 1 \/ k = 1
    OBVIOUS
  <2>3. m - k + 1 <= limit /\ (k = 1 \/ m - k + 1 = limit)
    BY <1>5
  <2> HIDE DEF k
  <2>4. /\ Len(page) = m - k + 1 /\ \A i \in 1 .. m - k + 1 : page[i] = listed[k + i - 1]
        /\ \E A \in SUBSET B : Lists(page, A, Q) /\ Ends(A, B, Q)
    <3> DEFINE q == SubSeq(listed, k, Len(listed))
    <3>1. /\ Len(q) = Len(listed) - k + 1
          /\ \A i \in 1 .. Len(listed) - k + 1 : q[i] = listed[k + i - 1]
          /\ \E A \in SUBSET B : Lists(q, A, Q) /\ Ends(A, B, Q)
      <4>1. B \in SUBSET Nat /\ k \in 1 .. Len(listed) + 1
        BY <1>1, <2>1
      <4>2. Len(q) = Len(listed) - k + 1
        BY ONLY <1>3, <1>4, <4>1, ListsLast
      <4>3. \A i \in 1 .. Len(listed) - k + 1 : q[i] = listed[k + i - 1]
        BY ONLY <1>3, <1>4, <4>1, ListsLast
      <4>4. \E A \in SUBSET B : Lists(q, A, Q) /\ Ends(A, B, Q)
        BY ONLY <1>3, <1>4, <4>1, ListsLast
      <4> QED BY ONLY <4>2, <4>3, <4>4
    <3>2. q = page
      BY <2>1
    <3> HIDE DEF q
    <3> QED BY <3>1, <3>2
  <2>5. PICK A \in SUBSET B : Lists(page, A, Q) /\ Ends(A, B, Q)
    BY <2>4
  <2>6. k = 1 => A = B
    <3> SUFFICES ASSUME k = 1, NEW x \in B PROVE x \in A
      OBVIOUS
    <3>1. PICK i \in 1 .. m : listed[i] = x
      BY <1>3 DEF Lists
    <3>2. i \in 1 .. m - k + 1 /\ k + i - 1 = i
      BY <1>5
    <3>3. page[i] = x /\ i \in 1 .. Len(page)
      BY <2>4, <3>1, <3>2
    <3> QED BY <2>5, <3>3, ListsBasic
  <2> QED BY <1>1, <1>7, <2>3, <2>4, <2>5, <2>6 DEF page, Q
<1>8. CASE cursor.type # "before"
  <2> DEFINE k == IF m > limit THEN limit ELSE m
  <2>1. k \in 0 .. m /\ page = SubSeq(listed, 1, k)
    BY <1>5, <1>6, <1>8
  <2>2. k <= limit /\ (k = m \/ k = limit)
    BY <1>5
  <2> HIDE DEF k
  <2>3. /\ Len(page) = k /\ \A i \in 1 .. k : page[i] = listed[i]
        /\ \E A \in SUBSET B : Lists(page, A, Q) /\ Begins(A, B, Q)
    <3> DEFINE q == SubSeq(listed, 1, k)
    <3>1. /\ Len(q) = k /\ \A i \in 1 .. k : q[i] = listed[i]
          /\ \E A \in SUBSET B : Lists(q, A, Q) /\ Begins(A, B, Q)
      BY <1>1, <1>3, <1>4, <2>1, ListsFirst
    <3>2. q = page
      BY <2>1
    <3> HIDE DEF q
    <3> QED BY <3>1, <3>2
  <2>4. PICK A \in SUBSET B : Lists(page, A, Q) /\ Begins(A, B, Q)
    BY <2>3
  <2>5. k = m => A = B
    <3> SUFFICES ASSUME k = m, NEW x \in B PROVE x \in A
      OBVIOUS
    <3>1. PICK i \in 1 .. m : listed[i] = x
      BY <1>3 DEF Lists
    <3>2. page[i] = x /\ i \in 1 .. Len(page)
      BY <2>3, <3>1
    <3> QED BY <2>4, <3>2, ListsBasic
  <2> QED BY <1>1, <1>8, <2>2, <2>3, <2>4, <2>5 DEF page, Q
<1> QED BY <1>7, <1>8

(* The transactions of each block, and of the first blocks. *)
TxnsOfBlock(h) == [j \in 1 .. chain[h] |-> <<h, j - 1>>]
Flattens(f, seqs) == f = [i \in 1 .. Len(seqs) |-> IF i = 1 THEN seqs[i] ELSE f[i - 1] \o seqs[i]]

\* The transactions of a block, listed.
LEMMA BlockListed ==
    ASSUME NEW order, NEW h \in Nat, chain[h] \in Nat, NEW B, B = {h}
    PROVE  Lists(TxnsOfBlock(h), TxnsIn(B), TxnOrder(order))
<1> DEFINE s == TxnsOfBlock(h)
           c == chain[h]
           A == TxnsIn(B)
<1>1. c \in Nat /\ s = [j \in 1 .. c |-> <<h, j - 1>>]
  BY DEF TxnsOfBlock
<1>2. \A j \in 1 .. c : s[j] = <<h, j - 1>> /\ s[j] \in AnyTxn /\ s[j][1] = h /\ s[j][2] = j - 1
  <2> SUFFICES ASSUME NEW j \in 1 .. c
               PROVE  s[j] = <<h, j - 1>> /\ s[j] \in AnyTxn /\ s[j][1] = h /\ s[j][2] = j - 1
    OBVIOUS
  <2>1. s[j] = <<h, j - 1>> /\ j - 1 \in Nat
    BY <1>1
  <2> HIDE DEF s
  <2> QED BY <2>1 DEF AnyTxn
<1> HIDE DEF s
<1>3. ASSUME NEW j \in 1 .. c PROVE s[j] \in A
  <2> DEFINE x == s[j]
  <2>1. x \in AnyTxn /\ x[1] = h /\ x[2] = j - 1
    BY <1>2
  <2> HIDE DEF x
  <2>2. x[1] \in B /\ x[2] < chain[x[1]]
    BY <1>1, <2>1
  <2>3. x \in TxnsIn(B)
    BY <2>1, <2>2 DEF TxnsIn
  <2> QED BY <2>3 DEF x
<1>4. s \in [1 .. c -> A]
  BY <1>1, <1>3
<1>5. s \in Seq(A)
  BY <1>1, <1>4, SeqDef
<1>6. Len(s) = c
  BY <1>1, <1>4, <1>5, LenProperties
<1>7. ASSUME NEW i \in 1 .. c, NEW j \in 1 .. c, i < j PROVE <<s[i], s[j]>> \in TxnOrder(order)
  <2>1. s[i] \in AnyTxn /\ s[j] \in AnyTxn /\ s[i][1] = s[j][1] /\ s[i][2] < s[j][2]
    <3>1. s[i] \in AnyTxn /\ s[i][1] = h /\ s[i][2] = i - 1
      BY <1>2
    <3>2. s[j] \in AnyTxn /\ s[j][1] = h /\ s[j][2] = j - 1
      BY <1>2
    <3>3. i - 1 < j - 1
      BY <1>1, <1>7
    <3> QED BY <3>1, <3>2, <3>3
  <2> QED BY <2>1, TxnOrderIs
<1>8. ASSUME NEW x \in A PROVE \E i \in 1 .. c : s[i] = x
  <2>1. x \in AnyTxn /\ x[1] = h /\ x[2] < c
    BY DEF TxnsIn
  <2>2. x = <<h, x[2]>> /\ x[2] \in Nat
    BY <2>1, TxnIs
  <2>3. x[2] + 1 \in 1 .. c /\ (x[2] + 1) - 1 = x[2]
    BY <1>1, <2>1, <2>2
  <2>4. s[x[2] + 1] = <<h, x[2]>>
    BY <1>2, <2>3
  <2> QED BY <2>2, <2>3, <2>4
<1>9. Lists(s, A, TxnOrder(order))
  BY <1>5, <1>6, <1>7, <1>8 DEF Lists
<1> QED BY <1>9 DEF s

\* A list of sequences is flattened from the first one on.
LEMMA FlattenIs ==
    ASSUME NEW T, NEW seqs, seqs \in Seq(Seq(T))
    PROVE  /\ Len(seqs) = 0 => FlattenSeq(seqs) = <<>>
           /\ Len(seqs) # 0 => \E f : Flattens(f, seqs) /\ FlattenSeq(seqs) = f[Len(seqs)]
<1> DEFINE n == Len(seqs)
<1>1. n \in Nat /\ \A i \in 1 .. n : seqs[i] \in Seq(T)
  BY LenProperties, ElementOfSeq
<1>2. n = 0 => FlattenSeq(seqs) = <<>>
  BY EmptySeq DEF FlattenSeq
<1>3. ASSUME n # 0 PROVE \E f : Flattens(f, seqs) /\ FlattenSeq(seqs) = f[n]
  <2> DEFINE g == [x \in (1 .. n) \X Seq(T) |-> x[2] \o seqs[x[1]]]
  <2>1. \A i \in 1 .. n : \A t \in Seq(T) : g[<<i, t>>] = t \o seqs[i] /\ g[<<i, t>>] \in Seq(T)
    <3> SUFFICES ASSUME NEW i \in 1 .. n, NEW t \in Seq(T)
                 PROVE  g[<<i, t>>] = t \o seqs[i] /\ g[<<i, t>>] \in Seq(T)
      OBVIOUS
    <3>1. g[<<i, t>>] = t \o seqs[i]
      OBVIOUS
    <3>2. t \o seqs[i] \in Seq(T)
      BY <1>1, ConcatProperties
    <3> HIDE DEF g
    <3> QED BY <3>1, <3>2
  <2> HIDE DEF g
  <2>2. <<>> \in Seq(T)
    BY EmptySeq
  <2>3. PICK w \in [0 .. n -> Seq(T)] : w[0] = <<>> /\ \A i \in 1 .. n : w[i] = g[<<i, w[i - 1]>>]
    <3>1. RowStep(n, Seq(T), g)
      BY <2>1 DEF RowStep
    <3>2. \E w : FromFirst(n, Seq(T), <<>>, g, w)
      BY <1>1, <2>2, <3>1, RowsUp
    <3> QED BY <3>2 DEF FromFirst
  <2> DEFINE f == [i \in 1 .. n |-> w[i]]
  <2>4. ASSUME NEW i \in 1 .. n PROVE f[i] = IF i = 1 THEN seqs[i] ELSE f[i - 1] \o seqs[i]
    <3>1. i - 1 \in 0 .. n /\ w[i - 1] \in Seq(T) /\ f[i] = w[i]
      <4>1. f[i] = w[i]
        OBVIOUS
      <4>2. n \in Nat
        BY <1>1
      <4> HIDE DEF n, f
      <4>3. i - 1 \in 0 .. n
        BY <4>2
      <4>4. w[i - 1] \in Seq(T)
        BY <4>3
      <4> QED BY <4>1, <4>3, <4>4
    <3>2. w[i] = w[i - 1] \o seqs[i]
      BY <2>1, <2>3, <3>1
    <3>3. CASE i = 1
      <4>0. i - 1 = 0
        BY <3>3
      <4>1. w[i] = <<>> \o seqs[i]
        BY <2>3, <3>2, <4>0
      <4>2. <<>> \o seqs[i] = seqs[i]
        BY <1>1, ConcatEmptySeq
      <4> HIDE DEF f
      <4> QED BY <3>1, <3>3, <4>1, <4>2
    <3>4. CASE i # 1
      <4>1. i - 1 \in 1 .. n
        BY <1>1, <3>4
      <4>2. f[i - 1] = w[i - 1]
        BY <4>1
      <4> HIDE DEF f
      <4> QED BY <3>1, <3>2, <3>4, <4>2
    <3> QED BY <3>3, <3>4
  <2>5. f = [i \in 1 .. n |-> f[i]]
    OBVIOUS
  <2>6. Flattens(f, seqs)
    <3> HIDE DEF f
    <3> QED BY <2>4, <2>5 DEF Flattens
  <2> DEFINE d == CHOOSE e : Flattens(e, seqs)
  <2>7. Flattens(d, seqs)
    BY <2>6
  <2>8. FlattenSeq(seqs) = d[n]
    BY <1>3 DEF FlattenSeq, Flattens
  <2> HIDE DEF d
  <2> QED BY <2>7, <2>8
<1> QED BY <1>2, <1>3

\* The transactions of a list of blocks, listed.
LEMMA TxnsListed ==
    ASSUME NEW order, NEW B \in SUBSET Nat, \A h \in B : chain[h] \in Nat,
           NEW blocks, Lists(blocks, B, BlockOrder(order))
    PROVE  Lists(TxnsOf(blocks), TxnsIn(B), TxnOrder(order))
<1> DEFINE n == Len(blocks)
           seqs == [i \in DOMAIN blocks |-> TxnsOfBlock(blocks[i])]
           R == TxnOrder(order)
<1>1. n \in Nat /\ DOMAIN blocks = 1 .. n /\ \A i \in 1 .. n : blocks[i] \in B /\ blocks[i] \in Nat
  BY ListsBasic
<1>2. TxnsOf(blocks) = FlattenSeq(seqs)
  BY DEF TxnsOf, TxnsOfBlock
<1>3. \A i \in 1 .. n : seqs[i] = TxnsOfBlock(blocks[i])
  BY <1>1
<1>4. ASSUME NEW i \in 1 .. n, NEW C, C = {blocks[i]} PROVE Lists(seqs[i], TxnsIn(C), R)
  BY <1>1, <1>3, <1>4, BlockListed
<1>5. \A i \in 1 .. n : seqs[i] \in Seq(AnyTxn)
  <2> SUFFICES ASSUME NEW i \in 1 .. n PROVE seqs[i] \in Seq(AnyTxn)
    OBVIOUS
  <2>1. PICK C : C = {blocks[i]}
    OBVIOUS
  <2>2. Lists(seqs[i], TxnsIn(C), R)
    BY <1>4, <2>1
  <2>3. seqs[i] \in Seq(TxnsIn(C)) /\ TxnsIn(C) \subseteq AnyTxn
    BY <2>2 DEF Lists, TxnsIn
  <2> HIDE DEF seqs
  <2> QED BY <2>3, SeqMonotonic
<1>6. seqs \in Seq(Seq(AnyTxn)) /\ Len(seqs) = n
  <2>1. seqs \in [1 .. n -> Seq(AnyTxn)]
    BY <1>1, <1>5
  <2> HIDE DEF seqs
  <2>2. seqs \in Seq(Seq(AnyTxn))
    BY <1>1, <2>1, SeqDef
  <2> QED BY <1>1, <2>1, <2>2, LenProperties
<1> HIDE DEF seqs
<1>7. CASE n = 0
  <2>1. FlattenSeq(seqs) = <<>>
    BY <1>6, <1>7, FlattenIs
  <2>2. TxnsIn(B) = {}
    <3>1. B = {}
      BY <1>7, ListsBasic
    <3> QED BY <3>1 DEF TxnsIn
  <2>3. <<>> \in Seq(TxnsIn(B)) /\ Len(<<>>) = 0
    BY EmptySeq
  <2>4. Lists(<<>>, TxnsIn(B), R)
    BY <2>2, <2>3 DEF Lists
  <2> QED BY <1>2, <2>1, <2>4
<1>8. CASE n # 0
  <2>1. PICK f : Flattens(f, seqs) /\ FlattenSeq(seqs) = f[n]
    BY <1>6, <1>8, FlattenIs
  <2>2. f[1] = seqs[1] /\ \A i \in 2 .. n : f[i] = f[i - 1] \o seqs[i]
    <3>1. \A i \in 1 .. n : f[i] = IF i = 1 THEN seqs[i] ELSE f[i - 1] \o seqs[i]
      BY <1>6, <2>1 DEF Flattens
    <3>2. 1 \in 1 .. n
      BY <1>1, <1>8
    <3>3. \A i \in 2 .. n : i \in 1 .. n /\ i # 1
      BY <1>1
    <3>4. f[1] = seqs[1]
      BY <3>1, <3>2
    <3>5. \A i \in 2 .. n : f[i] = f[i - 1] \o seqs[i]
      BY <3>1, <3>3
    <3> QED BY <3>4, <3>5
  <2> DEFINE Upto(i) == {blocks[k] : k \in 1 .. i}
             Bad == {i \in 1 .. n : ~ Lists(f[i], TxnsIn(Upto(i)), R)}
  <2>3. Bad = {}
    <3> SUFFICES ASSUME Bad # {} PROVE FALSE
      OBVIOUS
    <3>1. PICK i \in Bad : \A j \in Bad : i <= j
      <4>1. Bad \subseteq Nat
        BY <1>1
      <4> HIDE DEF Bad
      <4> QED BY <4>1, LeastExists
    <3>2. i \in 1 .. n /\ ~ Lists(f[i], TxnsIn(Upto(i)), R)
      BY <3>1
    <3>3. i # 1
      <4> SUFFICES ASSUME i = 1 PROVE FALSE
        OBVIOUS
      <4>1. Upto(1) = {blocks[1]}
        OBVIOUS
      <4>2. Lists(seqs[1], TxnsIn(Upto(1)), R)
        <5> HIDE DEF Upto
        <5> QED BY <1>4, <3>2, <4>1
      <4> QED BY <2>2, <3>2, <4>2
    <3> DEFINE D == Upto(i - 1)
               C == {blocks[i]}
               E == Upto(i)
    <3>4. i - 1 \in 1 .. n /\ i \in 2 .. n
      BY <1>1, <3>2, <3>3
    <3>5. Lists(f[i - 1], TxnsIn(D), R)
      <4>1. i - 1 \notin Bad
        <5> HIDE DEF Bad
        <5> QED BY <1>1, <3>1, <3>2, <3>4
      <4> QED BY <3>4, <4>1
    <3>6. Lists(seqs[i], TxnsIn(C), R)
      <4>1. C = {blocks[i]}
        OBVIOUS
      <4> HIDE DEF C
      <4> QED BY <1>4, <3>2, <4>1
    <3>7. E = D \cup C
      <4>1. \A k \in 1 .. i : k \in 1 .. i - 1 \/ k = i
        BY <1>1, <3>2
      <4>2. \A k \in 1 .. i - 1 : k \in 1 .. i
        BY <1>1, <3>2
      <4>3. i \in 1 .. i
        BY <1>1, <3>2
      <4> QED BY <4>1, <4>2, <4>3
    <3>8. \A x \in TxnsIn(D), y \in TxnsIn(C) : <<x, y>> \in R
      <4> SUFFICES ASSUME NEW x \in TxnsIn(D), NEW y \in TxnsIn(C) PROVE <<x, y>> \in R
        OBVIOUS
      <4>1. x \in AnyTxn /\ y \in AnyTxn /\ x[1] \in D /\ y[1] = blocks[i]
        BY DEF TxnsIn
      <4>2. PICK k \in 1 .. i - 1 : x[1] = blocks[k]
        BY <4>1
      <4>3. k \in 1 .. n /\ k < i
        BY <1>1, <3>2
      <4>4. <<blocks[k], blocks[i]>> \in BlockOrder(order)
        BY <3>2, <4>3 DEF Lists
      <4> QED BY <4>1, <4>2, <4>4, TxnOrderIs
    <3>9. TxnsIn(E) = TxnsIn(D) \cup TxnsIn(C)
      <4> HIDE DEF E, D, C
      <4> QED BY <3>7 DEF TxnsIn
    <3> HIDE DEF D, C, R
    <3>10. Lists(f[i - 1] \o seqs[i], TxnsIn(E), R)
      <4> HIDE DEF E
      <4> QED BY ONLY <3>5, <3>6, <3>8, <3>9, ListsConcat
    <3>11. f[i] = f[i - 1] \o seqs[i]
      BY <2>2, <3>4
    <3> QED BY <3>2, <3>10, <3>11
  <2>4. n \in 1 .. n
    BY <1>1, <1>8
  <2>5. Lists(f[n], TxnsIn(Upto(n)), R)
    BY <2>3, <2>4
  <2>6. Upto(n) = B
    <3>1. \A x \in B : \E k \in 1 .. n : blocks[k] = x
      BY DEF Lists
    <3> QED BY <1>1, <3>1
  <2> HIDE DEF Upto
  <2> QED BY <1>2, <2>1, <2>5, <2>6
<1> QED BY <1>7, <1>8

(* The transactions that the cursor keeps, and how a page comes about: the *)
(* blocks fetched, their transactions without the others, the first of them. *)
Kept(cursor, t) == cursor.type = "none" \/ t[1] # cursor.at \/ t[2] > cursor.txn
Fetch(cursor) == [type |-> cursor.type, at |-> cursor.at, inclusive |-> TRUE]
PageFrom(order, cursor, limit, A, blocks, fresh) ==
    LET B == Between(NonEmpty, order, Fetch(cursor)) IN
    /\ A \subseteq B /\ Lists(blocks, A, BlockOrder(order))
    /\ cursor.type # "before" => Begins(A, B, BlockOrder(order))
    /\ cursor.type = "before" => Ends(A, B, BlockOrder(order))
    /\ Len(blocks) <= limit + 1 /\ (Len(blocks) = limit + 1 \/ A = B)
    /\ Lists(fresh, {t \in TxnsIn(A) : Kept(cursor, t)}, TxnOrder(order))
    /\ TxnPage(order, cursor, limit)
          = SubSeq(fresh, 1, IF Len(fresh) > limit THEN limit ELSE Len(fresh))

(* The heights of the blocks with transactions. *)
BlocksOk == /\ \E n \in Nat : NonEmpty \in SUBSET (1 .. n)
            /\ \A h \in NonEmpty : chain[h] \in Nat /\ chain[h] > 0

\* How a page comes about.
LEMMA PageMade ==
    ASSUME BlocksOk, NEW order \in {"asc", "desc"}, NEW cursor, NEW limit \in Nat
    PROVE  \E A, blocks, fresh : PageFrom(order, cursor, limit, A, blocks, fresh)
<1> DEFINE Q == BlockOrder(order)
           R == TxnOrder(order)
           cur == Fetch(cursor)
           B == Between(NonEmpty, order, cur)
           blocks == ListPaginated(NonEmpty, order, cur, limit + 1)
           txns == TxnsOf(blocks)
           I == {i \in DOMAIN txns :
                    cursor.type = "none" \/ txns[i][1] # cursor.at \/ txns[i][2] > cursor.txn}
           fresh == Filtered(txns, I)
<1>1. PICK n \in Nat : NonEmpty \in SUBSET (1 .. n)
  BY DEF BlocksOk
<1>2. cur.type = cursor.type /\ limit + 1 \in Nat
  BY DEF Fetch
<1>3. B = Between(NonEmpty, order, cur)
  OBVIOUS
<1>4. TxnPage(order, cursor, limit)
         = SubSeq(fresh, 1, IF Len(fresh) > limit THEN limit ELSE Len(fresh))
  BY DEF TxnPage, Fetch
<1> HIDE DEF cur, B
<1>5. /\ B \in SUBSET NonEmpty /\ Len(blocks) <= limit + 1
      /\ \E A \in SUBSET B : /\ Lists(blocks, A, Q)
                             /\ cur.type # "before" => Begins(A, B, Q)
                             /\ cur.type = "before" => Ends(A, B, Q)
                             /\ Len(blocks) = limit + 1 \/ A = B
  <2>1. IsPageOf(blocks, NonEmpty, order, cur, limit + 1)
    BY <1>1, <1>2, BlocksListed
  <2> HIDE DEF blocks
  <2> QED BY <2>1 DEF IsPageOf, B
<1>6. PICK A \in SUBSET B : /\ Lists(blocks, A, Q)
                            /\ cur.type # "before" => Begins(A, B, Q)
                            /\ cur.type = "before" => Ends(A, B, Q)
                            /\ Len(blocks) = limit + 1 \/ A = B
  BY <1>5
<1> HIDE DEF blocks
<1>7. A \in SUBSET Nat /\ \A h \in A : chain[h] \in Nat
  BY <1>1, <1>5 DEF BlocksOk
<1>8. Lists(txns, TxnsIn(A), R)
  BY <1>6, <1>7, TxnsListed
<1>9. Lists(fresh, {t \in TxnsIn(A) : Kept(cursor, t)}, R)
  <2> DEFINE F == {t \in TxnsIn(A) : Kept(cursor, t)}
  <2>1. /\ DOMAIN txns = 1 .. Len(txns)
        /\ \A i \in DOMAIN txns : txns[i] \in TxnsIn(A)
        /\ \A t \in TxnsIn(A) : \E i \in DOMAIN txns : txns[i] = t
    BY <1>8, ListsBasic DEF Lists
  <2>2. \A i \in DOMAIN txns : i \in I <=> Kept(cursor, txns[i])
    BY DEF Kept
  <2>3. I \in SUBSET (DOMAIN txns)
    OBVIOUS
  <2> HIDE DEF I, txns
  <2>4. F = {txns[i] : i \in I}
    <3>1. ASSUME NEW t \in F PROVE \E i \in I : t = txns[i]
      <4>1. PICK i \in DOMAIN txns : txns[i] = t
        BY <2>1
      <4> QED BY <2>2, <4>1
    <3>2. ASSUME NEW i \in I PROVE txns[i] \in F
      BY <2>1, <2>2, <2>3
    <3> QED BY <3>1, <3>2
  <2> HIDE DEF F, R
  <2>5. Lists(fresh, F, R)
    BY <1>8, <2>3, <2>4, ListsFiltered
  <2> QED BY <2>5 DEF F
<1> HIDE DEF fresh
<1>10. PageFrom(order, cursor, limit, A, blocks, fresh)
  <2>1. /\ A \subseteq B /\ Lists(blocks, A, Q)
        /\ cursor.type # "before" => Begins(A, B, Q)
        /\ cursor.type = "before" => Ends(A, B, Q)
        /\ Len(blocks) <= limit + 1 /\ (Len(blocks) = limit + 1 \/ A = B)
    BY <1>2, <1>5, <1>6
  <2> QED BY ONLY <1>4, <1>9, <2>1 DEF PageFrom, B, cur
<1> QED BY <1>10

\* What is fetched at and after, or before, the cursor.
LEMMA BetweenIs ==
    ASSUME NonEmpty \in SUBSET Nat, NEW order \in {"asc", "desc"}, NEW cursor, cursor.at \in Nat,
           cursor.type \in {"none", "after", "before"}, NEW h \in NonEmpty
    PROVE  LET B == Between(NonEmpty, order, Fetch(cursor))
               at == cursor.at IN
           /\ cursor.type = "none" => h \in B
           /\ cursor.type = "after" => (h \in B <=> h = at \/ <<at, h>> \in BlockOrder(order))
           /\ cursor.type = "before" => (h \in B <=> h = at \/ <<h, at>> \in BlockOrder(order))
<1> DEFINE B == Between(NonEmpty, order, Fetch(cursor))
           at == cursor.at
<1>1. h \in B <=> \/ cursor.type = "none"
                  \/ h = at
                  \/ IF (cursor.type = "after") = (order = "asc") THEN h > at ELSE h < at
  BY DEF Between, Fetch
<1>2. h \in Nat /\ at \in Nat
  OBVIOUS
<1>3. /\ <<at, h>> \in BlockOrder(order) <=> (IF order = "asc" THEN at < h ELSE h < at)
      /\ <<h, at>> \in BlockOrder(order) <=> (IF order = "asc" THEN h < at ELSE at < h)
  BY <1>2, BlockOrderIs
<1> HIDE DEF B, at
<1>4. CASE cursor.type = "none"
  BY <1>1, <1>4 DEF B, at
<1>5. CASE cursor.type = "after"
  <2>1. h \in B <=> h = at \/ <<at, h>> \in BlockOrder(order)
    BY <1>1, <1>2, <1>3, <1>5
  <2> QED BY <1>5, <2>1 DEF B, at
<1>6. CASE cursor.type = "before"
  <2>1. h \in B <=> h = at \/ <<h, at>> \in BlockOrder(order)
    BY <1>1, <1>2, <1>3, <1>6
  <2> QED BY <1>6, <2>1 DEF B, at
<1> QED BY <1>4, <1>5, <1>6

\* A beginning of a beginning.
LEMMA BeginsTwice ==
    ASSUME NEW P, NEW A, NEW S, NEW R, Begins(P, A, R), Begins(A, S, R)
    PROVE  Begins(P, S, R)
BY DEF Begins

(* A page of the first transactions of those that are left, Fr.            *)
IsCut(page, order, Fr, fresh, limit) ==
    /\ \E P \in SUBSET Fr : Lists(page, P, TxnOrder(order)) /\ Begins(P, Fr, TxnOrder(order))
    /\ page = <<>> /\ limit # 0 => Fr = {}
    /\ page # <<>> => limit # 0
    /\ Len(fresh) <= limit => page = fresh

\* A page lists the first of the transactions that are left.
LEMMA PageBegins ==
    ASSUME NEW order, NEW Fr \in SUBSET AnyTxn, NEW fresh, Lists(fresh, Fr, TxnOrder(order)),
           NEW limit \in Nat
    PROVE  IsCut(SubSeq(fresh, 1, IF Len(fresh) > limit THEN limit ELSE Len(fresh)),
                 order, Fr, fresh, limit)
<1> DEFINE R == TxnOrder(order)
           k == IF Len(fresh) > limit THEN limit ELSE Len(fresh)
           page == SubSeq(fresh, 1, k)
<1>1. Len(fresh) \in Nat /\ fresh \in Seq(Fr)
  BY ListsBasic
<1>2. k \in 0 .. Len(fresh) /\ (limit # 0 /\ k = 0 => Len(fresh) = 0) /\ (Len(fresh) <= limit => k = Len(fresh))
  BY <1>1
<1>3. Orders(R, AnyTxn)
  BY TxnOrders
<1> HIDE DEF k, R
<1>4. /\ Len(page) = k /\ \A i \in 1 .. k : page[i] = fresh[i]
      /\ \E P \in SUBSET Fr : Lists(page, P, R) /\ Begins(P, Fr, R)
  <2>1. Lists(fresh, Fr, R)
    BY DEF R
  <2>2. Len(page) = k
    BY ONLY <1>2, <1>3, <2>1, Fr \in SUBSET AnyTxn, ListsFirst
  <2>3. \A i \in 1 .. k : page[i] = fresh[i]
    BY ONLY <1>2, <1>3, <2>1, Fr \in SUBSET AnyTxn, ListsFirst
  <2>4. \E P \in SUBSET Fr : Lists(page, P, R) /\ Begins(P, Fr, R)
    BY ONLY <1>2, <1>3, <2>1, Fr \in SUBSET AnyTxn, ListsFirst
  <2> QED BY ONLY <2>2, <2>3, <2>4
<1> HIDE DEF page
<1>5. page = <<>> /\ limit # 0 => Fr = {}
  <2> SUFFICES ASSUME page = <<>>, limit # 0 PROVE Fr = {}
    OBVIOUS
  <2>1. k = 0
    BY <1>4, EmptySeq
  <2>2. Len(fresh) = 0
    BY <1>2, <2>1
  <2> QED BY <2>2, ListsBasic
<1>6. Len(fresh) <= limit => page = fresh
  <2> SUFFICES ASSUME Len(fresh) <= limit PROVE page = fresh
    OBVIOUS
  <2>1. Len(page) = Len(fresh) /\ \A i \in 1 .. Len(fresh) : page[i] = fresh[i]
    BY <1>2, <1>4
  <2>2. page \in Seq(Fr)
    <3>1. PICK P \in SUBSET Fr : Lists(page, P, R)
      BY <1>4
    <3>2. page \in Seq(P)
      BY <3>1 DEF Lists
    <3> QED BY <3>2, SeqMonotonic
  <2> QED BY <1>1, <2>1, <2>2, SeqEqual
<1>7. page # <<>> => limit # 0
  <2> SUFFICES ASSUME limit = 0 PROVE page = <<>>
    OBVIOUS
  <2>1. k = 0
    BY <1>1 DEF k
  <2>2. PICK P \in SUBSET Fr : Lists(page, P, R)
    BY <1>4
  <2> QED BY <1>4, <2>1, <2>2, ListsBasic
<1>8. IsCut(page, order, Fr, fresh, limit)
  BY <1>4, <1>5, <1>6, <1>7 DEF IsCut, R
<1> QED BY <1>8 DEF page, k

(* All transactions of the list; those after one, and those before it.     *)
AllTxns == TxnsIn(NonEmpty)
Later(order, c) == {t \in AllTxns : <<c, t>> \in TxnOrder(order)}
Earlier(order, c) == {t \in AllTxns : <<t, c>> \in TxnOrder(order)}

(* A page of the transactions that are kept, Fr, of the blocks of A.       *)
IsKept(order, cursor, limit, A, fresh, Fr) ==
    /\ Fr = {t \in TxnsIn(A) : Kept(cursor, t)}
    /\ A \subseteq NonEmpty /\ A \subseteq Nat /\ Fr \in SUBSET AllTxns /\ Fr \in SUBSET AnyTxn
    /\ IsCut(TxnPage(order, cursor, limit), order, Fr, fresh, limit)

\* What a page is made of.
LEMMA PageKept ==
    ASSUME BlocksOk, NEW order \in {"asc", "desc"}, NEW cursor, NEW limit \in Nat,
           NEW A, NEW blocks, NEW fresh, PageFrom(order, cursor, limit, A, blocks, fresh)
    PROVE  IsKept(order, cursor, limit, A, fresh, {t \in TxnsIn(A) : Kept(cursor, t)})
<1> DEFINE page == TxnPage(order, cursor, limit)
           Fr == {t \in TxnsIn(A) : Kept(cursor, t)}
           q == SubSeq(fresh, 1, IF Len(fresh) > limit THEN limit ELSE Len(fresh))
<1>1. A \subseteq NonEmpty /\ Lists(fresh, Fr, TxnOrder(order)) /\ page = q
  BY DEF PageFrom, Between
<1>2. A \subseteq Nat
  BY <1>1 DEF BlocksOk
<1>3. Fr \in SUBSET AllTxns /\ Fr \in SUBSET AnyTxn
  BY <1>1 DEF TxnsIn, AllTxns
<1>4. IsCut(q, order, Fr, fresh, limit)
  <2> HIDE DEF Fr
  <2> QED BY <1>1, <1>3, PageBegins
<1> HIDE DEF page, q
<1>5. IsCut(page, order, Fr, fresh, limit)
  BY <1>1, <1>4
<1> QED BY <1>1, <1>2, <1>3, <1>5 DEF IsKept, page

\* The first page is a beginning of the list.
LEMMA PageFirst ==
    ASSUME BlocksOk, NEW order \in {"asc", "desc"}, NEW limit \in Nat
    PROVE  /\ \E P \in SUBSET AllTxns : /\ Lists(TxnPage(order, NoCursor, limit), P, TxnOrder(order))
                                        /\ Begins(P, AllTxns, TxnOrder(order))
           /\ TxnPage(order, NoCursor, limit) # <<>> => limit # 0
<1> DEFINE R == TxnOrder(order)
           Q == BlockOrder(order)
           page == TxnPage(order, NoCursor, limit)
           B == Between(NonEmpty, order, Fetch(NoCursor))
<1>1. PICK A, blocks, fresh : PageFrom(order, NoCursor, limit, A, blocks, fresh)
  BY PageMade
<1> DEFINE Fr == {t \in TxnsIn(A) : Kept(NoCursor, t)}
<1>2. NoCursor.type = "none" /\ NoCursor.at = 0
  BY DEF NoCursor
<1>3. NonEmpty \in SUBSET Nat
  BY DEF BlocksOk
<1>4. B = NonEmpty
  BY <1>2 DEF Between, Fetch
<1>5. Fr = TxnsIn(A)
  BY <1>2 DEF Kept
<1>6. Begins(A, NonEmpty, Q)
  BY <1>1, <1>2, <1>4 DEF PageFrom
<1>7. /\ Fr \in SUBSET AllTxns /\ Fr \in SUBSET AnyTxn
      /\ \E P \in SUBSET Fr : Lists(page, P, R) /\ Begins(P, Fr, R)
      /\ page # <<>> => limit # 0
  <2>1. IsKept(order, NoCursor, limit, A, fresh, Fr)
    BY <1>1, PageKept
  <2> HIDE DEF Fr
  <2> QED BY <2>1 DEF IsKept, IsCut
<1>8. Begins(Fr, AllTxns, R)
  <2>1. ASSUME NEW x \in AllTxns, NEW y \in Fr, <<x, y>> \in R PROVE x \in Fr
    <3>1. /\ x \in AnyTxn /\ x[1] \in NonEmpty /\ x[2] < chain[x[1]]
          /\ y \in AnyTxn /\ y[1] \in A
      BY <1>5, <2>1 DEF AllTxns, TxnsIn
    <3>2. <<x[1], y[1]>> \in Q \/ x[1] = y[1]
      BY <2>1, <3>1, TxnOrderIs
    <3>3. x[1] \in A
      BY <1>6, <3>1, <3>2 DEF Begins
    <3> QED BY <1>5, <3>1, <3>3 DEF TxnsIn
  <2> HIDE DEF Fr
  <2> QED BY <1>7, <2>1 DEF Begins
<1> HIDE DEF Fr, page, R
<1>9. PICK P \in SUBSET Fr : Lists(page, P, R) /\ Begins(P, Fr, R)
  BY <1>7
<1>10. P \in SUBSET AllTxns /\ Begins(P, AllTxns, R)
  BY <1>7, <1>8, <1>9, BeginsTwice
<1> QED BY <1>7, <1>9, <1>10 DEF page, R

\* A page after a transaction is a beginning of what comes after it, and is
\* empty only at the end of the list.
LEMMA PageNext ==
    ASSUME BlocksOk, NEW order \in {"asc", "desc"}, NEW limit \in Nat, NEW c \in AllTxns
    PROVE  /\ \E P \in SUBSET Later(order, c) :
                 /\ Lists(TxnPage(order, After(c), limit), P, TxnOrder(order))
                 /\ Begins(P, Later(order, c), TxnOrder(order))
           /\ TxnPage(order, After(c), limit) = <<>> /\ limit # 0 => Later(order, c) = {}
<1> DEFINE R == TxnOrder(order)
           Q == BlockOrder(order)
           page == TxnPage(order, After(c), limit)
           B == Between(NonEmpty, order, Fetch(After(c)))
           L == Later(order, c)
<1>1. PICK A, blocks, fresh : PageFrom(order, After(c), limit, A, blocks, fresh)
  BY PageMade
<1> DEFINE Fr == {t \in TxnsIn(A) : Kept(After(c), t)}
<1>2. After(c).type = "after" /\ After(c).at = c[1] /\ After(c).txn = c[2]
  BY DEF After
<1>3. NonEmpty \in SUBSET Nat /\ c \in AnyTxn /\ c[1] \in NonEmpty /\ c[1] \in Nat /\ c[2] \in Nat
  BY TxnIs DEF BlocksOk, AllTxns, TxnsIn
<1>4. \A h \in NonEmpty : h \in B <=> h = c[1] \/ <<c[1], h>> \in Q
  BY <1>2, <1>3, BetweenIs
<1>5. \A t \in TxnsIn(A) : t \in Fr <=> t[1] # c[1] \/ t[2] > c[2]
  BY <1>2 DEF Kept
<1>6. A \subseteq B /\ Begins(A, B, Q) /\ Lists(blocks, A, Q)
      /\ (Len(blocks) = limit + 1 \/ A = B)
  BY <1>1, <1>2 DEF PageFrom
<1>7. /\ A \subseteq NonEmpty /\ A \subseteq Nat /\ Fr \in SUBSET AllTxns /\ Fr \in SUBSET AnyTxn
      /\ \E P \in SUBSET Fr : Lists(page, P, R) /\ Begins(P, Fr, R)
      /\ page = <<>> /\ limit # 0 => Fr = {}
  <2>1. IsKept(order, After(c), limit, A, fresh, Fr)
    BY <1>1, PageKept
  <2> HIDE DEF Fr
  <2> QED BY <2>1 DEF IsKept, IsCut
<1>8. \A t \in L : /\ t \in AnyTxn /\ t[1] \in NonEmpty /\ t[2] < chain[t[1]] /\ t[1] \in Nat /\ t[2] \in Nat
                   /\ <<c[1], t[1]>> \in Q \/ (c[1] = t[1] /\ c[2] < t[2])
  BY <1>3, TxnIs, TxnOrderIs DEF Later, AllTxns, TxnsIn
<1>9. \A t \in Fr : /\ t \in L /\ t[1] \in A
  <2> SUFFICES ASSUME NEW t \in Fr PROVE t \in L /\ t[1] \in A
    OBVIOUS
  <2>1. t \in TxnsIn(A) /\ t \in AllTxns /\ t \in AnyTxn
    BY <1>7
  <2>2. t[1] \in A /\ t[1] \in Nat /\ t[2] \in Nat
    BY <2>1, TxnIs DEF TxnsIn
  <2>3. t[1] = c[1] \/ <<c[1], t[1]>> \in Q
    BY <1>4, <1>6, <1>7, <2>2
  <2>4. t[1] # c[1] \/ t[2] > c[2]
    BY <1>5, <2>1
  <2>5. <<c, t>> \in R
    BY <1>3, <2>1, <2>2, <2>3, <2>4, TxnOrderIs
  <2> QED BY <2>1, <2>2, <2>5 DEF Later
<1>10. \A t \in L : t[1] \in A => t \in Fr
  <2> SUFFICES ASSUME NEW t \in L, t[1] \in A PROVE t \in Fr
    OBVIOUS
  <2>1. t \in TxnsIn(A)
    BY <1>8 DEF TxnsIn
  <2>2. t[1] # c[1] \/ t[2] > c[2]
    <3>1. t[1] = c[1] => ~ <<c[1], t[1]>> \in Q
      BY <1>3, BlockOrderIs
    <3> QED BY <1>3, <1>8, <3>1
  <2> QED BY <1>5, <2>1, <2>2
<1>11. \A t \in L : t[1] \in B
  BY <1>4, <1>8
<1> HIDE DEF Fr, page, L, B
<1>12. Begins(Fr, L, R)
  <2>1. ASSUME NEW x \in L, NEW y \in Fr, <<x, y>> \in R PROVE x \in Fr
    <3>1. y \in AnyTxn /\ y[1] \in A /\ x \in AnyTxn /\ x[1] \in B
      BY <1>7, <1>8, <1>9, <1>11, <2>1
    <3>2. <<x[1], y[1]>> \in Q \/ x[1] = y[1]
      BY <2>1, <3>1, TxnOrderIs
    <3>3. x[1] \in A
      BY <1>6, <3>1, <3>2 DEF Begins
    <3> QED BY <1>10, <3>3
  <2> QED BY <1>9, <2>1 DEF Begins
<1> HIDE DEF R, Q
<1>13. PICK P \in SUBSET Fr : Lists(page, P, R) /\ Begins(P, Fr, R)
  BY <1>7
<1>14. P \in SUBSET L /\ Begins(P, L, R)
  BY <1>9, <1>12, <1>13, BeginsTwice
<1>15. page = <<>> /\ limit # 0 => L = {}
  <2> SUFFICES ASSUME page = <<>>, limit # 0, NEW t \in L PROVE FALSE
    OBVIOUS
  <2>1. Fr = {}
    BY <1>7
  <2>2. A # B
    BY <1>10, <1>11, <2>1
  <2>3. Len(blocks) \in Nat /\ Len(blocks) >= 2
    BY <1>6, <2>2
  <2>4. 1 \in 1 .. Len(blocks) /\ 2 \in 1 .. Len(blocks)
    BY <2>3
  <2>5. blocks[1] \in A /\ blocks[2] \in A /\ blocks[1] # blocks[2]
    <3>1. blocks[1] \in A /\ blocks[2] \in A
      BY <1>6, <2>4, ListsBasic
    <3>2. <<blocks[1], blocks[2]>> \in Q
      <4>1. \A i, j \in 1 .. Len(blocks) : i < j => <<blocks[i], blocks[j]>> \in Q
        BY <1>6 DEF Lists
      <4> QED BY <2>4, <4>1
    <3>3. blocks[1] \in Nat /\ blocks[2] \in Nat
      BY <1>7, <3>1
    <3> QED BY <3>1, <3>2, <3>3, BlockOrderIs DEF Q
  <2>6. PICK h \in A : h # c[1]
    BY <2>5
  <2> DEFINE u == <<h, 0>>
  <2>7. u \in AnyTxn /\ u[1] = h /\ u[2] = 0 /\ h \in NonEmpty
    BY <1>7, <2>6 DEF AnyTxn
  <2>8. chain[h] \in Nat /\ chain[h] > 0
    BY <2>7 DEF BlocksOk
  <2> HIDE DEF u
  <2>9. u \in TxnsIn(A)
    BY <2>6, <2>7, <2>8 DEF TxnsIn
  <2>10. u \in Fr
    BY <1>5, <2>6, <2>7, <2>9
  <2> QED BY <2>1, <2>10
<1> QED BY <1>13, <1>14, <1>15 DEF page, R, L

\* A list of one.
LEMMA ListsOne ==
    ASSUME NEW R, NEW x, NEW S, S = {x}
    PROVE  Lists(<<x>>, S, R) /\ Len(<<x>>) = 1
<1>1. <<x>> \in Seq(S) /\ Len(<<x>>) = 1 /\ <<x>>[1] = x
  OBVIOUS
<1>2. \A i, j \in 1 .. 1 : ~ i < j
  OBVIOUS
<1> QED BY <1>1, <1>2 DEF Lists

\* While every block has one transaction, a page before a transaction is an end
\* of what comes before it: without the cursor's block, it is not cut off.
LEMMA PagePrev ==
    ASSUME BlocksOk, NEW order \in {"asc", "desc"}, NEW limit \in Nat, NEW c \in AllTxns,
           \A h \in NonEmpty : chain[h] = 1
    PROVE  \E P \in SUBSET Earlier(order, c) :
              /\ Lists(TxnPage(order, Before(c), limit), P, TxnOrder(order))
              /\ Ends(P, Earlier(order, c), TxnOrder(order))
<1> DEFINE R == TxnOrder(order)
           Q == BlockOrder(order)
           page == TxnPage(order, Before(c), limit)
           B == Between(NonEmpty, order, Fetch(Before(c)))
           E == Earlier(order, c)
<1>1. PICK A, blocks, fresh : PageFrom(order, Before(c), limit, A, blocks, fresh)
  BY PageMade
<1> DEFINE Fr == {t \in TxnsIn(A) : Kept(Before(c), t)}
<1>2. Before(c).type = "before" /\ Before(c).at = c[1] /\ Before(c).txn = c[2]
  BY DEF Before
<1>3. /\ NonEmpty \in SUBSET Nat /\ c \in AnyTxn /\ c[1] \in NonEmpty /\ c[1] \in Nat
      /\ c[2] = 0 /\ c = <<c[1], 0>>
  <2>1. NonEmpty \in SUBSET Nat
    BY DEF BlocksOk
  <2>2. c \in AnyTxn /\ c[1] \in NonEmpty /\ c[2] < chain[c[1]]
    BY DEF AllTxns, TxnsIn
  <2>3. c[1] \in Nat /\ c[2] \in Nat /\ c = <<c[1], c[2]>>
    BY <2>2, TxnIs
  <2> QED BY <2>1, <2>2, <2>3
<1>4. \A h \in NonEmpty : h \in B <=> h = c[1] \/ <<h, c[1]>> \in Q
  BY <1>2, <1>3, BetweenIs
<1>5. A \subseteq B /\ Ends(A, B, Q) /\ Lists(blocks, A, Q) /\ Len(blocks) <= limit + 1
      /\ Lists(fresh, Fr, R)
  BY <1>1, <1>2 DEF PageFrom
<1>6. /\ A \subseteq NonEmpty /\ A \subseteq Nat /\ Fr \in SUBSET AllTxns /\ Fr \in SUBSET AnyTxn
      /\ Len(fresh) <= limit => page = fresh
  <2>1. IsKept(order, Before(c), limit, A, fresh, Fr)
    BY <1>1, PageKept
  <2> HIDE DEF Fr
  <2> QED BY <2>1 DEF IsKept, IsCut
<1>7. \A t \in AllTxns : t \in AnyTxn /\ t[1] \in NonEmpty /\ t[1] \in Nat /\ t[2] = 0
  BY <1>3, TxnIs DEF AllTxns, TxnsIn
<1>8. \A t \in AllTxns : t \in Fr <=> t[1] \in A /\ t[1] # c[1]
  BY <1>2, <1>3, <1>7 DEF Kept, AllTxns, TxnsIn
<1>9. \A t, u \in AllTxns : <<t, u>> \in R <=> <<t[1], u[1]>> \in Q
  <2> SUFFICES ASSUME NEW t \in AllTxns, NEW u \in AllTxns
               PROVE  <<t, u>> \in R <=> <<t[1], u[1]>> \in Q
    OBVIOUS
  <2>1. t \in AnyTxn /\ u \in AnyTxn /\ ~ t[2] < u[2]
    BY <1>7
  <2> QED BY <2>1, TxnOrderIs
<1>10. \A h \in Nat : <<h, h>> \notin Q
  BY BlockOrderIs
<1>11. E = {t \in AllTxns : <<t[1], c[1]>> \in Q}
  BY <1>9 DEF Earlier
<1> HIDE DEF Fr, page, E, B, Q, R
<1>12. \A t \in Fr : t \in AllTxns /\ t[1] \in A /\ t[1] # c[1]
  BY <1>6, <1>8
<1>13. Fr \in SUBSET E
  BY <1>4, <1>5, <1>6, <1>11, <1>12
<1>14. Ends(Fr, E, R)
  <2>1. ASSUME NEW x \in E, NEW y \in Fr, <<y, x>> \in R PROVE x \in Fr
    <3>1. x \in AllTxns /\ <<x[1], c[1]>> \in Q /\ y \in AllTxns /\ y[1] \in A
      BY <1>11, <1>12, <2>1
    <3>2. x[1] \in B /\ x[1] # c[1] /\ <<y[1], x[1]>> \in Q
      BY <1>4, <1>7, <1>9, <1>10, <2>1, <3>1
    <3>3. x[1] \in A
      BY <1>5, <3>1, <3>2 DEF Ends
    <3> QED BY <1>8, <3>1, <3>2, <3>3
  <2> QED BY <1>13, <2>1 DEF Ends
<1>15. Len(fresh) <= limit
  <2>1. CASE A = {}
    <3>1. Fr = {}
      BY <1>12, <2>1
    <3> QED BY <1>5, <3>1, ListsBasic
  <2>2. CASE A # {}
    <3> DEFINE n == Len(fresh)
               hs == [i \in 1 .. n |-> fresh[i][1]]
               H == A \ {c[1]}
               C == {c[1]}
    <3>1. /\ n \in Nat /\ (\A i \in 1 .. n : fresh[i] \in Fr)
          /\ \A i, j \in 1 .. n : i < j => <<fresh[i], fresh[j]>> \in R
          /\ \A t \in Fr : \E i \in 1 .. n : fresh[i] = t
      BY <1>5, ListsBasic DEF Lists
    <3>2. c[1] \in A
      <4>1. PICK a \in A : TRUE
        BY <2>2
      <4>2. a \in NonEmpty /\ (a = c[1] \/ <<a, c[1]>> \in Q) /\ c[1] \in B
        BY <1>3, <1>4, <1>5, <1>6
      <4> QED BY <1>5, <4>2 DEF Ends
    <3> HIDE DEF n
    <3>3. hs \in [1 .. n -> H]
      BY <1>12, <3>1
    <3>4. hs \in Seq(H) /\ Len(hs) = n
      <4>1. hs \in Seq(H)
        BY <3>1, <3>3, SeqDef
      <4> HIDE DEF H
      <4>2. DOMAIN hs = 1 .. n
        OBVIOUS
      <4> HIDE DEF hs
      <4> QED BY <3>1, <4>1, <4>2, LenProperties
    <3>5. ASSUME NEW i \in 1 .. n, NEW j \in 1 .. n, i < j PROVE <<hs[i], hs[j]>> \in Q
      BY <1>9, <1>12, <3>1, <3>5
    <3>6. ASSUME NEW h \in H PROVE \E i \in 1 .. n : hs[i] = h
      <4> DEFINE t == <<h, 0>>
      <4>1. t \in AnyTxn /\ t[1] = h /\ t[2] = 0 /\ h \in A /\ h # c[1] /\ h \in NonEmpty
        BY <1>6 DEF AnyTxn
      <4>2. t \in AllTxns
        BY <4>1 DEF AllTxns, TxnsIn
      <4> HIDE DEF t
      <4>3. PICK i \in 1 .. n : fresh[i] = t
        BY <1>8, <3>1, <4>1, <4>2
      <4> QED BY <4>1, <4>3
    <3> HIDE DEF hs
    <3>7. Lists(hs, H, Q)
      BY <3>4, <3>5, <3>6 DEF Lists
    <3>8. Lists(<<c[1]>>, C, Q) /\ Len(<<c[1]>>) = 1
      BY ListsOne
    <3>9. /\ \A x \in H, y \in C : <<x, y>> \in Q
          /\ A = H \cup C
      BY <1>4, <1>5, <1>6, <3>2
    <3> HIDE DEF H, C
    <3> DEFINE cs == <<c[1]>>
    <3>10. Lists(cs, C, Q) /\ Len(cs) = 1
      BY <3>8
    <3> HIDE DEF cs
    <3>11. Lists(hs \o cs, A, Q) /\ Len(hs \o cs) = Len(hs) + Len(cs)
      <4>1. Lists(hs \o cs, A, Q)
        BY ONLY <3>7, <3>9, <3>10, ListsConcat
      <4>2. hs \in Seq(A) /\ cs \in Seq(A)
        <5>1. hs \in Seq(H) /\ cs \in Seq(C)
          BY <3>7, <3>10 DEF Lists
        <5>2. H \subseteq A /\ C \subseteq A
          BY <3>9
        <5> QED BY <5>1, <5>2, SeqMonotonic
      <4>3. Len(hs \o cs) = Len(hs) + Len(cs)
        BY <4>2, ConcatProperties
      <4> QED BY <4>1, <4>3
    <3>12. Orders(Q, Nat) /\ A \in SUBSET Nat
      BY <1>6, BlockOrders DEF Q
    <3>13. blocks = hs \o cs
      BY <1>5, <3>11, <3>12, ListsUnique
    <3>14. n + 1 <= limit + 1
      BY <1>5, <3>4, <3>10, <3>11, <3>13
    <3> QED BY <3>1, <3>14 DEF n
  <2> QED BY <2>1, <2>2
<1>16. Lists(page, Fr, R)
  BY <1>5, <1>6, <1>15
<1> QED BY <1>13, <1>14, <1>16 DEF page, E, R

\* A page has transactions.
LEMMA PageType ==
    ASSUME BlocksOk, NEW order \in {"asc", "desc"}, NEW cursor, NEW limit \in Nat
    PROVE  TxnPage(order, cursor, limit) \in Seq(AnyTxn)
<1> DEFINE page == TxnPage(order, cursor, limit)
<1>1. PICK A, blocks, fresh : PageFrom(order, cursor, limit, A, blocks, fresh)
  BY PageMade
<1> DEFINE Fr == {t \in TxnsIn(A) : Kept(cursor, t)}
<1>2. IsKept(order, cursor, limit, A, fresh, Fr)
  BY <1>1, PageKept
<1> HIDE DEF Fr
<1>3. PICK P \in SUBSET Fr : Lists(page, P, TxnOrder(order))
  BY <1>2 DEF IsKept, IsCut
<1>4. P \subseteq AnyTxn
  BY <1>2, <1>3 DEF IsKept
<1>5. page \in Seq(P)
  BY <1>3 DEF Lists
<1> HIDE DEF page
<1>6. page \in Seq(AnyTxn)
  BY <1>4, <1>5, SeqMonotonic
<1> QED BY <1>6 DEF page

-----------------------------------------------------------------------------
(* Listings: what a client has seen.                                       *)

(* The part of the list that a client has seen has no gap.                 *)
Convex(A, S, R) == \A x, z \in A, y \in S : <<x, y>> \in R /\ <<y, z>> \in R => y \in A
SeenOk(seen, S, R) == \E A \in SUBSET S : Lists(seen, A, R) /\ Convex(A, S, R)

\* Where a listing begins and ends.
LEMMA ListsEnds ==
    ASSUME NEW R, NEW T, Orders(R, T), NEW A \in SUBSET T, NEW s, Lists(s, A, R), s # <<>>
    PROVE  /\ Len(s) \in Nat \ {0}
           /\ Head(s) = s[1] /\ Head(s) \in A /\ Last(s) = s[Len(s)] /\ Last(s) \in A
           /\ \A x \in A : x = Head(s) \/ <<Head(s), x>> \in R
           /\ \A x \in A : x = Last(s) \/ <<x, Last(s)>> \in R
<1>1. Len(s) \in Nat /\ Len(s) # 0 /\ s \in Seq(A) /\ \A i \in 1 .. Len(s) : s[i] \in A
  BY ListsBasic
<1> DEFINE n == Len(s)
<1>2. n \in Nat \ {0} /\ 1 \in 1 .. n /\ n \in 1 .. n
  BY <1>1
<1>3. Head(s) = s[1] /\ Last(s) = s[n]
  BY <1>1, HeadTailProperties DEF Last
<1>4. \A i, j \in 1 .. n : i < j => <<s[i], s[j]>> \in R
  BY DEF Lists
<1>5. \A x \in A : \E i \in 1 .. n : s[i] = x
  BY DEF Lists
<1>6. \A i \in 1 .. n : s[i] \in A
  BY <1>1
<1> HIDE DEF n
<1>7. ASSUME NEW x \in A PROVE (x = s[1] \/ <<s[1], x>> \in R) /\ (x = s[n] \/ <<x, s[n]>> \in R)
  <2>1. PICK i \in 1 .. n : s[i] = x
    BY <1>5
  <2>2. (i = 1 \/ 1 < i) /\ (i = n \/ i < n)
    BY <1>2
  <2> QED BY <1>2, <1>4, <2>1, <2>2
<1>8. s[1] \in A /\ s[n] \in A
  BY <1>2, <1>6
<1> QED BY <1>2, <1>3, <1>7, <1>8 DEF n

\* The ends of what has been seen are in the list.
LEMMA SeenEnds ==
    ASSUME NEW R, NEW T, Orders(R, T), NEW S \in SUBSET T, NEW s, SeenOk(s, S, R), s # <<>>
    PROVE  Head(s) \in S /\ Last(s) \in S
<1>1. PICK A \in SUBSET S : Lists(s, A, R)
  BY DEF SeenOk
<1>2. A \in SUBSET T
  OBVIOUS
<1>3. Head(s) \in A /\ Last(s) \in A
  BY <1>1, <1>2, ListsEnds
<1> QED BY <1>3

\* A beginning of the list has been seen.
LEMMA SeenFirst ==
    ASSUME NEW R, NEW S, NEW P \in SUBSET S, NEW s, Lists(s, P, R), Begins(P, S, R)
    PROVE  SeenOk(s, S, R)
BY DEF SeenOk, Convex, Begins

\* A beginning of what comes after it is added to what has been seen.
LEMMA SeenNext ==
    ASSUME NEW R, NEW T, Orders(R, T), NEW S \in SUBSET T, NEW s, SeenOk(s, S, R), s # <<>>,
           NEW L, L = {t \in S : <<Last(s), t>> \in R}, NEW page, NEW P \in SUBSET L,
           Lists(page, P, R), Begins(P, L, R)
    PROVE  SeenOk(s \o page, S, R)
<1>1. PICK A \in SUBSET S : Lists(s, A, R) /\ Convex(A, S, R)
  BY DEF SeenOk
<1> DEFINE c == Last(s)
           U == A \cup P
<1>2. c \in A /\ \A x \in A : x = c \/ <<x, c>> \in R
  <2>1. A \in SUBSET T
    OBVIOUS
  <2> QED BY <1>1, <2>1, ListsEnds
<1>3. \A t : t \in L <=> t \in S /\ <<c, t>> \in R
  OBVIOUS
<1> HIDE DEF c
<1>4. /\ \A x, y \in S : ~ (<<x, y>> \in R /\ <<y, x>> \in R)
      /\ \A x, y \in S : x = y \/ <<x, y>> \in R \/ <<y, x>> \in R
      /\ \A x, y, z \in S : <<x, y>> \in R /\ <<y, z>> \in R => <<x, z>> \in R
  BY DEF Orders
<1>5. \A x \in A, y \in P : <<x, y>> \in R
  BY <1>2, <1>3, <1>4
<1>6. U = A \cup P /\ U \in SUBSET S
  BY <1>3
<1> HIDE DEF U
<1>7. Lists(s \o page, U, R)
  BY ONLY <1>1, <1>5, <1>6, Lists(page, P, R), ListsConcat
<1>8. ASSUME NEW x \in U, NEW z \in U, NEW y \in S, <<x, y>> \in R, <<y, z>> \in R PROVE y \in U
  <2>1. x \in S /\ z \in S /\ c \in S
    BY <1>2, <1>6
  <2>2. CASE y = c
    BY <1>2, <1>6, <2>2
  <2>3. CASE <<y, c>> \in R
    <3>1. x \notin P
      BY <1>3, <1>4, <1>8, <2>1, <2>3
    <3>2. x \in A
      BY <1>6, <3>1
    <3>3. y \in A
      BY <1>1, <1>2, <1>8, <2>3, <3>2 DEF Convex
    <3> QED BY <1>6, <3>3
  <2>4. CASE <<c, y>> \in R
    <3>1. y \in L
      BY <1>3, <2>4
    <3>2. z \notin A
      BY <1>2, <1>4, <1>8, <2>1, <2>4
    <3>3. z \in P
      BY <1>6, <3>2
    <3>4. y \in P
      BY <1>8, <3>1, <3>3 DEF Begins
    <3> QED BY <1>6, <3>4
  <2> QED BY <1>4, <2>1, <2>2, <2>3, <2>4
<1>9. Convex(U, S, R)
  BY <1>8 DEF Convex
<1> QED BY <1>6, <1>7, <1>9 DEF SeenOk

\* An end of what comes before it is put in front of what has been seen.
LEMMA SeenPrev ==
    ASSUME NEW R, NEW T, Orders(R, T), NEW S \in SUBSET T, NEW s, SeenOk(s, S, R), s # <<>>,
           NEW E, E = {t \in S : <<t, Head(s)>> \in R}, NEW page, NEW P \in SUBSET E,
           Lists(page, P, R), Ends(P, E, R)
    PROVE  SeenOk(page \o s, S, R)
<1>1. PICK A \in SUBSET S : Lists(s, A, R) /\ Convex(A, S, R)
  BY DEF SeenOk
<1> DEFINE c == Head(s)
           U == P \cup A
<1>2. c \in A /\ \A x \in A : x = c \/ <<c, x>> \in R
  <2>1. A \in SUBSET T
    OBVIOUS
  <2> QED BY <1>1, <2>1, ListsEnds
<1>3. \A t : t \in E <=> t \in S /\ <<t, c>> \in R
  OBVIOUS
<1> HIDE DEF c
<1>4. /\ \A x, y \in S : ~ (<<x, y>> \in R /\ <<y, x>> \in R)
      /\ \A x, y \in S : x = y \/ <<x, y>> \in R \/ <<y, x>> \in R
      /\ \A x, y, z \in S : <<x, y>> \in R /\ <<y, z>> \in R => <<x, z>> \in R
  BY DEF Orders
<1>5. \A x \in P, y \in A : <<x, y>> \in R
  BY <1>2, <1>3, <1>4
<1>6. U = P \cup A /\ U \in SUBSET S
  BY <1>3
<1> HIDE DEF U
<1>7. Lists(page \o s, U, R)
  BY ONLY <1>1, <1>5, <1>6, Lists(page, P, R), ListsConcat
<1>8. ASSUME NEW x \in U, NEW z \in U, NEW y \in S, <<x, y>> \in R, <<y, z>> \in R PROVE y \in U
  <2>1. x \in S /\ z \in S /\ c \in S
    BY <1>2, <1>6
  <2>2. CASE y = c
    BY <1>2, <1>6, <2>2
  <2>3. CASE <<c, y>> \in R
    <3>1. z \notin P
      BY <1>3, <1>4, <1>8, <2>1, <2>3
    <3>2. z \in A
      BY <1>6, <3>1
    <3>3. y \in A
      BY <1>1, <1>2, <1>8, <2>3, <3>2 DEF Convex
    <3> QED BY <1>6, <3>3
  <2>4. CASE <<y, c>> \in R
    <3>1. y \in E
      BY <1>3, <2>4
    <3>2. x \notin A
      BY <1>2, <1>4, <1>8, <2>1, <2>4
    <3>3. x \in P
      BY <1>6, <3>2
    <3>4. y \in P
      BY <1>8, <3>1, <3>3 DEF Ends
    <3> QED BY <1>6, <3>4
  <2> QED BY <1>4, <2>1, <2>2, <2>3, <2>4
<1>9. Convex(U, S, R)
  BY <1>8 DEF Convex
<1> QED BY <1>6, <1>7, <1>9 DEF SeenOk

\* Elements beyond an end of the list leave no gap in what has been seen.
LEMMA SeenGrows ==
    ASSUME NEW R, NEW T, Orders(R, T), NEW S, NEW N \in SUBSET T, S \subseteq N, NEW s, SeenOk(s, S, R),
           \A y \in N \ S : (\A x \in S : <<x, y>> \in R) \/ (\A x \in S : <<y, x>> \in R)
    PROVE  SeenOk(s, N, R)
<1>1. PICK A \in SUBSET S : Lists(s, A, R) /\ Convex(A, S, R)
  BY DEF SeenOk
<1>2. ASSUME NEW x \in A, NEW z \in A, NEW y \in N, <<x, y>> \in R, <<y, z>> \in R PROVE y \in A
  <2>1. x \in S /\ z \in S /\ x \in T /\ y \in T /\ z \in T
    OBVIOUS
  <2>2. y \in S
    BY <1>2, <2>1 DEF Orders
  <2> QED BY <1>1, <1>2, <2>2 DEF Convex
<1>3. Convex(A, N, R) /\ A \in SUBSET N
  BY <1>2 DEF Convex
<1> QED BY <1>1, <1>3 DEF SeenOk

(* A part of the list, from one position to another, which with nothing    *)
(* after it is an end of the list.                                         *)
IsPart(s, all, S, R) ==
    /\ \E i \in DOMAIN all : s = SubSeq(all, i, i + Len(s) - 1)
    /\ {t \in S : <<Last(s), t>> \in R} = {} => Last(s) = Last(all)

\* What has been seen is such a part.
LEMMA SeenShown ==
    ASSUME NEW R, NEW T, Orders(R, T), NEW S \in SUBSET T, NEW s, SeenOk(s, S, R), s # <<>>,
           NEW all, Lists(all, S, R)
    PROVE  IsPart(s, all, S, R)
<1>1. PICK A \in SUBSET S : Lists(s, A, R) /\ Convex(A, S, R)
  BY DEF SeenOk
<1>2. A \in SUBSET T
  OBVIOUS
<1> DEFINE a == Head(s)
           b == Last(s)
<1>3. /\ a \in A /\ b \in A
      /\ \A x \in A : x = a \/ <<a, x>> \in R
      /\ \A x \in A : x = b \/ <<x, b>> \in R
  BY <1>1, <1>2, ListsEnds
<1>4. /\ Len(all) \in Nat /\ DOMAIN all = 1 .. Len(all) /\ all # <<>>
      /\ \A k \in 1 .. Len(all) : all[k] \in S
      /\ \A x \in S : \E k \in 1 .. Len(all) : all[k] = x
  BY <1>3, ListsBasic DEF Lists
<1> HIDE DEF a, b
<1>5. PICK i \in 1 .. Len(all) : all[i] = a
  BY <1>3, <1>4
<1>6. PICK j \in 1 .. Len(all) : all[j] = b
  BY <1>3, <1>4
<1>7. \A k, l \in 1 .. Len(all) : k < l => <<all[k], all[l]>> \in R
  BY DEF Lists
<1>8. /\ \A x, y \in S : ~ (<<x, y>> \in R /\ <<y, x>> \in R)
      /\ \A x, y \in S : x = y \/ <<x, y>> \in R \/ <<y, x>> \in R
      /\ \A x \in S : <<x, x>> \notin R
  BY DEF Orders
<1>9. \A k, l \in 1 .. Len(all) : <<all[k], all[l]>> \in R => k < l
  <2> SUFFICES ASSUME NEW k \in 1 .. Len(all), NEW l \in 1 .. Len(all), <<all[k], all[l]>> \in R
               PROVE  k < l
    OBVIOUS
  <2>1. all[k] \in S /\ all[l] \in S
    BY <1>4
  <2>2. k # l
    BY <1>8, <2>1
  <2>3. ~ l < k
    BY <1>7, <1>8, <2>1
  <2> QED BY <1>4, <2>2, <2>3
<1>10. i <= j
  <2>1. a = b \/ <<a, b>> \in R
    BY <1>3
  <2>2. CASE a = b
    <3>1. ~ j < i
      BY <1>4, <1>5, <1>6, <1>7, <1>8, <2>2
    <3> QED BY <1>4, <3>1
  <2>3. CASE <<a, b>> \in R
    BY <1>4, <1>5, <1>6, <1>9, <2>3
  <2> QED BY <2>1, <2>2, <2>3
<1>11. A = {all[k] : k \in i .. j}
  <2>1. ASSUME NEW x \in A PROVE \E k \in i .. j : x = all[k]
    <3>1. PICK k \in 1 .. Len(all) : all[k] = x
      BY <1>4
    <3>2. ~ k < i
      <4>1. k < i => <<x, a>> \in R
        BY <1>5, <1>7, <3>1
      <4>2. x = a \/ <<a, x>> \in R
        BY <1>3
      <4> QED BY <1>3, <1>8, <4>1, <4>2
    <3>3. ~ j < k
      <4>1. j < k => <<b, x>> \in R
        BY <1>6, <1>7, <3>1
      <4>2. x = b \/ <<x, b>> \in R
        BY <1>3
      <4> QED BY <1>3, <1>8, <4>1, <4>2
    <3>4. k \in i .. j
      BY <1>4, <3>2, <3>3
    <3> QED BY <3>1, <3>4
  <2>2. ASSUME NEW k \in i .. j PROVE all[k] \in A
    <3>1. k \in 1 .. Len(all) /\ (k = i \/ i < k) /\ (k = j \/ k < j)
      BY <1>4
    <3>2. (k = i \/ <<a, all[k]>> \in R) /\ (k = j \/ <<all[k], b>> \in R)
      BY <1>5, <1>6, <1>7, <3>1
    <3>3. all[k] \in S
      BY <1>4, <3>1
    <3> QED BY <1>1, <1>3, <1>5, <1>6, <3>2, <3>3 DEF Convex
  <2> QED BY <2>1, <2>2
<1> DEFINE part == SubSeq(all, i, j)
<1>12. Lists(part, A, R) /\ Len(part) = j - i + 1
  <2>1. i \in 1 .. Len(all) + 1 /\ j \in i - 1 .. Len(all)
    BY <1>4, <1>10
  <2>2. Lists(part, A, R)
    BY ONLY <1>11, <2>1, Lists(all, S, R), ListsPart
  <2>3. Len(part) = j - i + 1
    BY ONLY <1>11, <2>1, Lists(all, S, R), ListsPart
  <2> QED BY <2>2, <2>3
<1> HIDE DEF part
<1>13. s = part
  BY <1>1, <1>2, <1>12, ListsUnique
<1>14. s = SubSeq(all, i, i + Len(s) - 1)
  <2>1. i + Len(s) - 1 = j
    BY <1>4, <1>12, <1>13
  <2> QED BY <1>13, <2>1 DEF part
<1>15. {t \in S : <<b, t>> \in R} = {} => b = Last(all)
  <2> SUFFICES ASSUME {t \in S : <<b, t>> \in R} = {} PROVE b = Last(all)
    OBVIOUS
  <2>1. Len(all) \in 1 .. Len(all)
    BY <1>4, ListsBasic
  <2>2. ~ j < Len(all)
    BY <1>4, <1>6, <1>7, <2>1
  <2>3. j = Len(all)
    <3>1. Len(all) \in Nat
      BY <1>4
    <3> QED BY <2>2, <3>1
  <2> QED BY <1>6, <2>3 DEF Last
<1> QED BY <1>4, <1>5, <1>14, <1>15 DEF IsPart, b

(* The cursor of list_blocks. *)
Bare(cursor) == [type |-> cursor.type, at |-> cursor.at, inclusive |-> FALSE]

\* What comes before and after the cursor.
LEMMA BetweenBare ==
    ASSUME NEW S \in SUBSET Nat, NEW order \in {"asc", "desc"}, NEW at \in Nat, NEW i, NEW h \in S
    PROVE  /\ h \in Between(S, order, Bare(NoCursor))
           /\ h \in Between(S, order, Bare(After(<<at, i>>))) <=> <<at, h>> \in BlockOrder(order)
           /\ h \in Between(S, order, Bare(Before(<<at, i>>))) <=> <<h, at>> \in BlockOrder(order)
<1>1. h \in Nat /\ at \in Nat
  OBVIOUS
<1>2. /\ <<at, h>> \in BlockOrder(order) <=> (IF order = "asc" THEN at < h ELSE h < at)
      /\ <<h, at>> \in BlockOrder(order) <=> (IF order = "asc" THEN h < at ELSE at < h)
  BY <1>1, BlockOrderIs
<1>3. h \in Between(S, order, Bare(NoCursor))
  BY DEF Between, Bare, NoCursor
<1>4. h \in Between(S, order, Bare(After(<<at, i>>))) <=> (IF order = "asc" THEN at < h ELSE h < at)
  BY <1>1 DEF Between, Bare, After
<1>5. h \in Between(S, order, Bare(Before(<<at, i>>))) <=> (IF order = "asc" THEN h < at ELSE at < h)
  BY <1>1 DEF Between, Bare, Before
<1> QED BY <1>2, <1>3, <1>4, <1>5

\* A full page before a cursor is all of what comes before it, when that is no
\* more than a page.
LEMMA PageOfAll ==
    ASSUME NEW n \in Nat, NEW S \in SUBSET (1 .. n), NEW order \in {"asc", "desc"}, NEW cursor,
           cursor.type = "before", NEW limit \in Nat,
           NEW page, Lists(page, Between(S, order, cursor), BlockOrder(order)), Len(page) <= limit
    PROVE  ListPaginated(S, order, cursor, limit) = page
<1> DEFINE B == Between(S, order, cursor)
           Q == BlockOrder(order)
           up == Ascending(B)
           listed == IF order = "asc" THEN up ELSE Reverse(up)
           m == Len(listed)
<1>1. B \in SUBSET (1 .. n)
  BY DEF Between
<1>2. B \in SUBSET Nat
  <2>1. \A x \in 1 .. n : x \in Nat
    OBVIOUS
  <2> HIDE DEF B
  <2> QED BY <1>1, <2>1
<1>3. Lists(listed, B, Q)
  <2>1. Lists(Keys(B, order), B, Q)
    BY <1>1, KeysListed
  <2> QED BY <2>1 DEF Keys
<1>4. ListPaginated(S, order, cursor, limit)
         = SubSeq(listed, IF m > limit THEN m - limit + 1 ELSE 1, m)
  BY DEF ListPaginated
<1> HIDE DEF listed
<1>5. listed = page
  <2>1. Orders(Q, Nat) /\ Lists(page, B, Q)
    BY BlockOrders
  <2> HIDE DEF B, Q
  <2> QED BY <1>2, <1>3, <2>1, ListsUnique
<1>6. m \in Nat /\ listed \in Seq(B) /\ ~ m > limit
  <2>1. Len(listed) \in Nat /\ listed \in Seq(B)
    BY <1>3, ListsBasic
  <2> QED BY <1>5, <2>1
<1>7. SubSeq(listed, 1, m) = listed
  <2> DEFINE q == SubSeq(listed, 1, m)
  <2>1. Len(q) = m /\ \A i \in 1 .. m : q[i] = listed[i]
    <3>1. m \in 0 .. Len(listed) /\ Orders(Q, Nat)
      BY <1>6, BlockOrders
    <3> HIDE DEF B, Q, m
    <3>2. Len(q) = m
      BY ONLY <1>2, <1>3, <3>1, ListsFirst
    <3>3. \A i \in 1 .. m : q[i] = listed[i]
      BY ONLY <1>2, <1>3, <3>1, ListsFirst
    <3> QED BY <3>2, <3>3
  <2>2. q \in Seq(B)
    <3>1. q = [i \in 1 .. m |-> listed[i]]
      <4>1. m \in Nat
        BY <1>6
      <4> HIDE DEF m
      <4> QED BY <4>1
    <3>2. \A i \in 1 .. m : listed[i] \in B
      BY <1>3, ListsBasic
    <3> HIDE DEF B, q
    <3>3. q \in [1 .. m -> B]
      BY <3>1, <3>2
    <3> QED BY <1>6, <3>3, SeqDef
  <2> HIDE DEF q, B
  <2> QED BY <1>6, <2>1, <2>2, SeqEqual
<1> QED BY <1>4, <1>5, <1>6, <1>7

(* From a page of blocks to the next one and back.                         *)
TurnsAt(S, order, limit) ==
    LET page == ListPaginated(S, order, Bare(NoCursor), limit)
        next == ListPaginated(S, order, Bare(After(<<Last(page), 0>>)), limit)
    IN  page # <<>> /\ next # <<>> =>
            ListPaginated(S, order, Bare(Before(<<Head(next), 0>>)), limit) = page

\* One comes back to the same page.
LEMMA TurnsBack ==
    ASSUME NEW n \in Nat, NEW S \in SUBSET (1 .. n), NEW order \in {"asc", "desc"}, NEW limit \in Nat
    PROVE  TurnsAt(S, order, limit)
<1> SUFFICES
      ASSUME NEW page, page = ListPaginated(S, order, Bare(NoCursor), limit), page # <<>>,
             NEW next, next = ListPaginated(S, order, Bare(After(<<Last(page), 0>>)), limit),
             next # <<>>
      PROVE  ListPaginated(S, order, Bare(Before(<<Head(next), 0>>)), limit) = page
  BY DEF TurnsAt
<1> DEFINE Q == BlockOrder(order)
           B1 == Between(S, order, Bare(NoCursor))
           B2 == Between(S, order, Bare(After(<<Last(page), 0>>)))
           B3 == Between(S, order, Bare(Before(<<Head(next), 0>>)))
<1>1. /\ \A c : Bare(c).type = c.type /\ NoCursor.type = "none"
      /\ \A t : After(t).type = "after" /\ Before(t).type = "before"
  BY DEF Bare, NoCursor, After, Before
<1>2. S \in SUBSET Nat /\ Orders(Q, Nat)
  <2>1. \A x \in 1 .. n : x \in Nat
    OBVIOUS
  <2> QED BY <2>1, BlockOrders
<1>3. PICK A \in SUBSET B1 : Lists(page, A, Q) /\ Begins(A, B1, Q)
  <2>1. IsPageOf(page, S, order, Bare(NoCursor), limit)
    BY BlocksListed
  <2> QED BY <1>1, <2>1 DEF IsPageOf
<1>4. Len(page) <= limit
  <2>1. IsPageOf(page, S, order, Bare(NoCursor), limit)
    BY BlocksListed
  <2> QED BY <2>1 DEF IsPageOf
<1>5. PICK C \in SUBSET B2 : Lists(next, C, Q) /\ Begins(C, B2, Q)
  <2>1. IsPageOf(next, S, order, Bare(After(<<Last(page), 0>>)), limit)
    BY BlocksListed
  <2> QED BY <1>1, <2>1 DEF IsPageOf
<1> DEFINE l == Last(page)
           h == Head(next)
<1>6. A \in SUBSET Nat /\ C \in SUBSET Nat /\ A \subseteq S /\ C \subseteq S
  BY <1>2 DEF Between
<1>7. l \in A /\ \A x \in A : x = l \/ <<x, l>> \in Q
  <2> HIDE DEF Q
  <2>1. Orders(Q, Nat) /\ A \in SUBSET Nat /\ Lists(page, A, Q) /\ page # <<>>
    BY <1>2, <1>3, <1>6
  <2> QED BY ONLY <2>1, ListsEnds
<1>8. h \in C /\ \A x \in C : x = h \/ <<h, x>> \in Q
  <2> HIDE DEF Q
  <2>1. Orders(Q, Nat) /\ C \in SUBSET Nat /\ Lists(next, C, Q) /\ next # <<>>
    BY <1>2, <1>5, <1>6
  <2> QED BY ONLY <2>1, ListsEnds
<1>9. l \in Nat /\ h \in Nat /\ l \in S /\ h \in S
  BY <1>6, <1>7, <1>8
<1>10. \A x \in S : /\ x \in B1
                    /\ x \in B2 <=> <<l, x>> \in Q
                    /\ x \in B3 <=> <<x, h>> \in Q
  <2>1. \A x \in S : x \in B1 /\ (x \in B2 <=> <<l, x>> \in Q)
    BY <1>2, <1>9, BetweenBare
  <2>2. \A x \in S : x \in B3 <=> <<x, h>> \in Q
    BY <1>2, <1>9, BetweenBare
  <2> QED BY <2>1, <2>2
<1>11. B3 \subseteq S
  BY DEF Between
<1> HIDE DEF l, h, B1, B2, Q
<1>12. /\ \A x, y \in S : ~ (<<x, y>> \in Q /\ <<y, x>> \in Q)
       /\ \A x, y \in S : x = y \/ <<x, y>> \in Q \/ <<y, x>> \in Q
       /\ \A x, y, z \in S : <<x, y>> \in Q /\ <<y, z>> \in Q => <<x, z>> \in Q
  BY <1>2 DEF Orders
<1>13. <<l, h>> \in Q
  BY <1>5, <1>8, <1>9, <1>10
<1>14. ASSUME NEW x \in A PROVE <<x, h>> \in Q
  BY <1>6, <1>7, <1>9, <1>12, <1>13
<1>15. ASSUME NEW x \in S, <<x, h>> \in Q PROVE x \in A
  <2> SUFFICES ASSUME x \notin A PROVE FALSE
    OBVIOUS
  <2>1. x # l /\ <<x, l>> \notin Q
    BY <1>3, <1>7, <1>10 DEF Begins
  <2>2. x \in B2
    BY <1>9, <1>10, <1>12, <2>1
  <2>3. x \in C
    BY <1>5, <1>8, <1>15, <2>2 DEF Begins
  <2> QED BY <1>8, <1>9, <1>12, <1>15, <2>3
<1> HIDE DEF B3
<1>16. B3 = A
  BY <1>6, <1>10, <1>11, <1>14, <1>15
<1>17. Lists(page, Between(S, order, Bare(Before(<<Head(next), 0>>))), BlockOrder(order))
  BY <1>3, <1>16 DEF B3, Q
<1> DEFINE c == Bare(Before(<<Head(next), 0>>))
<1>18. c.type = "before"
  BY <1>1
<1> HIDE DEF c
<1>19. ListPaginated(S, order, c, limit) = page
  <2>1. Lists(page, Between(S, order, c), BlockOrder(order))
    BY <1>17 DEF c
  <2> QED BY <1>4, <1>18, <2>1, PageOfAll
<1> QED BY <1>19 DEF c

\* ... in both orders, with empty blocks and without.
LEMMA BlocksTurn ==
    ASSUME NEW n \in Nat, stored \in SUBSET (1 .. n), ListingAssumption
    PROVE  BlocksTurnBack
<1> SUFFICES
      ASSUME NEW skip \in BOOLEAN, NEW order \in {"asc", "desc"}, NEW limit \in Limits
      PROVE  LET page == BlockPage(skip, order, NoCursor, limit)
                 next == BlockPage(skip, order, After(<<Last(page), 0>>), limit)
             IN  page # <<>> /\ next # <<>> =>
                     BlockPage(skip, order, Before(<<Head(next), 0>>), limit) = page
  BY DEF BlocksTurnBack
<1> DEFINE S == IF skip THEN NonEmpty ELSE stored
<1>1. limit \in Nat
  BY DEF ListingAssumption
<1>2. S \in SUBSET (1 .. n)
  BY DEF NonEmpty
<1>3. \A c : BlockPage(skip, order, c, limit) = ListPaginated(S, order, Bare(c), limit)
  BY DEF BlockPage, Bare
<1> HIDE DEF S
<1>4. TurnsAt(S, order, limit)
  BY <1>1, <1>2, TurnsBack
<1> QED BY <1>3, <1>4 DEF TurnsAt

-----------------------------------------------------------------------------
(* Listings: the client.                                                   *)
OneEach == \A h \in stored : chain[h] <= 1

(* What the client has seen is a part of the list without gap, as long as  *)
(* it never went back or each block has one transaction at most; the size  *)
(* of a page is not zero once it has seen something, and it polls only     *)
(* then.                                                                   *)
ClientInv ==
    /\ client = [order |-> client.order, limit |-> client.limit, seen |-> client.seen, back |-> client.back]
    /\ client.order \in {"asc", "desc"} /\ client.limit \in Nat /\ client.seen \in Seq(AnyTxn)
    /\ client.back \in BOOLEAN
    /\ streams["poll"].pc # "closed" => client.seen # <<>>
    /\ client.seen # <<>> => client.limit # 0
    /\ client.seen # <<>> /\ (client.back => OneEach) =>
          SeenOk(client.seen, AllTxns, TxnOrder(client.order))

\* The blocks with transactions are bounded, and none is above the node's height.
LEMMA ListOk ==
    ASSUME ListingInv
    PROVE  /\ BlocksOk /\ AllTxns \in SUBSET AnyTxn
           /\ Len(chain) \in Nat /\ stored \in SUBSET (1 .. Len(chain)) /\ confirmed \in 0 .. Len(chain)
           /\ \A h \in stored : chain[h] \in Nat
           /\ \A h \in NonEmpty : h <= confirmed /\ h \in Nat
           /\ OneEach => \A h \in NonEmpty : chain[h] = 1
<1>1. /\ chain \in Seq(Nat) /\ confirmed \in 0 .. Len(chain) /\ stored \subseteq 1 .. Len(chain)
      /\ \A h \in confirmed + 1 .. Len(chain) : chain[h] = 0
  BY DEF ListingInv, ChainOk
<1>2. Len(chain) \in Nat /\ \A h \in 1 .. Len(chain) : chain[h] \in Nat
  BY <1>1, LenProperties, ElementOfSeq
<1>3. NonEmpty \in SUBSET (1 .. Len(chain)) /\ \A h \in NonEmpty : chain[h] > 0 /\ h \in stored
  BY <1>1 DEF NonEmpty
<1>4. \A h \in NonEmpty : h <= confirmed /\ h \in Nat
  BY <1>1, <1>2, <1>3
<1>5. BlocksOk
  BY <1>2, <1>3 DEF BlocksOk
<1>6. OneEach => \A h \in NonEmpty : chain[h] = 1
  BY <1>2, <1>3 DEF OneEach
<1>7. AllTxns \in SUBSET AnyTxn
  BY DEF AllTxns, TxnsIn
<1> QED BY <1>1, <1>2, <1>4, <1>5, <1>6, <1>7

\* The list grows at one of its ends.
LEMMA ListGrows ==
    ASSUME ListingInv, NEW n \in Nat, Grow(n), stored' = stored \/ stored' = stored \cup {confirmed'}
    PROVE  /\ AllTxns \subseteq AllTxns' /\ (OneEach' => OneEach)
           /\ \A order \in {"asc", "desc"} : \A y \in AllTxns' \ AllTxns :
                 \/ \A x \in AllTxns : <<x, y>> \in TxnOrder(order)
                 \/ \A x \in AllTxns : <<y, x>> \in TxnOrder(order)
<1>1. /\ Len(chain) \in Nat /\ stored \in SUBSET (1 .. Len(chain)) /\ confirmed \in 0 .. Len(chain)
      /\ \A h \in stored : chain[h] \in Nat
      /\ \A h \in NonEmpty : h <= confirmed /\ h \in Nat
  BY ListOk
<1>2. /\ confirmed' = confirmed + 1
      /\ \A h \in 1 .. Len(chain) : chain'[h] = chain[h]
  BY GrowChain DEF ListingInv
<1>3. stored \subseteq stored' /\ \A h \in stored : chain'[h] = chain[h]
  BY <1>1, <1>2
<1>4. \A h \in stored' : h \in stored \/ h = confirmed'
  OBVIOUS
<1>5. OneEach' => OneEach
  BY <1>3 DEF OneEach
<1>6. \A t : t \in AllTxns <=> t \in AnyTxn /\ t[1] \in stored /\ chain[t[1]] > 0 /\ t[2] < chain[t[1]]
  BY DEF AllTxns, TxnsIn, NonEmpty
<1>7. \A t : t \in AllTxns' <=> t \in AnyTxn /\ t[1] \in stored' /\ chain'[t[1]] > 0 /\ t[2] < chain'[t[1]]
  BY DEF AllTxns, TxnsIn, NonEmpty
<1>8. AllTxns \subseteq AllTxns'
  BY <1>3, <1>6, <1>7
<1>9. \A x \in AllTxns : x \in AnyTxn /\ x[1] \in Nat /\ x[1] < confirmed'
  <2> SUFFICES ASSUME NEW x \in AllTxns PROVE x \in AnyTxn /\ x[1] \in Nat /\ x[1] < confirmed'
    OBVIOUS
  <2>1. x \in AnyTxn /\ x[1] \in NonEmpty
    BY <1>6 DEF NonEmpty
  <2> QED BY <1>1, <1>2, <2>1
<1>10. ASSUME NEW order \in {"asc", "desc"}, NEW y \in AllTxns' \ AllTxns
       PROVE  \/ \A x \in AllTxns : <<x, y>> \in TxnOrder(order)
              \/ \A x \in AllTxns : <<y, x>> \in TxnOrder(order)
  <2>1. y \in AnyTxn /\ y[1] = confirmed'
    BY <1>3, <1>4, <1>6, <1>7, <1>10
  <2>2. y[1] \in Nat
    BY <2>1, TxnIs
  <2>3. CASE order = "asc"
    <3>1. ASSUME NEW x \in AllTxns PROVE <<x, y>> \in TxnOrder(order)
      <4>1. x \in AnyTxn /\ x[1] \in Nat /\ x[1] < y[1]
        BY <1>9, <2>1
      <4>2. <<x[1], y[1]>> \in BlockOrder(order)
        BY <2>2, <2>3, <4>1, BlockOrderIs
      <4> QED BY <2>1, <4>1, <4>2, TxnOrderIs
    <3> QED BY <3>1
  <2>4. CASE order = "desc"
    <3>1. ASSUME NEW x \in AllTxns PROVE <<y, x>> \in TxnOrder(order)
      <4>1. x \in AnyTxn /\ x[1] \in Nat /\ x[1] < y[1]
        BY <1>9, <2>1
      <4>2. <<y[1], x[1]>> \in BlockOrder(order)
        BY <2>2, <2>4, <4>1, BlockOrderIs
      <4> QED BY <2>1, <4>1, <4>2, TxnOrderIs
    <3> QED BY <3>1
  <2> QED BY <2>3, <2>4
<1> QED BY <1>5, <1>8, <1>10

\* Commits do not touch what the client has seen.
LEMMA ClientKeeps ==
    ASSUME ClientInv, client' = client, AllTxns' \in SUBSET AnyTxn, AllTxns \subseteq AllTxns',
           OneEach' => OneEach, streams'["poll"].pc # "closed" => client.seen # <<>>,
           \A order \in {"asc", "desc"} : \A y \in AllTxns' \ AllTxns :
                 \/ \A x \in AllTxns : <<x, y>> \in TxnOrder(order)
                 \/ \A x \in AllTxns : <<y, x>> \in TxnOrder(order)
    PROVE  ClientInv'
<1> DEFINE R == TxnOrder(client.order)
<1>1. ASSUME client.seen # <<>>, client.back => OneEach' PROVE SeenOk(client.seen, AllTxns', R)
  <2>1. SeenOk(client.seen, AllTxns, R) /\ client.order \in {"asc", "desc"}
    BY <1>1 DEF ClientInv
  <2>2. \A y \in AllTxns' \ AllTxns : (\A x \in AllTxns : <<x, y>> \in R) \/ (\A x \in AllTxns : <<y, x>> \in R)
    BY <2>1
  <2>3. Orders(R, AnyTxn)
    BY TxnOrders
  <2> HIDE DEF R
  <2> DEFINE N == AllTxns'
             S == AllTxns
             s == client.seen
  <2>4. /\ SeenOk(s, S, R) /\ N \in SUBSET AnyTxn /\ S \subseteq N
        /\ \A y \in N \ S : (\A x \in S : <<x, y>> \in R) \/ (\A x \in S : <<y, x>> \in R)
    BY <2>1, <2>2
  <2> HIDE DEF N, S, s
  <2>5. SeenOk(s, N, R)
    BY <2>3, <2>4, SeenGrows
  <2> QED BY <2>5 DEF s, N
<1> QED BY <1>1 DEF ClientInv

\* A page at an end of what the client has seen.
LEMMA ClientSees ==
    ASSUME ListingInv, ClientInv, client.seen # <<>>,
           See(NextPage, TRUE) \/ See(PrevPage, FALSE), chain' = chain, stored' = stored
    PROVE  ClientInv'
<1> DEFINE R == TxnOrder(client.order)
           s == client.seen
           order == client.order
           limit == client.limit
<1>1. /\ BlocksOk /\ AllTxns \in SUBSET AnyTxn
      /\ OneEach => \A h \in NonEmpty : chain[h] = 1
  BY ListOk
<1>2. /\ client = [order |-> order, limit |-> limit, seen |-> s, back |-> client.back]
      /\ order \in {"asc", "desc"} /\ limit \in Nat /\ s \in Seq(AnyTxn) /\ client.back \in BOOLEAN
      /\ s # <<>> /\ limit # 0
      /\ (client.back => OneEach) => SeenOk(s, AllTxns, R)
  BY DEF ClientInv
<1>3. Orders(R, AnyTxn)
  BY TxnOrders
<1>4. AllTxns' = AllTxns /\ OneEach' = OneEach
  BY DEF AllTxns, TxnsIn, NonEmpty, OneEach
<1>5. NextPage = TxnPage(order, After(Last(s)), limit) /\ PrevPage = TxnPage(order, Before(Head(s)), limit)
  BY DEF NextPage, PrevPage
<1> HIDE DEF s, order, limit
<1>6. NextPage \in Seq(AnyTxn) /\ PrevPage \in Seq(AnyTxn)
  BY <1>1, <1>2, <1>5, PageType
<1>7. CASE See(NextPage, TRUE)
  <2> DEFINE t == s \o NextPage
  <2>1. client' = [order |-> order, limit |-> limit, seen |-> t, back |-> client.back]
    <3>1. client' = [client EXCEPT !.seen = t]
      BY <1>7 DEF See, s
    <3> HIDE DEF t
    <3> QED BY <1>2, <3>1
  <2>2. t \in Seq(AnyTxn) /\ t # <<>>
    BY <1>2, <1>6, ConcatProperties, EmptySeq
  <2>3. ASSUME client.back => OneEach PROVE SeenOk(t, AllTxns, R)
    <3> DEFINE c == Last(s)
               L == {u \in AllTxns : <<c, u>> \in R}
    <3>1. SeenOk(s, AllTxns, R)
      BY <1>2, <2>3
    <3>2. c \in AllTxns
      <4> HIDE DEF R
      <4> QED BY <1>1, <1>2, <1>3, <3>1, SeenEnds
    <3>3. L = Later(order, c)
      BY DEF Later, order
    <3>4. PICK P \in SUBSET L : Lists(NextPage, P, R) /\ Begins(P, L, R)
      <4>1. \E P \in SUBSET Later(order, c) : /\ Lists(TxnPage(order, After(c), limit), P, TxnOrder(order))
                                             /\ Begins(P, Later(order, c), TxnOrder(order))
        <5> HIDE DEF c
        <5> QED BY <1>1, <1>2, <3>2, PageNext
      <4> HIDE DEF L
      <4> QED BY <1>5, <3>3, <4>1 DEF order
    <3> HIDE DEF R
    <3>5. L = {u \in AllTxns : <<Last(s), u>> \in R}
      OBVIOUS
    <3> HIDE DEF L
    <3> QED BY ONLY <1>1, <1>2, <1>3, <3>1, <3>4, <3>5, SeenNext
  <2> HIDE DEF t
  <2> QED BY <1>2, <1>4, <2>1, <2>2, <2>3 DEF ClientInv, order
<1>8. CASE See(PrevPage, FALSE)
  <2> DEFINE t == PrevPage \o s
  <2>1. client' = [order |-> order, limit |-> limit, seen |-> t, back |-> TRUE]
    <3>1. client' = [client EXCEPT !.seen = t, !.back = TRUE]
      BY <1>8 DEF See, s
    <3> DEFINE b == client.back
    <3>2. client = [order |-> order, limit |-> limit, seen |-> s, back |-> b]
      BY <1>2
    <3> HIDE DEF t, b
    <3>3. [client EXCEPT !.seen = t, !.back = TRUE]
             = [order |-> order, limit |-> limit, seen |-> t, back |-> TRUE]
      <4> DEFINE r == [client EXCEPT !.seen = t]
                 v == TRUE
      <4>1. r = [order |-> order, limit |-> limit, seen |-> t, back |-> b]
        BY <3>2
      <4> HIDE DEF r, v
      <4>2. [r EXCEPT !.back = v] = [order |-> order, limit |-> limit, seen |-> t, back |-> v]
        BY <4>1
      <4> QED BY <4>2 DEF r, v
    <3> QED BY <3>1, <3>3
  <2>2. t \in Seq(AnyTxn) /\ t # <<>>
    BY <1>2, <1>6, ConcatProperties, EmptySeq
  <2>3. ASSUME OneEach PROVE SeenOk(t, AllTxns, R)
    <3> DEFINE c == Head(s)
               E == {u \in AllTxns : <<u, c>> \in R}
    <3>1. SeenOk(s, AllTxns, R)
      BY <1>2, <2>3
    <3>2. c \in AllTxns
      <4> HIDE DEF R
      <4> QED BY <1>1, <1>2, <1>3, <3>1, SeenEnds
    <3>3. E = Earlier(order, c)
      BY DEF Earlier, order
    <3>4. PICK P \in SUBSET E : Lists(PrevPage, P, R) /\ Ends(P, E, R)
      <4>1. \E P \in SUBSET Earlier(order, c) :
               /\ Lists(TxnPage(order, Before(c), limit), P, TxnOrder(order))
               /\ Ends(P, Earlier(order, c), TxnOrder(order))
        <5> HIDE DEF c
        <5> QED BY <1>1, <1>2, <2>3, <3>2, PagePrev
      <4> HIDE DEF E
      <4> QED BY <1>5, <3>3, <4>1 DEF order
    <3> HIDE DEF R
    <3>5. E = {u \in AllTxns : <<u, Head(s)>> \in R}
      OBVIOUS
    <3> HIDE DEF E
    <3> QED BY ONLY <1>1, <1>2, <1>3, <3>1, <3>4, <3>5, SeenPrev
  <2> HIDE DEF t
  <2> QED BY <1>2, <1>4, <2>1, <2>2, <2>3 DEF ClientInv, order
<1> QED BY <1>7, <1>8

\* No step leaves a gap in what the client has seen.
LEMMA ClientStep ==
    ASSUME ListingInv, ListingInv', ClientInv, [ListingNext]_listingVars, ListingAssumption
    PROVE  ClientInv'
<1>1. /\ BlocksOk /\ AllTxns \in SUBSET AnyTxn
      /\ AllTxns' \in SUBSET AnyTxn
  BY ListOk DEF AllTxns, TxnsIn
<1>2. "poll" \in Streams /\ "prover" \in Streams /\ streams = [s \in Streams |-> streams[s]]
  BY DEF Streams, ListingInv
<1>3. streams["poll"].pc # "closed" => client.seen # <<>>
  BY DEF ClientInv
<1>4. ASSUME NEW n \in Nat, CommitStore(n) \/ FastForward(n) PROVE ClientInv'
  <2>1. /\ Grow(n) /\ (stored' = stored \/ stored' = stored \cup {confirmed'})
        /\ streams' = streams /\ client' = client
    BY <1>4 DEF CommitStore, FastForward, Grow
  <2> QED BY <1>1, <1>3, <2>1, ListGrows, ClientKeeps
\* The other steps leave the list alone.
<1>5. ASSUME UNCHANGED <<chain, stored, client>>, streams'["poll"].pc # "closed" => client.seen # <<>>
      PROVE  ClientInv'
  <2>1. AllTxns' = AllTxns /\ OneEach' = OneEach
    BY <1>5 DEF AllTxns, TxnsIn, NonEmpty, OneEach
  <2> QED BY <1>1, <1>5, <2>1, ClientKeeps
<1>6. CASE CommitNotify
  <2>1. streams' = [s \in Streams |-> Sent(streams[s], pending)] /\ UNCHANGED <<chain, stored, client>>
    BY <1>6 DEF CommitNotify
  <2>2. streams'["poll"].pc = streams["poll"].pc
    <3> DEFINE r == streams["poll"]
    <3>1. r = [pc |-> r.pc, from |-> r.from, out |-> r.out]
      BY <1>2 DEF ListingInv, StreamOk
    <3>2. Sent(r, pending).pc = r.pc
      <4> HIDE DEF r
      <4>1. \/ Sent(r, pending) = [r EXCEPT !.out = Append(@, pending)]
            \/ Sent(r, pending) = r
        BY DEF Sent
      <4> QED BY <3>1, <4>1
    <3> QED BY <1>2, <2>1, <3>2
  <2> QED BY <1>3, <1>5, <2>1, <2>2
<1>7. ASSUME NEW h, FastBack(h) PROVE ClientInv'
  BY <1>3, <1>5, <1>7 DEF FastBack
<1>8. ASSUME streams'["poll"] = Closed, UNCHANGED <<chain, stored, client>> PROVE ClientInv'
  BY <1>5, <1>8 DEF Closed
<1>9. CASE Restart
  BY <1>2, <1>8, <1>9 DEF Restart
<1>10. ASSUME NEW t \in Streams, NEW r, streams' = [streams EXCEPT ![t] = r],
              UNCHANGED <<chain, stored, client>>, t = "prover" \/ client.seen # <<>>
       PROVE  ClientInv'
  <2>1. t = "prover" => streams'["poll"] = streams["poll"]
    BY <1>2, <1>10
  <2> QED BY <1>3, <1>5, <1>10, <2>1
<1>11. ASSUME NEW from, StreamRegister(from) PROVE ClientInv'
  BY <1>2, <1>10, <1>11 DEF StreamRegister, Register
<1>12. ASSUME NEW t \in Streams, StreamFirst(t) PROVE ClientInv'
  <2>1. /\ streams[t].pc = "registered" /\ streams' = [streams EXCEPT ![t] = Opened(streams[t])]
        /\ UNCHANGED <<chain, stored, client>>
    BY <1>12 DEF StreamFirst
  <2>2. t = "prover" \/ client.seen # <<>>
    BY <1>3, <2>1 DEF Streams
  <2> QED BY <1>10, <2>1, <2>2
<1>13. CASE StreamClose
  BY <1>2, <1>10, <1>13 DEF StreamClose
<1>14. CASE PollEmpty
  <2>1. /\ streams' = [streams EXCEPT !["poll"] = [streams["poll"] EXCEPT !.pc = "empty"]]
        /\ UNCHANGED <<chain, stored, client>> /\ client.seen # <<>>
    BY <1>14 DEF PollEmpty
  <2> QED BY <1>2, <1>10, <2>1
<1>15. CASE PollRegister
  <2>1. streams["poll"].pc = "empty" /\ Register("poll", NewestSeen[1] + 1) /\ UNCHANGED <<chain, stored, client>>
    BY <1>15 DEF PollRegister
  <2> QED BY <1>2, <1>3, <1>10, <2>1 DEF Register
<1>16. CASE PollTimeout
  BY <1>2, <1>8, <1>16 DEF PollTimeout
<1>17. ASSUME client.seen # <<>>, See(NextPage, TRUE) \/ See(PrevPage, FALSE), UNCHANGED <<chain, stored>>
       PROVE  ClientInv'
  BY <1>17, ClientSees
<1>18. CASE PollAnswer
  <2>1. /\ streams["poll"].pc = "open" /\ See(NewerPage, client.order = "asc")
        /\ UNCHANGED <<chain, stored>>
    BY <1>18 DEF PollAnswer
  <2>2. CASE client.order = "asc"
    <3>1. See(NextPage, TRUE)
      BY <2>1, <2>2 DEF NewerPage
    <3> QED BY <1>3, <1>17, <2>1, <3>1
  <2>3. CASE client.order # "asc"
    <3>1. See(PrevPage, FALSE)
      BY <2>1, <2>3 DEF NewerPage
    <3> QED BY <1>3, <1>17, <2>1, <3>1
  <2> QED BY <2>2, <2>3
<1>19. CASE ListNext
  BY <1>17, <1>19 DEF ListNext
<1>20. CASE ListPrev
  BY <1>17, <1>20 DEF ListPrev
<1>21. ASSUME NEW order \in {"asc", "desc"}, NEW limit \in Limits, ListFirst(order, limit) PROVE ClientInv'
  <2> DEFINE t == TxnPage(order, NoCursor, limit)
  <2>1. /\ t # <<>> /\ client' = [client EXCEPT !.order = order, !.limit = limit, !.seen = t]
        /\ UNCHANGED <<chain, stored, streams>>
    BY <1>21 DEF ListFirst
  <2>2. limit \in Nat
    BY DEF ListingAssumption
  <2>3. t \in Seq(AnyTxn) /\ limit # 0
    BY <1>1, <2>1, <2>2, PageType, PageFirst
  <2>4. SeenOk(t, AllTxns, TxnOrder(order))
    <3>1. PICK P \in SUBSET AllTxns : Lists(t, P, TxnOrder(order)) /\ Begins(P, AllTxns, TxnOrder(order))
      BY <1>1, <2>2, PageFirst
    <3> HIDE DEF t
    <3> QED BY <3>1, SeenFirst
  <2>5. AllTxns' = AllTxns
    BY <2>1 DEF AllTxns, TxnsIn, NonEmpty
  <2> HIDE DEF t
  <2> DEFINE b == client.back
             o == client.order
             l == client.limit
             s == client.seen
  <2>6. client = [order |-> o, limit |-> l, seen |-> s, back |-> b] /\ b \in BOOLEAN
    BY DEF ClientInv
  <2> HIDE DEF b, o, l, s
  <2>7. [client EXCEPT !.order = order, !.limit = limit, !.seen = t]
           = [order |-> order, limit |-> limit, seen |-> t, back |-> b]
    <3> DEFINE r == [client EXCEPT !.order = order]
               q == [r EXCEPT !.limit = limit]
    <3>1. r = [order |-> order, limit |-> l, seen |-> s, back |-> b]
      BY <2>6
    <3> HIDE DEF r
    <3>2. q = [order |-> order, limit |-> limit, seen |-> s, back |-> b]
      BY <3>1
    <3> HIDE DEF q
    <3>3. [q EXCEPT !.seen = t] = [order |-> order, limit |-> limit, seen |-> t, back |-> b]
      BY <3>2
    <3> QED BY <3>3 DEF r, q
  <2>8. client' = [order |-> order, limit |-> limit, seen |-> t, back |-> b]
    BY <2>1, <2>7
  <2> QED BY <2>1, <2>2, <2>3, <2>4, <2>5, <2>6, <2>8 DEF ClientInv
<1>22. CASE UNCHANGED listingVars
  BY <1>3, <1>5, <1>22 DEF listingVars
<1>23. \A n \in 0..MaxTxns : n \in Nat
  OBVIOUS
<1> QED BY <1>4, <1>6, <1>7, <1>9, <1>11, <1>12, <1>13, <1>14, <1>15, <1>16, <1>18, <1>19, <1>20,
           <1>21, <1>22, <1>23 DEF ListingNext

\* What the client has seen is a part of the list.
LEMMA ClientShown ==
    ASSUME ListingInv, ClientInv
    PROVE  PagesExact
<1> SUFFICES ASSUME client.seen # <<>>, client.back => \A h \in stored : chain[h] <= 1
             PROVE  /\ \E i \in DOMAIN All : client.seen = SubSeq(All, i, i + Len(client.seen) - 1)
                    /\ NextPage = <<>> => Last(client.seen) = Last(All)
  BY DEF PagesExact
<1> DEFINE order == client.order
           limit == client.limit
           s == client.seen
           R == TxnOrder(order)
<1>1. BlocksOk /\ AllTxns \in SUBSET AnyTxn
  BY ListOk
<1>2. SeenOk(s, AllTxns, R) /\ order \in {"asc", "desc"} /\ limit \in Nat /\ limit # 0
  BY DEF ClientInv, OneEach
<1>3. Orders(R, AnyTxn)
  BY TxnOrders
<1>4. Lists(All, AllTxns, R)
  <2>1. PICK n \in Nat : NonEmpty \in SUBSET (1 .. n)
    BY <1>1 DEF BlocksOk
  <2>2. All = TxnsOf(Keys(NonEmpty, order))
    BY DEF All, Keys
  <2>3. Lists(Keys(NonEmpty, order), NonEmpty, BlockOrder(order))
    <3> HIDE DEF order
    <3> QED BY <1>2, <2>1, KeysListed
  <2>4. NonEmpty \in SUBSET Nat /\ \A h \in NonEmpty : chain[h] \in Nat
    BY <1>1 DEF BlocksOk
  <2> HIDE DEF order
  <2>5. Lists(TxnsOf(Keys(NonEmpty, order)), TxnsIn(NonEmpty), TxnOrder(order))
    BY <2>3, <2>4, TxnsListed
  <2> QED BY <2>2, <2>5 DEF AllTxns
<1>5. NextPage = <<>> => {t \in AllTxns : <<Last(s), t>> \in R} = {}
  <2>1. Last(s) \in AllTxns
    <3> HIDE DEF R, s
    <3>1. s # <<>>
      BY DEF s
    <3> QED BY <1>1, <1>2, <1>3, <3>1, SeenEnds
  <2>2. NextPage = TxnPage(order, After(Last(s)), limit)
    BY DEF NextPage
  <2>3. Later(order, Last(s)) = {t \in AllTxns : <<Last(s), t>> \in R}
    BY DEF Later
  <2> HIDE DEF order, limit, s, R
  <2>4. TxnPage(order, After(Last(s)), limit) = <<>> => Later(order, Last(s)) = {}
    BY <1>1, <1>2, <2>1, PageNext
  <2> QED BY <2>2, <2>3, <2>4
<1> HIDE DEF R, order
<1>6. /\ \E i \in DOMAIN All : s = SubSeq(All, i, i + Len(s) - 1)
      /\ {t \in AllTxns : <<Last(s), t>> \in R} = {} => Last(s) = Last(All)
  <2> DEFINE all == All
  <2>1. Lists(all, AllTxns, R) /\ s # <<>>
    BY <1>4
  <2> HIDE DEF all, s
  <2>2. IsPart(s, all, AllTxns, R)
    BY <1>1, <1>2, <1>3, <2>1, SeenShown
  <2> QED BY <2>2 DEF IsPart, all
<1> QED BY <1>5, <1>6

(* A client that follows the cursors of list_txns sees a part of the list  *)
(* without gap or repetition, whatever is committed between its pages, an  *)
(* empty page after its cursor is the end of the list, and list_blocks     *)
(* turns back to the page it came from (routes/txn.rs:236).                *)
THEOREM ListsSoundHolds == ListingSpec => []ListsSound
<1> USE ListingAssumption
<1>1. ListingInit => ListingInv /\ ClientInv
  <2>1. ListingInit => ListingInv
    BY ListingStarts
  <2>2. ASSUME ListingInit PROVE ClientInv
    <3>1. /\ client = [order |-> "asc", limit |-> 0, seen |-> <<>>, back |-> FALSE]
          /\ streams["poll"].pc = "closed"
      BY <2>2 DEF ListingInit, Streams, Closed
    <3>2. <<>> \in Seq(AnyTxn)
      BY EmptySeq
    <3> QED BY <3>1, <3>2 DEF ClientInv
  <2> QED BY <2>1, <2>2
<1>2. ListingInv /\ ClientInv /\ [ListingNext]_listingVars => (ListingInv /\ ClientInv)'
  BY ListingStep, ClientStep
<1>3. ListingInv /\ ClientInv => ListsSound
  <2> SUFFICES ASSUME ListingInv, ClientInv PROVE ListsSound
    OBVIOUS
  <2>1. Len(chain) \in Nat /\ stored \in SUBSET (1 .. Len(chain))
    BY ListOk
  <2>2. BlocksTurnBack
    BY <2>1, BlocksTurn
  <2> QED BY <2>2, ClientShown DEF ListsSound
<1> QED BY <1>1, <1>2, <1>3, PTL DEF ListingSpec
=============================================================================
