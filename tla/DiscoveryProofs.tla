---------------------------- MODULE DiscoveryProofs ----------------------------
(***************************************************************************)
(* Proofs about Discovery.  GInv relates the place of the main thread to    *)
(* its lock, its request and the keys its loops are at, and holds however   *)
(* late answers are.  PInv is what holds as long as none outlives its       *)
(* request: there is one answer at most, it is handled within the wait, and *)
(* what it may store is what the walk asked for at the place it is at.      *)
(***************************************************************************)
EXTENDS Discovery, SequenceTheorems, WellFoundedInduction, TLAPS

(* An address, endpoint, cluster or attribute is a number other than zero. *)
LEMMA Keys ==
    /\ Addr \subseteq Nat /\ Ep \subseteq Nat /\ Cluster \subseteq Nat /\ Attr \subseteq Nat
    /\ 0 \notin Addr /\ 0 \notin Ep /\ 0 \notin Cluster /\ 0 \notin Attr
<1>1. \A S \in {Addr, Ep, Cluster, Attr} : S \subseteq Nat \ {0}
  BY DiscoveryAssumption
<1> QED
  BY <1>1

--------------------------------------------------------------------------------
(* Paths as sequences. *)

(* A prefix of a sequence of numbers, spelled out. *)
LEMMA Prefix1 == ASSUME NEW s, s[1] \in Nat PROVE SubSeq(s, 1, 1) = <<s[1]>>
<1>1. /\ SubSeq(s, 1, 1) \in Seq(Nat) /\ Len(SubSeq(s, 1, 1)) = 1
      /\ SubSeq(s, 1, 1)[1] = s[1]
  BY SubSeqProperties
<1>2. \A t \in Seq(Nat) : Len(t) = 1 => t = <<t[1]>>
  OBVIOUS
<1> QED
  BY <1>1, <1>2

(* The same of length two. *)
LEMMA Prefix2 == ASSUME NEW s, s[1] \in Nat, s[2] \in Nat PROVE SubSeq(s, 1, 2) = <<s[1], s[2]>>
<1>1. /\ SubSeq(s, 1, 2) \in Seq(Nat) /\ Len(SubSeq(s, 1, 2)) = 2
      /\ SubSeq(s, 1, 2)[1] = s[1] /\ SubSeq(s, 1, 2)[2] = s[2]
  BY SubSeqProperties
<1>2. \A t \in Seq(Nat) : Len(t) = 2 => t = <<t[1], t[2]>>
  OBVIOUS
<1> QED
  BY <1>1, <1>2

(* Of length three. *)
LEMMA Prefix3 ==
    ASSUME NEW s, s[1] \in Nat, s[2] \in Nat, s[3] \in Nat
    PROVE SubSeq(s, 1, 3) = <<s[1], s[2], s[3]>>
<1>1. /\ SubSeq(s, 1, 3) \in Seq(Nat) /\ Len(SubSeq(s, 1, 3)) = 3
      /\ SubSeq(s, 1, 3)[1] = s[1] /\ SubSeq(s, 1, 3)[2] = s[2]
      /\ SubSeq(s, 1, 3)[3] = s[3]
  BY SubSeqProperties
<1>2. \A t \in Seq(Nat) : Len(t) = 3 => t = <<t[1], t[2], t[3]>>
  OBVIOUS
<1> QED
  BY <1>1, <1>2

(* Of length four. *)
LEMMA Prefix4 ==
    ASSUME NEW s, s[1] \in Nat, s[2] \in Nat, s[3] \in Nat, s[4] \in Nat
    PROVE SubSeq(s, 1, 4) = <<s[1], s[2], s[3], s[4]>>
<1>1. /\ SubSeq(s, 1, 4) \in Seq(Nat) /\ Len(SubSeq(s, 1, 4)) = 4
      /\ SubSeq(s, 1, 4)[1] = s[1] /\ SubSeq(s, 1, 4)[2] = s[2]
      /\ SubSeq(s, 1, 4)[3] = s[3] /\ SubSeq(s, 1, 4)[4] = s[4]
  BY SubSeqProperties
<1>2. \A t \in Seq(Nat) : Len(t) = 4 => t = <<t[1], t[2], t[3], t[4]>>
  OBVIOUS
<1> QED
  BY <1>1, <1>2

(* What one path is below another means, by their lengths. *)
LEMMA BelowNode ==
    ASSUME NEW n \in Nat
    PROVE /\ \A a \in Nat : IsPrefix(<<n>>, <<a>>) <=> a = n
          /\ \A y \in Nat \X Nat : IsPrefix(<<n>>, y) <=> y[1] = n
          /\ \A y \in Nat \X Nat \X Nat : IsPrefix(<<n>>, y) <=> y[1] = n
          /\ \A y \in Nat \X Nat \X Nat \X Nat : IsPrefix(<<n>>, y) <=> y[1] = n
<1>1. \A s : s[1] \in Nat /\ 1 <= Len(s) => (IsPrefix(<<n>>, s) <=> s[1] = n)
  <2> TAKE s
  <2> HAVE s[1] \in Nat /\ 1 <= Len(s)
  <2>1. Len(<<n>>) = 1 /\ <<n>>[1] = n
    OBVIOUS
  <2>2. SubSeq(<<n>>, 1, 1) = <<n>> /\ SubSeq(s, 1, 1) = <<s[1]>>
    BY <2>1, Prefix1, Zenon
  <2>3. <<n>> = <<s[1]>> <=> s[1] = n
    OBVIOUS
  <2> QED
    BY <2>1, <2>2, <2>3, Zenon DEF IsPrefix
<1> QED
  BY <1>1

(* Of an endpoint: nothing as short as a node, and what agrees in both keys. *)
LEMMA BelowEp ==
    ASSUME NEW x \in Nat \X Nat
    PROVE /\ \A a \in Nat : ~IsPrefix(x, <<a>>)
          /\ \A y \in Nat \X Nat : IsPrefix(x, y) <=> y = x
          /\ \A y \in Nat \X Nat \X Nat : IsPrefix(x, y) <=> y[1] = x[1] /\ y[2] = x[2]
          /\ \A y \in Nat \X Nat \X Nat \X Nat : IsPrefix(x, y) <=> y[1] = x[1] /\ y[2] = x[2]
<1>0. x[1] \in Nat /\ x[2] \in Nat /\ Len(x) = 2 /\ x = <<x[1], x[2]>>
  OBVIOUS
<1>1. \A s : s[1] \in Nat /\ s[2] \in Nat /\ 2 <= Len(s)
             => (IsPrefix(x, s) <=> s[1] = x[1] /\ s[2] = x[2])
  <2> TAKE s
  <2> HAVE s[1] \in Nat /\ s[2] \in Nat /\ 2 <= Len(s)
  <2>1. SubSeq(x, 1, 2) = <<x[1], x[2]>> /\ SubSeq(s, 1, 2) = <<s[1], s[2]>>
    BY <1>0, Prefix2, Zenon
  <2>2. <<x[1], x[2]>> = <<s[1], s[2]>> <=> s[1] = x[1] /\ s[2] = x[2]
    OBVIOUS
  <2> QED
    BY <1>0, <2>1, <2>2, Zenon DEF IsPrefix
<1>2. \A s : 2 > Len(s) /\ Len(s) \in Nat => ~IsPrefix(x, s)
  BY <1>0 DEF IsPrefix
<1> QED
  BY <1>0, <1>1, <1>2

(* Of a cluster: nothing shorter, and what agrees in all three keys. *)
LEMMA BelowCluster ==
    ASSUME NEW x \in Nat \X Nat \X Nat
    PROVE /\ \A a \in Nat : ~IsPrefix(x, <<a>>)
          /\ \A y \in Nat \X Nat : ~IsPrefix(x, y)
          /\ \A y \in Nat \X Nat \X Nat : IsPrefix(x, y) <=> y = x
          /\ \A y \in Nat \X Nat \X Nat \X Nat :
                IsPrefix(x, y) <=> y[1] = x[1] /\ y[2] = x[2] /\ y[3] = x[3]
<1>0. x[1] \in Nat /\ x[2] \in Nat /\ x[3] \in Nat /\ Len(x) = 3 /\ x = <<x[1], x[2], x[3]>>
  OBVIOUS
<1>1. \A s : s[1] \in Nat /\ s[2] \in Nat /\ s[3] \in Nat /\ 3 <= Len(s)
             => (IsPrefix(x, s) <=> s[1] = x[1] /\ s[2] = x[2] /\ s[3] = x[3])
  <2> TAKE s
  <2> HAVE s[1] \in Nat /\ s[2] \in Nat /\ s[3] \in Nat /\ 3 <= Len(s)
  <2>1. SubSeq(x, 1, 3) = <<x[1], x[2], x[3]>> /\ SubSeq(s, 1, 3) = <<s[1], s[2], s[3]>>
    BY <1>0, Prefix3, Zenon
  <2>2. <<x[1], x[2], x[3]>> = <<s[1], s[2], s[3]>>
        <=> s[1] = x[1] /\ s[2] = x[2] /\ s[3] = x[3]
    OBVIOUS
  <2> QED
    BY <1>0, <2>1, <2>2, Zenon DEF IsPrefix
<1>2. \A s : 3 > Len(s) /\ Len(s) \in Nat => ~IsPrefix(x, s)
  BY <1>0 DEF IsPrefix
<1> QED
  BY <1>0, <1>1, <1>2

(* Of an attribute: the attribute alone. *)
LEMMA BelowAttribute ==
    ASSUME NEW x \in Nat \X Nat \X Nat \X Nat
    PROVE /\ \A a \in Nat : ~IsPrefix(x, <<a>>)
          /\ \A y \in Nat \X Nat : ~IsPrefix(x, y)
          /\ \A y \in Nat \X Nat \X Nat : ~IsPrefix(x, y)
          /\ \A y \in Nat \X Nat \X Nat \X Nat : IsPrefix(x, y) <=> y = x
<1>0. /\ x[1] \in Nat /\ x[2] \in Nat /\ x[3] \in Nat /\ x[4] \in Nat /\ Len(x) = 4
      /\ x = <<x[1], x[2], x[3], x[4]>>
  OBVIOUS
<1>1. ASSUME NEW y \in Nat \X Nat \X Nat \X Nat PROVE IsPrefix(x, y) <=> y = x
  <2>1. /\ y[1] \in Nat /\ y[2] \in Nat /\ y[3] \in Nat /\ y[4] \in Nat /\ Len(y) = 4
        /\ y = <<y[1], y[2], y[3], y[4]>> /\ 4 <= 4
    OBVIOUS
  <2>2. SubSeq(x, 1, 4) = x /\ SubSeq(y, 1, 4) = y
    BY <1>0, <2>1, Prefix4, Zenon
  <2> QED
    BY <1>0, <2>1, <2>2, Zenon DEF IsPrefix
<1>2. \A s : 4 > Len(s) /\ Len(s) \in Nat => ~IsPrefix(x, s)
  BY <1>0 DEF IsPrefix
<1>3. \A a \in Nat : ~IsPrefix(x, <<a>>)
  BY <1>2
<1>4. ASSUME NEW y \in Nat \X Nat PROVE ~IsPrefix(x, y)
  <2>1. Len(y) = 2 /\ 4 > 2 /\ 2 \in Nat
    OBVIOUS
  <2> QED
    BY <2>1, <1>2, Zenon
<1>5. ASSUME NEW y \in Nat \X Nat \X Nat PROVE ~IsPrefix(x, y)
  <2>1. Len(y) = 3 /\ 4 > 3 /\ 3 \in Nat
    OBVIOUS
  <2> QED
    BY <2>1, <1>2, Zenon
<1> QED
  BY <1>1, <1>3, <1>4, <1>5, Zenon

(* The keys of a path are numbers. *)
LEMMA Shapes ==
    /\ Addr \X Ep \subseteq Nat \X Nat
    /\ Addr \X Ep \X Cluster \subseteq Nat \X Nat \X Nat
    /\ Path \subseteq Nat \X Nat \X Nat \X Nat
BY Keys DEF Path

(* The paths above a path. *)
LEMMA PathPrefixes ==
    /\ \A y \in Addr \X Ep \X Cluster : SubSeq(y, 1, 2) = <<y[1], y[2]>>
    /\ \A p \in Path : /\ SubSeq(p, 1, 2) = <<p[1], p[2]>>
                       /\ SubSeq(p, 1, 3) = <<p[1], p[2], p[3]>>
<1>1. ASSUME NEW y \in Addr \X Ep \X Cluster PROVE SubSeq(y, 1, 2) = <<y[1], y[2]>>
  BY Keys, Prefix2
<1>2. ASSUME NEW p \in Path
      PROVE /\ SubSeq(p, 1, 2) = <<p[1], p[2]>> /\ SubSeq(p, 1, 3) = <<p[1], p[2], p[3]>>
  <2>1. p[1] \in Nat /\ p[2] \in Nat /\ p[3] \in Nat
    BY Shapes
  <2> QED
    BY <2>1, Prefix2, Prefix3, Zenon
<1> QED
  BY <1>1, <1>2

--------------------------------------------------------------------------------
(* Keys of a map. *)

LessThan == {ss \in Nat \X Nat : ss[1] < ss[2]}

(* A map that is not empty has a first key. *)
LEMMA FirstKey ==
    ASSUME NEW S, S \subseteq Nat, S # {}
    PROVE First(S) \in S /\ \A y \in S : First(S) <= y
<1>1. IsWellFoundedOn(LessThan, Nat)
  BY NatLessThanWellFounded, Zenon DEF LessThan, OpToRel
<1>2. PICK x \in S : \A y \in S : ~(<<y, x>> \in LessThan)
  BY <1>1, WFMin, Zenon
<1>3. ASSUME NEW y \in S PROVE x <= y
  <2>1. x \in Nat /\ y \in Nat
    OBVIOUS
  <2>2. <<y, x>> \in LessThan <=> y < x
    BY <2>1, Zenon DEF LessThan
  <2> QED
    BY <2>1, <2>2, <1>2
<1> QED
  BY <1>3 DEF First

--------------------------------------------------------------------------------
(* What a handler stores, by the kind of the item. *)

MapTypes ==
    /\ nodes \subseteq Addr /\ eps \subseteq Addr \X Ep /\ clusters \subseteq Addr \X Ep \X Cluster
    /\ value \in [Path -> 0 .. MaxReq]

AtTypes == at \in [node : Addr \cup {0}, ep : Ep \cup {0}, cluster : Cluster \cup {0},
                   attr : Attr \cup {0}]

(* The key of a loop is a number. *)
LEMMA AtNumbers ==
    ASSUME AtTypes PROVE at.node \in Nat /\ at.ep \in Nat /\ at.cluster \in Nat /\ at.attr \in Nat
<1>1. /\ at.node \in Addr \cup {0} /\ at.ep \in Ep \cup {0}
      /\ at.cluster \in Cluster \cup {0} /\ at.attr \in Attr \cup {0}
  BY DEF AtTypes
<1>2. Addr \cup {0} \subseteq Nat /\ Ep \cup {0} \subseteq Nat
  BY Keys
<1>3. Cluster \cup {0} \subseteq Nat /\ Attr \cup {0} \subseteq Nat
  BY Keys
<1> QED
  BY <1>1, <1>2, <1>3, Zenon

(* What every item changes alike. *)
LEMMA StoreAny ==
    ASSUME NEW x, StoreItem(x), value \in [Path -> 0 .. MaxReq], handling.id \in 0 .. MaxReq
    PROVE /\ value' \in [Path -> 0 .. MaxReq]
          /\ \A p \in Path : ~IsPrefix(x, p) => value'[p] = value[p]
          /\ \A p \in Path : IsPrefix(x, p) /\ p # x => value'[p] = 0
          /\ \A p \in Path : IsPrefix(x, p) /\ p = x => value'[p] \in {0, handling.id}
<1>1. PICK v \in {0, handling.id} :
         value' = [p \in Path |-> IF ~IsPrefix(x, p) THEN value[p] ELSE IF p = x THEN v ELSE 0]
  BY DEF StoreItem
<1>2. v \in 0 .. MaxReq /\ 0 \in 0 .. MaxReq
  BY MaxReqAssumption
<1>3. \A p \in Path : (IF ~IsPrefix(x, p) THEN value[p] ELSE IF p = x THEN v ELSE 0) \in 0 .. MaxReq
  BY <1>2
<1>4. value' \in [Path -> 0 .. MaxReq]
  BY <1>1, <1>3
<1>5. \A p \in Path : value'[p] = IF ~IsPrefix(x, p) THEN value[p] ELSE IF p = x THEN v ELSE 0
  BY <1>1
<1> QED
  BY <1>4, <1>5

(* A node that is listed replaces everything below it. *)
LEMMA StoreNode ==
    ASSUME NEW n \in Addr, StoreItem(<<n>>), MapTypes, AtTypes, handling.id \in 0 .. MaxReq
    PROVE /\ nodes' = nodes \cup {n}
          /\ eps' = {y \in eps : y[1] # n}
          /\ clusters' = {y \in clusters : y[1] # n}
          /\ value' \in [Path -> 0 .. MaxReq]
          /\ \A p \in Path : value'[p] = IF p[1] # n THEN value[p] ELSE 0
          /\ physical' = [physical EXCEPT ![n] = "real"]
          /\ at.ep = 0 /\ at.cluster = 0 => dangling' = dangling
<1> DEFINE x == <<n>>
<1>1. Len(x) = 1 /\ x[1] = n /\ n \in Nat
  BY Keys
<1>2. UpTo(x, 2) = {} /\ UpTo(x, 3) = {}
  BY <1>1 DEF UpTo
<1>3. /\ \A y \in eps : IsPrefix(x, y) <=> y[1] = n
      /\ \A y \in clusters : IsPrefix(x, y) <=> y[1] = n
      /\ \A p \in Path : IsPrefix(x, p) <=> p[1] = n
  BY <1>1, BelowNode, Shapes DEF MapTypes
<1>4. \A p \in Path : p # x
  <2> SUFFICES ASSUME NEW p \in Path PROVE p # x
    OBVIOUS
  <2>1. Len(p) = 4
    BY Shapes DEF Path
  <2> QED
    BY <1>1, <2>1
<1>5. \A p \in Path : value'[p] = IF p[1] # n THEN value[p] ELSE 0
  BY <1>3, <1>4, StoreAny DEF MapTypes
<1>6. value' \in [Path -> 0 .. MaxReq]
  BY StoreAny DEF MapTypes
<1>7. nodes' = nodes \cup {n} /\ physical' = [physical EXCEPT ![n] = "real"]
  BY <1>1 DEF StoreItem
<1>8. eps' = {y \in eps : y[1] # n} /\ clusters' = {y \in clusters : y[1] # n}
  BY <1>2, <1>3 DEF StoreItem
<1>9. at.ep = 0 /\ at.cluster = 0 => dangling' = dangling
  BY DEF StoreItem
<1> QED
  BY <1>5, <1>6, <1>7, <1>8, <1>9

(* An endpoint replaces what is below it. *)
LEMMA StoreEp ==
    ASSUME NEW x \in Addr \X Ep, StoreItem(x), MapTypes, AtTypes, handling.id \in 0 .. MaxReq
    PROVE /\ nodes' = nodes \cup {x[1]}
          /\ eps' = eps \cup {x}
          /\ clusters' = {y \in clusters : ~(y[1] = x[1] /\ y[2] = x[2])}
          /\ value' \in [Path -> 0 .. MaxReq]
          /\ \A p \in Path : value'[p] = IF p[1] = x[1] /\ p[2] = x[2] THEN 0 ELSE value[p]
          /\ physical' = physical
          /\ at.cluster = 0 => dangling' = dangling
<1>0. x \in Nat \X Nat
  BY Shapes
<1>1. Len(x) = 2 /\ x[1] \in Nat /\ x[2] \in Nat /\ x = <<x[1], x[2]>> /\ x \in Nat \X Nat
  BY <1>0
<1>2. UpTo(x, 2) = {x} /\ UpTo(x, 3) = {}
  BY <1>1, Prefix2 DEF UpTo
<1>3. /\ \A y \in eps : IsPrefix(x, y) <=> y = x
      /\ \A y \in clusters : IsPrefix(x, y) <=> y[1] = x[1] /\ y[2] = x[2]
      /\ \A p \in Path : IsPrefix(x, p) <=> p[1] = x[1] /\ p[2] = x[2]
  BY <1>1, BelowEp, Shapes DEF MapTypes
<1>4. \A p \in Path : p # x
  <2> SUFFICES ASSUME NEW p \in Path PROVE p # x
    OBVIOUS
  <2>1. Len(p) = 4
    BY Shapes DEF Path
  <2> QED
    BY <1>1, <2>1
<1>5. \A p \in Path : value'[p] = IF p[1] = x[1] /\ p[2] = x[2] THEN 0 ELSE value[p]
  BY <1>3, <1>4, StoreAny DEF MapTypes
<1>6. value' \in [Path -> 0 .. MaxReq]
  BY StoreAny DEF MapTypes
<1>7. nodes' = nodes \cup {x[1]} /\ physical' = physical
  BY <1>1 DEF StoreItem
<1>8. /\ eps' = eps \cup {x}
      /\ clusters' = {y \in clusters : ~(y[1] = x[1] /\ y[2] = x[2])}
  BY <1>2, <1>3 DEF StoreItem
<1>9. at.cluster = 0 => dangling' = dangling
  <2>1. ~IsPrefix(x, <<at.node>>)
    BY <1>1, BelowEp, AtNumbers
  <2> QED
    BY <2>1 DEF StoreItem
<1> QED
  BY <1>5, <1>6, <1>7, <1>8, <1>9

(* A cluster replaces its attributes. *)
LEMMA StoreCluster ==
    ASSUME NEW x \in Addr \X Ep \X Cluster, StoreItem(x), MapTypes, AtTypes,
           handling.id \in 0 .. MaxReq
    PROVE /\ nodes' = nodes \cup {x[1]}
          /\ eps' = eps \cup {<<x[1], x[2]>>}
          /\ clusters' = clusters \cup {x}
          /\ value' \in [Path -> 0 .. MaxReq]
          /\ \A p \in Path : value'[p] = IF p[1] = x[1] /\ p[2] = x[2] /\ p[3] = x[3]
                                         THEN 0 ELSE value[p]
          /\ physical' = physical
          /\ dangling' = dangling
<1>0. x \in Nat \X Nat \X Nat
  BY Shapes
<1>1. /\ Len(x) = 3 /\ x[1] \in Nat /\ x[2] \in Nat /\ x[3] \in Nat
      /\ x = <<x[1], x[2], x[3]>> /\ x \in Nat \X Nat \X Nat
  BY <1>0
<1>2. UpTo(x, 2) = {<<x[1], x[2]>>} /\ UpTo(x, 3) = {x}
  BY <1>1, Prefix2, Prefix3 DEF UpTo
<1>3. /\ \A y \in eps : ~IsPrefix(x, y)
      /\ \A y \in clusters : IsPrefix(x, y) <=> y = x
      /\ \A p \in Path : IsPrefix(x, p) <=> p[1] = x[1] /\ p[2] = x[2] /\ p[3] = x[3]
  BY <1>1, BelowCluster, Shapes DEF MapTypes
<1>4. \A p \in Path : p # x
  <2> SUFFICES ASSUME NEW p \in Path PROVE p # x
    OBVIOUS
  <2>1. Len(p) = 4
    BY Shapes DEF Path
  <2> QED
    BY <1>1, <2>1
<1>5. \A p \in Path : value'[p] = IF p[1] = x[1] /\ p[2] = x[2] /\ p[3] = x[3]
                                  THEN 0 ELSE value[p]
  BY <1>3, <1>4, StoreAny DEF MapTypes
<1>6. value' \in [Path -> 0 .. MaxReq]
  BY StoreAny DEF MapTypes
<1>7. nodes' = nodes \cup {x[1]} /\ physical' = physical
  BY <1>1 DEF StoreItem
<1>8. eps' = eps \cup {<<x[1], x[2]>>} /\ clusters' = clusters \cup {x}
  BY <1>2, <1>3 DEF StoreItem
<1>9. dangling' = dangling
  <2>1. ~IsPrefix(x, <<at.node>>) /\ ~IsPrefix(x, <<at.node, at.ep>>)
    BY <1>1, BelowCluster, AtNumbers
  <2> QED
    BY <2>1 DEF StoreItem
<1> QED
  BY <1>5, <1>6, <1>7, <1>8, <1>9

(* A value replaces the value, and adds what is missing of its path. *)
LEMMA StoreValue ==
    ASSUME NEW x \in Path, StoreItem(x), MapTypes, AtTypes, handling.id \in 0 .. MaxReq
    PROVE /\ nodes' = nodes \cup {x[1]}
          /\ eps' = eps \cup {<<x[1], x[2]>>}
          /\ clusters' = clusters \cup {<<x[1], x[2], x[3]>>}
          /\ value' \in [Path -> 0 .. MaxReq]
          /\ \A p \in Path : p # x => value'[p] = value[p]
          /\ value'[x] \in {0, handling.id}
          /\ physical' = physical
          /\ dangling' = dangling
<1>1. /\ Len(x) = 4 /\ x[1] \in Nat /\ x[2] \in Nat /\ x[3] \in Nat
      /\ x \in Nat \X Nat \X Nat \X Nat
  BY Shapes
<1>2. UpTo(x, 2) = {<<x[1], x[2]>>} /\ UpTo(x, 3) = {<<x[1], x[2], x[3]>>}
  BY <1>1, Prefix2, Prefix3 DEF UpTo
<1>3. /\ \A y \in eps : ~IsPrefix(x, y)
      /\ \A y \in clusters : ~IsPrefix(x, y)
      /\ \A p \in Path : IsPrefix(x, p) <=> p = x
  BY <1>1, BelowAttribute, Shapes DEF MapTypes
<1>5. /\ \A p \in Path : p # x => value'[p] = value[p]
      /\ value'[x] \in {0, handling.id}
  BY <1>3, StoreAny DEF MapTypes
<1>6. value' \in [Path -> 0 .. MaxReq]
  BY StoreAny DEF MapTypes
<1>7. nodes' = nodes \cup {x[1]} /\ physical' = physical
  BY <1>1 DEF StoreItem
<1>8. eps' = eps \cup {<<x[1], x[2]>>} /\ clusters' = clusters \cup {<<x[1], x[2], x[3]>>}
  BY <1>2, <1>3 DEF StoreItem
<1>9. dangling' = dangling
  <2>1. ~IsPrefix(x, <<at.node>>) /\ ~IsPrefix(x, <<at.node, at.ep>>)
    BY <1>1, BelowAttribute, AtNumbers
  <2> QED
    BY <2>1 DEF StoreItem
<1> QED
  BY <1>5, <1>6, <1>7, <1>8, <1>9

--------------------------------------------------------------------------------
(* GInv: what holds however late answers are. *)

Early == {"idle", "askPanId", "panId", "askNodeList", "nodeList", "storeNodes"}
WaitPcs == {"panId", "nodeList", "epList", "clusterList", "attribute"}
AskPcs == {"askPanId", "askNodeList", "askEpList", "askClusterList", "askAttribute"}

(* Where the loop over attributes, clusters, endpoints and nodes is at a key *)
(* (In), and where it is not (Out).                                         *)
AttrIn == {"askAttribute", "attribute", "gotAttribute"}
ClusterIn == {"attrAttr"} \cup AttrIn
EpIn == {"askClusterList", "clusterList", "gotClusterList", "attrCluster"} \cup ClusterIn
NodeIn == {"askEpList", "epList", "gotEpList", "nextEp", "attrEp"} \cup EpIn
EpOut == Early \cup {"nextNode", "attrNode", "askEpList", "epList", "gotEpList"}
ClusterOut == EpOut \cup {"nextEp", "attrEp", "askClusterList", "clusterList", "gotClusterList"}
AttrOut == ClusterOut \cup {"attrCluster"}
Pcs == Early \cup {"nextNode", "attrNode"} \cup NodeIn \cup {"undefined"}

PlaceInv ==
    /\ pc \in Pcs
    /\ AtTypes
    /\ pc \in Early => at.node = 0
    /\ pc \in NodeIn => at.node # 0
    /\ pc \in EpIn => at.ep # 0
    /\ pc \in ClusterIn => at.cluster # 0
    /\ pc \in AttrIn => at.attr # 0
    /\ pc \in EpOut => at.ep = 0
    /\ pc \in ClusterOut => at.cluster = 0
    /\ pc \in AttrOut => at.attr = 0
    /\ pc \in AskPcs \cup WaitPcs \cup {"idle"} => ~locked

LinkInv ==
    /\ cur \in 0 .. MaxReq /\ parsed \in 0 .. MaxReq /\ open \subseteq 1 .. cur
    /\ once \subseteq open
    /\ phase \in {"idle", "cleared", "waiting", "returning"}
    /\ pc \in WaitPcs => phase # "idle" /\ cur # 0
    /\ phase # "idle" => pc \in WaitPcs

Item == {<<n>> : n \in Addr} \cup (Addr \X Ep) \cup (Addr \X Ep \X Cluster) \cup Path

KindAt == [panId |-> "PAN_ID", nodeList |-> "NODE_LIST", epList |-> "EP_LIST",
           clusterList |-> "CLUSTER_LIST", attribute |-> "ATTRIBUTE"]

AskedInv ==
    /\ DOMAIN asked = Requests
    /\ \A r \in Requests : Items(asked[r]) \subseteq Item
    /\ pc \in WaitPcs => asked[cur] = [kind |-> KindAt[pc], path |-> Here]

HandlingInv ==
    /\ handling \in [id : open \cup {0}, items : SUBSET Item]
    /\ handling.id = 0 => handling.items = {}

MapInv ==
    /\ MapTypes
    /\ physical \in [Addr -> {"absent", "zero", "real"}]
    /\ \A y \in eps : y[1] \in nodes
    /\ \A y \in clusters : <<y[1], y[2]>> \in eps
    /\ \A p \in Path : value[p] # 0 => <<p[1], p[2], p[3]>> \in clusters

RowsInv == rows \in [Addr -> {"none", "offline", "online"}] /\ attrRows \subseteq Path

FaultInv == excused \subseteq Addr /\ faults \in 0 .. MaxFaults

GInv == PlaceInv /\ LinkInv /\ AskedInv /\ HandlingInv /\ MapInv /\ RowsInv /\ FaultInv

(* A turn of a loop. *)
LEMMA WalkDoes ==
    ASSUME NEW from, NEW S, S \subseteq Nat, NEW it, NEW into, NEW back,
           Walk(from, S, it, into, back)
    PROVE /\ pc = from
          /\ locked' = (pc' \notin {"idle", "askClusterList", "askAttribute"})
          /\ \/ it \in dangling /\ pc' = "undefined" /\ at' = at
             \/ it \notin dangling /\ pc' = back /\ at' = [at EXCEPT ![it] = 0]
             \/ /\ it \notin dangling /\ pc' = into
                /\ \E k \in S : k > at[it] /\ at' = [at EXCEPT ![it] = k]
<1>1. CASE it \in dangling
  BY <1>1 DEF Walk
<1>2. CASE it \notin dangling /\ After(S, at[it]) = {}
  BY <1>2 DEF Walk
<1>3. CASE it \notin dangling /\ After(S, at[it]) # {}
  <2> DEFINE k == First(After(S, at[it]))
  <2>1. k \in After(S, at[it])
    BY <1>3, FirstKey DEF After
  <2>2. k \in S /\ k > at[it]
    BY <2>1 DEF After
  <2>3. pc = from /\ locked' = (pc' \notin {"idle", "askClusterList", "askAttribute"})
    BY DEF Walk
  <2>4. pc' = into /\ at' = [at EXCEPT ![it] = k]
    BY <1>3 DEF Walk
  <2> QED
    BY <1>3, <2>2, <2>3, <2>4
<1> QED
  BY <1>1, <1>2, <1>3

(* The keys of the loops are where the program counter says. *)
LEMMA PlaceNext == ASSUME GInv, [Next]_vars PROVE PlaceInv'
<1> USE DEF Early, WaitPcs, AskPcs, AttrIn, ClusterIn, EpIn, NodeIn, EpOut, ClusterOut, AttrOut, Pcs
<1>0. PlaceInv /\ LinkInv /\ MapTypes
  BY DEF GInv, MapInv
<1>1. CASE UNCHANGED <<pc, at, locked>>
  BY <1>0, <1>1 DEF PlaceInv, AtTypes
<1>2. ASSUME NEW kind, NEW from, NEW to, Ask(kind, from, to),
             <<from, to>> \in {<<"askPanId", "panId">>, <<"askNodeList", "nodeList">>,
                               <<"askEpList", "epList">>, <<"askClusterList", "clusterList">>,
                               <<"askAttribute", "attribute">>}
      PROVE PlaceInv'
  <2>1. pc = from /\ pc' = to /\ UNCHANGED <<at, locked>>
    BY <1>2 DEF Ask
  <2> QED
    BY <1>0, <1>2, <2>1 DEF PlaceInv, AtTypes
<1>3. CASE Return
  <2>1. phase # "idle" /\ pc' = Resume[pc] /\ UNCHANGED <<at, locked>>
    BY <1>3 DEF Return, ReturnTrue, ReturnOverwritten
  <2>2. pc \in WaitPcs
    BY <1>0, <2>1 DEF LinkInv
  <2> QED
    BY <1>0, <2>1, <2>2 DEF PlaceInv, AtTypes, Resume
<1>4. CASE StartDiscovery
  BY <1>0, <1>4 DEF StartDiscovery, PlaceInv, AtTypes
<1>5. CASE StoreNodes
  <2>1. pc = "storeNodes" /\ pc' = "nextNode" /\ at' = Before /\ AtTypes'
    BY <1>5 DEF StoreNodes, Before, AtTypes
  <2> QED
    BY <1>0, <2>1 DEF PlaceInv, Before
<1>6. CASE NextNode
  <2>1. locked' = FALSE
    BY <1>6 DEF NextNode
  <2>2. CASE pc' = "idle" /\ at' = Before
    BY <2>1, <2>2 DEF PlaceInv, AtTypes, Before
  <2>3. CASE After(nodes, at.node) # {}
    <3> DEFINE k == First(After(nodes, at.node))
    <3>1. nodes \subseteq Nat
      BY <1>0, Keys DEF MapTypes
    <3>2. k \in Addr
      BY <1>0, <2>3, <3>1, FirstKey DEF After, MapTypes
    <3>3. k # 0
      BY <3>2, Keys
    <3> HIDE DEF k
    <3>4. pc' = "askEpList" /\ at' = [Before EXCEPT !.node = k]
      BY <1>6, <2>3 DEF NextNode, k
    <3>5. at' = [node |-> k, ep |-> 0, cluster |-> 0, attr |-> 0]
      BY <3>4 DEF Before
    <3>6. AtTypes'
      BY <3>2, <3>5 DEF AtTypes
    <3> QED
      BY <2>1, <3>3, <3>4, <3>5, <3>6 DEF PlaceInv
  <2> QED
    BY <1>6, <2>2, <2>3 DEF NextNode
<1>7. CASE GotEpList
  BY <1>0, <1>7 DEF GotEpList, PlaceInv, AtTypes
<1>8. CASE GotClusterList
  BY <1>0, <1>8 DEF GotClusterList, PlaceInv, AtTypes
<1>9. CASE StartAttributes
  <2>1. pc' = "attrNode" /\ at' = Before /\ AtTypes'
    BY <1>9 DEF StartAttributes, Before, AtTypes
  <2> QED
    BY <1>0, <2>1 DEF PlaceInv, Before
<1>10. CASE GotAttribute
  <2>1. pc = "gotAttribute"
    BY <1>10 DEF GotAttribute
  <2>2. \/ pc' = "attrCluster" /\ at' = [at EXCEPT !.attr = 0]
        \/ pc' = "attrAttr" /\ at' = at
    BY <1>10 DEF GotAttribute
  <2> QED
    BY <1>0, <2>1, <2>2 DEF PlaceInv, AtTypes
<1>11. CASE NextEp
  <2>1. EpsOf(at.node) \subseteq Ep /\ Ep \subseteq Nat
    BY Keys DEF EpsOf
  <2>2. /\ pc = "nextEp"
        /\ locked' = (pc' \notin {"idle", "askClusterList", "askAttribute"})
        /\ \/ pc' = "undefined" /\ at' = at
           \/ pc' = "nextNode" /\ at' = [at EXCEPT !.ep = 0]
           \/ pc' = "askClusterList" /\ \E k \in Ep : at' = [at EXCEPT !.ep = k]
    BY <1>11, <2>1, WalkDoes DEF NextEp
  <2> QED
    BY <1>0, <2>2, Keys DEF PlaceInv, AtTypes
<1>12. CASE AttrNode
  <2>1. nodes \subseteq Addr /\ nodes \subseteq Nat
    BY <1>0, Keys DEF MapTypes
  <2>3. Walk("attrNode", nodes, "node", "attrEp", "idle")
    BY <1>12 DEF AttrNode
  <2>4. /\ pc = "attrNode"
        /\ locked' = (pc' \notin {"idle", "askClusterList", "askAttribute"})
        /\ \/ "node" \in dangling /\ pc' = "undefined" /\ at' = at
           \/ "node" \notin dangling /\ pc' = "idle" /\ at' = [at EXCEPT !["node"] = 0]
           \/ /\ "node" \notin dangling /\ pc' = "attrEp"
              /\ \E k \in nodes : k > at["node"] /\ at' = [at EXCEPT !["node"] = k]
    BY <2>1, <2>3, WalkDoes, Zenon
  <2>2. /\ pc = "attrNode"
        /\ locked' = (pc' \notin {"idle", "askClusterList", "askAttribute"})
        /\ \/ pc' = "undefined" /\ at' = at
           \/ pc' = "idle" /\ at' = [at EXCEPT !.node = 0]
           \/ pc' = "attrEp" /\ \E k \in nodes : at' = [at EXCEPT !.node = k]
    BY <2>4
  <2> QED
    BY <1>0, <2>1, <2>2, Keys DEF PlaceInv, AtTypes
<1>13. CASE AttrEp
  <2>1. EpsOf(at.node) \subseteq Ep /\ Ep \subseteq Nat
    BY Keys DEF EpsOf
  <2>2. /\ pc = "attrEp"
        /\ locked' = (pc' \notin {"idle", "askClusterList", "askAttribute"})
        /\ \/ pc' = "undefined" /\ at' = at
           \/ pc' = "attrNode" /\ at' = [at EXCEPT !.ep = 0]
           \/ pc' = "attrCluster" /\ \E k \in Ep : at' = [at EXCEPT !.ep = k]
    BY <1>13, <2>1, WalkDoes DEF AttrEp
  <2> QED
    BY <1>0, <2>2, Keys DEF PlaceInv, AtTypes
<1>14. CASE AttrCluster
  <2>1. ClustersOf(at.node, at.ep) \subseteq Cluster /\ Cluster \subseteq Nat
    BY Keys DEF ClustersOf
  <2>2. /\ pc = "attrCluster"
        /\ locked' = (pc' \notin {"idle", "askClusterList", "askAttribute"})
        /\ \/ pc' = "undefined" /\ at' = at
           \/ pc' = "attrEp" /\ at' = [at EXCEPT !.cluster = 0]
           \/ pc' = "attrAttr" /\ \E k \in Cluster : at' = [at EXCEPT !.cluster = k]
    BY <1>14, <2>1, WalkDoes DEF AttrCluster
  <2> QED
    BY <1>0, <2>2, Keys DEF PlaceInv, AtTypes
<1>15. CASE AttrAttr
  <2>1. Attr \subseteq Attr /\ Attr \subseteq Nat
    BY Keys
  <2>2. /\ pc = "attrAttr"
        /\ locked' = (pc' \notin {"idle", "askClusterList", "askAttribute"})
        /\ \/ pc' = "undefined" /\ at' = at
           \/ pc' = "attrCluster" /\ at' = [at EXCEPT !.attr = 0]
           \/ pc' = "askAttribute" /\ \E k \in Attr : at' = [at EXCEPT !.attr = k]
    BY <1>15, <2>1, WalkDoes DEF AttrAttr
  <2> QED
    BY <1>0, <2>2, Keys DEF PlaceInv, AtTypes
<1>16. CASE SendRequest \/ EndWait \/ HandlerStep \/ UNCHANGED vars
  BY <1>16, <1>1 DEF SendRequest, EndWait, HandlerStep, BeginHandle, StoreItem, EndHandle,
     SignalConf,
     mainVars, vars
<1> HIDE DEF Early, WaitPcs, AskPcs, AttrIn, ClusterIn, EpIn, NodeIn, EpOut, ClusterOut, AttrOut, Pcs
<1>17. CASE AskPanId \/ AskNodeList \/ AskEpList \/ AskClusterList \/ AskAttribute
  BY <1>17, <1>2 DEF AskPanId, AskNodeList, AskEpList, AskClusterList, AskAttribute
<1> QED
  BY <1>3, <1>4, <1>5, <1>6, <1>7, <1>8, <1>9, <1>10, <1>11, <1>12, <1>13, <1>14, <1>15, <1>16,
     <1>17 DEF Next, JobStep, Finished

(* The steps of a walk that make no request. *)
WalkStep == \/ StartDiscovery \/ StartAttributes \/ StoreNodes \/ NextNode \/ GotEpList \/ NextEp
            \/ GotClusterList \/ AttrNode \/ AttrEp \/ AttrCluster \/ AttrAttr \/ GotAttribute

AskStep == AskPanId \/ AskNodeList \/ AskEpList \/ AskClusterList \/ AskAttribute

(* The kinds of step. *)
LEMMA NextSplits == Next => \/ WalkStep \/ AskStep \/ SendRequest \/ EndWait \/ Return \/ HandlerStep
                            \/ UNCHANGED vars
BY DEF Next, JobStep, WalkStep, AskStep, Finished

(* A walk makes its steps between requests and leaves the link alone. *)
LEMMA WalkOutside ==
    ASSUME WalkStep
    PROVE /\ pc \notin WaitPcs /\ pc' \notin WaitPcs
          /\ UNCHANGED <<requestVars, handling, asked, stray, dangling>>
<1> USE DEF WaitPcs, vars, handlerVars, historyVars
<1>1. CASE StartDiscovery \/ StartAttributes \/ StoreNodes \/ NextNode \/ GotEpList \/ GotClusterList
  BY <1>1 DEF StartDiscovery, StartAttributes, StoreNodes, NextNode, GotEpList, GotClusterList
<1>2. CASE GotAttribute
  BY <1>2 DEF GotAttribute
<1>3. CASE NextEp \/ AttrNode \/ AttrEp \/ AttrCluster \/ AttrAttr
  BY <1>3 DEF NextEp, AttrNode, AttrEp, AttrCluster, AttrAttr, Walk
<1> QED
  BY <1>1, <1>2, <1>3 DEF WalkStep

(* What a step that makes a request does. *)
LEMMA AskDoes ==
    ASSUME AskStep
    PROVE /\ pc \in AskPcs /\ pc' \in WaitPcs
          /\ phase = "idle" /\ cur < MaxReq
          /\ phase' = "cleared" /\ cur' = cur + 1 /\ event' = FALSE
          /\ asked' = [asked EXCEPT ![cur + 1] = [kind |-> KindAt[pc'], path |-> Here]]
          /\ answered' = FALSE /\ outcome' = "NONE"
          /\ UNCHANGED <<open, once, parsed, mapVars, dbVars, locked, at, jobs, handlerVars, stray,
                         faultVars>>
          /\ <<pc, pc'>> \in {<<"askPanId", "panId">>, <<"askNodeList", "nodeList">>,
                              <<"askEpList", "epList">>, <<"askClusterList", "clusterList">>,
                              <<"askAttribute", "attribute">>}
<1> USE DEF AskPcs, WaitPcs, KindAt, Ask, Start
<1>1. CASE AskPanId
  BY <1>1 DEF AskPanId
<1>2. CASE AskNodeList
  BY <1>2 DEF AskNodeList
<1>3. CASE AskEpList
  BY <1>3 DEF AskEpList
<1>4. CASE AskClusterList
  BY <1>4 DEF AskClusterList
<1>5. CASE AskAttribute
  BY <1>5 DEF AskAttribute
<1> QED
  BY <1>1, <1>2, <1>3, <1>4, <1>5 DEF AskStep

(* What the end of a request does. *)
LEMMA ReturnDoes ==
    ASSUME GInv, Return
    PROVE /\ pc \in WaitPcs /\ pc' = Resume[pc] /\ pc' \notin WaitPcs
          /\ phase = "returning" /\ phase' = "idle" /\ cur # 0
          /\ UNCHANGED <<cur, event, open, once, parsed, answered, mapVars, dbVars, locked, at,
                         jobs, askedNodes, handlerVars, excused>>
          /\ faults' = faults \/ (faults < MaxFaults /\ faults' = faults + 1)
          /\ stray' = (stray \/ cur \in open \/ parsed # 0)
          /\ asked' = IF cur \in open THEN asked ELSE [asked EXCEPT ![cur] = NoRequest]
<1>1. /\ phase = "returning" /\ phase' = "idle"
      /\ UNCHANGED <<cur, event, open, once, parsed, answered>>
  BY DEF Return, ReturnTrue, ReturnOverwritten
<1>2. pc \in WaitPcs /\ cur # 0
  BY <1>1 DEF GInv, LinkInv
<1>3. pc' = Resume[pc] /\ pc' \notin WaitPcs
  BY <1>2 DEF Return, Resume, WaitPcs
<1> QED
  BY <1>1, <1>2, <1>3 DEF Return

(* What the end of a wait does. *)
LEMMA EndWaitDoes ==
    ASSUME EndWait
    PROVE /\ phase = "waiting" /\ phase' = "returning"
          /\ event' \in {event, FALSE} /\ answered' \in {answered, TRUE}
          /\ answered' # answered => event
          /\ UNCHANGED <<cur, open, once, parsed, outcome, mapVars, dbVars, mainVars, handlerVars,
                         historyVars>>
<1>1. CASE Succeed
  BY <1>1 DEF EndWait, Succeed
<1>2. CASE GiveUp
  BY <1>2 DEF EndWait, GiveUp
<1> QED
  BY <1>1, <1>2 DEF EndWait

(* What the message thread leaves alone. *)
LEMMA HandlerOutside ==
    ASSUME HandlerStep
    PROVE UNCHANGED <<phase, cur, answered, outcome, dbVars, mainVars, stray, faultVars>>
BY DEF HandlerStep, BeginHandle, StoreItem, EndHandle, SignalConf, Handle, Signal, requestVars,
   historyVars

(* A request under way, its numbers and what is open. *)
LEMMA LinkInvNext == ASSUME GInv, [Next]_vars PROVE LinkInv'
<1>0. LinkInv
  BY DEF GInv
<1>1. CASE WalkStep
  BY <1>0, <1>1, WalkOutside DEF LinkInv, requestVars
<1>2. CASE AskStep
  <2>1. /\ cur < MaxReq /\ phase' = "cleared" /\ cur' = cur + 1 /\ pc' \in WaitPcs
        /\ UNCHANGED <<open, once, parsed>>
    BY <1>2, AskDoes
  <2>2. cur' \in 0 .. MaxReq /\ cur' # 0 /\ open' \subseteq 1 .. cur' /\ parsed' \in 0 .. MaxReq
    BY <1>0, <2>1, MaxReqAssumption DEF LinkInv
  <2> QED
    BY <1>0, <2>1, <2>2 DEF LinkInv
<1>3. CASE SendRequest
  <2>1. /\ phase # "idle" /\ phase' = "waiting" /\ open' \in {open, open \cup {cur}}
        /\ UNCHANGED <<cur, parsed, pc>>
        /\ once' = once \/ (open' = open \cup {cur} /\ once' = once \cup {cur})
        /\ open \subseteq open'
    BY <1>3 DEF SendRequest, Send, mainVars
  <2>2. cur \in 1 .. cur /\ pc \in WaitPcs
    BY <1>0, <2>1 DEF LinkInv
  <2>3. once' \subseteq open'
    BY <1>0, <2>1 DEF LinkInv
  <2> QED
    BY <1>0, <2>1, <2>2, <2>3 DEF LinkInv
<1>4. CASE Return
  BY <1>0, <1>4, ReturnDoes DEF LinkInv
<1>5. CASE HandlerStep
  <2>1. UNCHANGED <<phase, cur, pc>>
    BY <1>5, HandlerOutside DEF mainVars
  <2>2. open' \subseteq open /\ parsed' \in {parsed, 0} \cup open
    BY <1>5 DEF HandlerStep, BeginHandle, StoreItem, EndHandle, SignalConf, Handle, Signal,
       requestVars
  <2>3. once' \subseteq open'
    <3>1. CASE UNCHANGED <<open, once>>
      BY <1>0, <3>1 DEF LinkInv
    <3>2. CASE EndHandle
      BY <1>0, <3>2 DEF LinkInv, EndHandle, Handle
    <3> QED
      BY <1>5, <3>1, <3>2 DEF HandlerStep, BeginHandle, StoreItem, SignalConf, Signal, requestVars
  <2> QED
    BY <1>0, <2>1, <2>2, <2>3, MaxReqAssumption DEF LinkInv
<1>6. CASE UNCHANGED vars
  BY <1>0, <1>6 DEF LinkInv, vars, requestVars, mainVars
<1>7. CASE EndWait
  BY <1>0, <1>7, EndWaitDoes DEF LinkInv, mainVars
<1> QED
  BY <1>1, <1>2, <1>3, <1>4, <1>5, <1>6, <1>7, NextSplits

(* What is asked at each place of a walk has answers that fit the map. *)
LEMMA ItemsHere ==
    ASSUME PlaceInv, NEW to,
           <<pc, to>> \in {<<"askPanId", "panId">>, <<"askNodeList", "nodeList">>,
                           <<"askEpList", "epList">>, <<"askClusterList", "clusterList">>,
                           <<"askAttribute", "attribute">>}
    PROVE Items([kind |-> KindAt[to], path |-> Here]) \subseteq Item
<1> DEFINE q == [kind |-> KindAt[to], path |-> Here]
<1>1. /\ q.path[1] = at.node /\ q.path[2] = at.ep /\ q.path = <<at.node, at.ep, at.cluster, at.attr>>
      /\ q.kind = KindAt[to]
  BY DEF Here
<1>2. CASE to = "panId"
  BY <1>1, <1>2 DEF Items, KindAt
<1>3. CASE to = "nodeList"
  BY <1>1, <1>3 DEF Items, KindAt, Item
<1>4. CASE to = "epList"
  <2>1. at.node \in Addr
    BY <1>4 DEF PlaceInv, AtTypes, NodeIn
  <2> QED
    BY <1>1, <1>4, <2>1 DEF Items, KindAt, Item
<1>5. CASE to = "clusterList"
  <2>1. at.node \in Addr /\ at.ep \in Ep
    BY <1>5 DEF PlaceInv, AtTypes, NodeIn, EpIn
  <2> QED
    BY <1>1, <1>5, <2>1 DEF Items, KindAt, Item
<1>6. CASE to = "attribute"
  <2>1. at.node \in Addr /\ at.ep \in Ep /\ at.cluster \in Cluster /\ at.attr \in Attr
    BY <1>6 DEF PlaceInv, AtTypes, NodeIn, EpIn, ClusterIn, AttrIn
  <2> QED
    BY <1>1, <1>6, <2>1 DEF Items, KindAt, Item, Path
<1> QED
  BY <1>2, <1>3, <1>4, <1>5, <1>6

(* What was not asked has no answer to store. *)
LEMMA NoItems == Items(NoRequest) = {}
BY DEF Items, NoRequest

(* What was asked has answers that fit the map, as long as they may come. *)
LEMMA AskedNext == ASSUME GInv, [Next]_vars PROVE AskedInv'
<1>0. AskedInv /\ LinkInv /\ PlaceInv
  BY DEF GInv
<1>1. CASE WalkStep
  BY <1>0, <1>1, WalkOutside DEF AskedInv, requestVars
<1>2. CASE AskStep
  <2>1. cur + 1 \in Requests /\ cur' = cur + 1
    BY <1>0, <1>2, AskDoes, MaxReqAssumption DEF LinkInv, Requests
  <2>2. asked' = [asked EXCEPT ![cur + 1] = [kind |-> KindAt[pc'], path |-> Here]] /\ Here' = Here
    BY <1>2, AskDoes DEF Here
  <2>3. Items([kind |-> KindAt[pc'], path |-> Here]) \subseteq Item
    BY <1>0, <1>2, AskDoes, ItemsHere
  <2>4. DOMAIN asked' = Requests
    BY <1>0, <2>2 DEF AskedInv
  <2>5. ASSUME NEW r \in Requests PROVE Items(asked'[r]) \subseteq Item
    BY <1>0, <2>1, <2>2, <2>3 DEF AskedInv
  <2> QED
    BY <1>0, <2>1, <2>2, <2>4, <2>5 DEF AskedInv
<1>3. CASE SendRequest
  BY <1>0, <1>3 DEF SendRequest, Send, AskedInv, mainVars, historyVars, Here
<1>4. CASE Return
  <2>1. pc' \notin WaitPcs
    BY <1>4, ReturnDoes
  <2>2. asked' = asked \/ asked' = [asked EXCEPT ![cur] = NoRequest]
    BY <1>4, ReturnDoes
  <2> QED
    BY <1>0, <2>1, <2>2, NoItems DEF AskedInv
<1>5. CASE HandlerStep
  <2>1. UNCHANGED <<cur, phase, pc, at, Here>>
    BY <1>5, HandlerOutside DEF mainVars, Here
  <2>2. \/ asked' = asked
        \/ /\ asked' = [asked EXCEPT ![handling.id] = NoRequest]
           /\ handling.id # cur \/ phase = "idle"
    BY <1>5 DEF HandlerStep, BeginHandle, StoreItem, EndHandle, SignalConf, historyVars
  <2>3. pc \in WaitPcs => phase # "idle"
    BY <1>0 DEF LinkInv
  <2>4. pc \in WaitPcs => asked'[cur] = asked[cur]
    <3>1. pc \in WaitPcs => cur \in DOMAIN asked
      BY <1>0, MaxReqAssumption DEF LinkInv, AskedInv, Requests
    <3> QED
      BY <2>2, <2>3, <3>1
  <2>5. DOMAIN asked' = Requests /\ \A r \in Requests : Items(asked'[r]) \subseteq Item
    BY <1>0, <2>2, NoItems DEF AskedInv
  <2> QED
    BY <1>0, <2>1, <2>4, <2>5 DEF AskedInv
<1>6. CASE UNCHANGED vars
  BY <1>0, <1>6 DEF AskedInv, vars, requestVars, mainVars, historyVars, Here
<1>7. CASE EndWait
  BY <1>0, <1>7, EndWaitDoes DEF AskedInv, mainVars, historyVars, Here
<1> QED
  BY <1>1, <1>2, <1>3, <1>4, <1>5, <1>6, <1>7, NextSplits

(* An answer is stored while it is open. *)
LEMMA HandlingNext == ASSUME GInv, [Next]_vars PROVE HandlingInv'
<1>0. HandlingInv /\ AskedInv /\ LinkInv
  BY DEF GInv
<1>1. CASE UNCHANGED <<handling, open>>
  BY <1>0, <1>1 DEF HandlingInv
<1>2. CASE WalkStep \/ AskStep \/ EndWait \/ Return \/ SignalConf \/ UNCHANGED vars
  BY <1>1, <1>2, WalkOutside, AskDoes, EndWaitDoes, ReturnDoes
     DEF handlerVars, requestVars, SignalConf, Signal, vars
<1>3. CASE SendRequest
  <2>1. open \subseteq open' /\ handling' = handling
    BY <1>3 DEF SendRequest, Send, handlerVars
  <2> QED
    BY <1>0, <2>1 DEF HandlingInv
<1>4. ASSUME NEW r \in Requests, BeginHandle(r) PROVE HandlingInv'
  <2>1. PICK S \in SUBSET Items(asked[r]) : handling' = [id |-> r, items |-> S]
    BY <1>4 DEF BeginHandle
  <2>2. r \in open /\ open' = open
    BY <1>4 DEF BeginHandle, requestVars
  <2>3. S \in SUBSET Item /\ r # 0
    BY <1>0 DEF AskedInv, Requests
  <2> QED
    BY <2>1, <2>2, <2>3 DEF HandlingInv
<1>5. ASSUME NEW x \in handling.items, StoreItem(x) PROVE HandlingInv'
  <2>1. handling' = [handling EXCEPT !.items = @ \ {x}] /\ open' = open
    BY <1>5 DEF StoreItem, requestVars
  <2> QED
    BY <1>0, <2>1 DEF HandlingInv
<1>6. CASE EndHandle
  <2>1. handling' = [id |-> 0, items |-> {}]
    BY <1>6 DEF EndHandle, NotHandling
  <2> QED
    BY <2>1 DEF HandlingInv
<1> QED
  BY <1>2, <1>3, <1>4, <1>5, <1>6, NextSplits DEF HandlerStep

(* A node, an endpoint and a cluster that a walk is at are keys. *)
LEMMA InHand ==
    ASSUME PlaceInv
    PROVE /\ pc \in NodeIn => at.node \in Addr
          /\ pc \in EpIn => at.node \in Addr /\ at.ep \in Ep
          /\ pc \in ClusterIn => at.node \in Addr /\ at.ep \in Ep /\ at.cluster \in Cluster
          /\ pc \in AttrIn => Here \in Path
<1>1. /\ at.node \in Addr \cup {0} /\ at.ep \in Ep \cup {0} /\ at.cluster \in Cluster \cup {0}
      /\ at.attr \in Attr \cup {0}
  BY DEF PlaceInv, AtTypes
<1>2. AttrIn \subseteq ClusterIn /\ ClusterIn \subseteq EpIn /\ EpIn \subseteq NodeIn
  BY DEF ClusterIn, EpIn, NodeIn
<1> QED
  BY <1>1, <1>2 DEF PlaceInv, Here, Path

(* The place a walk is at, key by key, and the paths above it. *)
LEMMA HereKeys ==
    ASSUME Here \in Path
    PROVE /\ Here[1] = at.node /\ Here[2] = at.ep /\ Here[3] = at.cluster
          /\ UpTo(Here, 2) = {<<at.node, at.ep>>}
          /\ UpTo(Here, 3) = {<<at.node, at.ep, at.cluster>>}
<1>1. Here[1] = at.node /\ Here[2] = at.ep /\ Here[3] = at.cluster /\ Len(Here) = 4
  BY DEF Here
<1>2. /\ SubSeq(Here, 1, 2) = <<at.node, at.ep>>
      /\ SubSeq(Here, 1, 3) = <<at.node, at.ep, at.cluster>>
  BY <1>1, PathPrefixes
<1> QED
  BY <1>1, <1>2 DEF UpTo

(* The kinds of item. *)
LEMMA ItemKinds ==
    ASSUME NEW x \in Item
    PROVE \/ \E n \in Addr : x = <<n>>
          \/ x \in Addr \X Ep
          \/ x \in Addr \X Ep \X Cluster
          \/ x \in Path
BY DEF Item

(* An item of any kind leaves the nested map in shape. *)
LEMMA StoredMap ==
    ASSUME GInv, NEW x \in handling.items, StoreItem(x) PROVE MapInv'
<1>0. MapInv /\ MapTypes /\ AtTypes
  BY DEF GInv, MapInv, PlaceInv
<1>1. x \in Item /\ handling.id \in 0 .. MaxReq
  <2>1. handling.id \in open \cup {0} /\ handling.items \subseteq Item
    BY DEF GInv, HandlingInv
  <2>2. open \cup {0} \subseteq 0 .. MaxReq
    BY MaxReqAssumption DEF GInv, LinkInv
  <2> QED
    BY <2>1, <2>2, Zenon
<1>2. CASE \E n \in Addr : x = <<n>>
  <2>1. PICK n \in Addr : x = <<n>>
    BY <1>2
  <2>2. /\ nodes' = nodes \cup {n}
        /\ eps' = {y \in eps : y[1] # n}
        /\ clusters' = {y \in clusters : y[1] # n}
        /\ value' \in [Path -> 0 .. MaxReq]
        /\ \A p \in Path : value'[p] = IF p[1] # n THEN value[p] ELSE 0
        /\ physical' = [physical EXCEPT ![n] = "real"]
    BY <1>0, <1>1, <2>1, StoreNode
  <2>3. MapTypes'
    BY <1>0, <2>2 DEF MapTypes
  <2>4. physical' \in [Addr -> {"absent", "zero", "real"}]
    BY <1>0, <2>2 DEF MapInv
  <2>5. \A y \in eps' : y[1] \in nodes'
    BY <1>0, <2>2 DEF MapInv
  <2>6. \A y \in clusters' : <<y[1], y[2]>> \in eps'
    BY <1>0, <2>2 DEF MapInv
  <2>7. \A p \in Path : value'[p] # 0 => <<p[1], p[2], p[3]>> \in clusters'
    BY <1>0, <2>2 DEF MapInv
  <2> QED
    BY <2>3, <2>4, <2>5, <2>6, <2>7 DEF MapInv
<1>3. CASE x \in Addr \X Ep
  <2>2. /\ nodes' = nodes \cup {x[1]}
        /\ eps' = eps \cup {x}
        /\ clusters' = {y \in clusters : ~(y[1] = x[1] /\ y[2] = x[2])}
        /\ value' \in [Path -> 0 .. MaxReq]
        /\ \A p \in Path : value'[p] = IF p[1] = x[1] /\ p[2] = x[2] THEN 0 ELSE value[p]
        /\ physical' = physical
    BY <1>0, <1>1, <1>3, StoreEp
  <2>3. MapTypes'
    BY <1>0, <1>3, <2>2 DEF MapTypes
  <2>4. physical' \in [Addr -> {"absent", "zero", "real"}]
    BY <1>0, <2>2 DEF MapInv
  <2>5. \A y \in eps' : y[1] \in nodes'
    BY <1>0, <2>2 DEF MapInv
  <2>6. \A y \in clusters' : <<y[1], y[2]>> \in eps'
    BY <1>0, <2>2 DEF MapInv
  <2>7. \A p \in Path : value'[p] # 0 => <<p[1], p[2], p[3]>> \in clusters'
    BY <1>0, <2>2 DEF MapInv
  <2> QED
    BY <2>3, <2>4, <2>5, <2>6, <2>7 DEF MapInv
<1>4. CASE x \in Addr \X Ep \X Cluster
  <2>2. /\ nodes' = nodes \cup {x[1]}
        /\ eps' = eps \cup {<<x[1], x[2]>>}
        /\ clusters' = clusters \cup {x}
        /\ value' \in [Path -> 0 .. MaxReq]
        /\ \A p \in Path : value'[p] = IF p[1] = x[1] /\ p[2] = x[2] /\ p[3] = x[3]
                                       THEN 0 ELSE value[p]
        /\ physical' = physical
    BY <1>0, <1>1, <1>4, StoreCluster
  <2>3. MapTypes'
    BY <1>0, <1>4, <2>2 DEF MapTypes
  <2>4. physical' \in [Addr -> {"absent", "zero", "real"}]
    BY <1>0, <2>2 DEF MapInv
  <2>5. \A y \in eps' : y[1] \in nodes'
    BY <1>0, <2>2 DEF MapInv
  <2>6. \A y \in clusters' : <<y[1], y[2]>> \in eps'
    BY <1>0, <2>2 DEF MapInv
  <2>7. \A p \in Path : value'[p] # 0 => <<p[1], p[2], p[3]>> \in clusters'
    BY <1>0, <2>2 DEF MapInv
  <2> QED
    BY <2>3, <2>4, <2>5, <2>6, <2>7 DEF MapInv
<1>5. CASE x \in Path
  <2>1. x[1] \in Addr /\ x[2] \in Ep /\ x[3] \in Cluster
    BY <1>5 DEF Path
  <2>2. /\ nodes' = nodes \cup {x[1]}
        /\ eps' = eps \cup {<<x[1], x[2]>>}
        /\ clusters' = clusters \cup {<<x[1], x[2], x[3]>>}
        /\ value' \in [Path -> 0 .. MaxReq]
        /\ \A p \in Path : p # x => value'[p] = value[p]
        /\ physical' = physical
    BY <1>0, <1>1, <1>5, StoreValue
  <2>3. MapTypes'
    BY <1>0, <2>1, <2>2 DEF MapTypes
  <2>4. physical' \in [Addr -> {"absent", "zero", "real"}]
    BY <1>0, <2>2 DEF MapInv
  <2>5. \A y \in eps' : y[1] \in nodes'
    BY <1>0, <2>2 DEF MapInv
  <2>6. ASSUME NEW y \in clusters' PROVE <<y[1], y[2]>> \in eps'
    <3>1. CASE y \in clusters
      BY <1>0, <2>2, <3>1 DEF MapInv
    <3>2. CASE y = <<x[1], x[2], x[3]>>
      <4>1. y[1] = x[1] /\ y[2] = x[2]
        BY <3>2
      <4> QED
        BY <2>2, <4>1
    <3> QED
      BY <2>2, <3>1, <3>2
  <2>7. \A p \in Path : value'[p] # 0 => <<p[1], p[2], p[3]>> \in clusters'
    BY <1>0, <2>2 DEF MapInv
  <2> QED
    BY <2>3, <2>4, <2>5, <2>6, <2>7 DEF MapInv
<1> QED
  BY <1>1, <1>2, <1>3, <1>4, <1>5, ItemKinds

(* The map keeps its shape: no path without the paths above it. *)
LEMMA MapNext == ASSUME GInv, [Next]_vars PROVE MapInv'
<1>0. MapInv /\ PlaceInv
  BY DEF GInv
<1>1. CASE UNCHANGED mapVars
  BY <1>0, <1>1 DEF MapInv, MapTypes, mapVars
<1>2. CASE AskStep \/ EndWait \/ Return \/ SendRequest \/ UNCHANGED vars
  BY <1>1, <1>2, AskDoes, EndWaitDoes, ReturnDoes DEF SendRequest, vars
<1>3. CASE HandlerStep
  BY <1>1, <1>3, StoredMap DEF HandlerStep, BeginHandle, EndHandle, SignalConf
<1>4. CASE StartDiscovery
  <2>1. /\ nodes' = {} /\ eps' = {} /\ clusters' = {} /\ value' = [p \in Path |-> 0]
        /\ physical' = [n \in Addr |-> "absent"]
    BY <1>4 DEF StartDiscovery
  <2> QED
    BY <2>1, MaxReqAssumption DEF MapInv, MapTypes
<1>5. CASE StartAttributes \/ StoreNodes \/ NextNode
  BY <1>1, <1>5 DEF StartAttributes, StoreNodes, NextNode
<1>6. CASE NextEp \/ AttrNode \/ AttrEp \/ AttrCluster \/ AttrAttr
  BY <1>1, <1>6 DEF NextEp, AttrNode, AttrEp, AttrCluster, AttrAttr, Walk
<1>7. CASE GotEpList
  <2>1. /\ UNCHANGED <<nodes, eps, clusters, value>>
        /\ physical' = [physical EXCEPT ![at.node] = IF @ = "absent" THEN "zero" ELSE @]
    BY <1>7 DEF GotEpList
  <2> QED
    BY <1>0, <2>1 DEF MapInv, MapTypes
<1>8. CASE GotClusterList
  <2>1. at.node \in Addr /\ at.ep \in Ep
    BY <1>0, <1>8, InHand DEF GotClusterList, EpIn
  <2>2. /\ UNCHANGED <<clusters, value, physical>>
        /\ nodes' = nodes \cup {at.node} /\ eps' = eps \cup {<<at.node, at.ep>>}
    BY <1>8 DEF GotClusterList
  <2> QED
    BY <1>0, <2>1, <2>2 DEF MapInv, MapTypes
<1>9. CASE GotAttribute
  <2>1. Here \in Path /\ at.node \in Addr /\ at.ep \in Ep /\ at.cluster \in Cluster
    BY <1>0, <1>9, InHand DEF GotAttribute, AttrIn, ClusterIn
  <2>2. CASE UNCHANGED mapVars
    BY <1>1, <2>2
  <2>3. CASE outcome = "SUCCESS"
    <3>1. /\ nodes' = nodes \cup {at.node} /\ eps' = eps \cup {<<at.node, at.ep>>}
          /\ clusters' = clusters \cup {<<at.node, at.ep, at.cluster>>}
          /\ value' = value
      BY <1>9, <2>1, <2>3, HereKeys DEF GotAttribute
    <3>2. physical' \in {physical, [physical EXCEPT ![at.node] = IF @ = "absent" THEN "zero" ELSE @]}
      BY <1>9, <2>3 DEF GotAttribute
    <3>3. physical' \in [Addr -> {"absent", "zero", "real"}]
      BY <1>0, <3>2 DEF MapInv
    <3>4. MapTypes'
      BY <1>0, <2>1, <3>1 DEF MapInv, MapTypes
    <3> QED
      BY <1>0, <3>1, <3>3, <3>4 DEF MapInv
  <2> QED
    BY <1>9, <2>2, <2>3 DEF GotAttribute
<1> QED
  BY <1>2, <1>3, <1>4, <1>5, <1>6, <1>7, <1>8, <1>9, NextSplits DEF WalkStep

(* Rows are of nodes and attributes there are. *)
LEMMA RowsNext == ASSUME GInv, [Next]_vars PROVE RowsInv'
<1>0. RowsInv /\ PlaceInv
  BY DEF GInv
<1>1. CASE UNCHANGED <<rows, attrRows>>
  BY <1>0, <1>1 DEF RowsInv
<1>2. CASE AskStep \/ EndWait \/ Return \/ SendRequest \/ HandlerStep \/ UNCHANGED vars
  BY <1>1, <1>2, AskDoes, EndWaitDoes, ReturnDoes, HandlerOutside DEF SendRequest, vars, dbVars
<1>3. CASE StartDiscovery \/ StartAttributes \/ NextNode \/ GotAttribute
  BY <1>1, <1>3 DEF StartDiscovery, StartAttributes, NextNode, GotAttribute, dbVars
<1>4. CASE NextEp \/ AttrNode \/ AttrEp \/ AttrCluster \/ AttrAttr
  BY <1>1, <1>4 DEF NextEp, AttrNode, AttrEp, AttrCluster, AttrAttr, Walk, dbVars
<1>5. CASE StoreNodes
  <2>1. attrRows' = attrRows
    BY <1>5 DEF StoreNodes
  <2>2. PICK lost :
          rows' = [n \in Addr |-> IF physical[n] = "real" /\ rows[n] = "none" /\ n \notin lost
                                  THEN "offline" ELSE rows[n]]
    BY <1>5 DEF StoreNodes
  <2> QED
    BY <1>0, <2>1, <2>2 DEF RowsInv
<1>6. CASE GotEpList
  <2>1. /\ attrRows' = attrRows
        /\ \/ rows' = rows
           \/ \E s \in {"offline", "online"} : rows' = [rows EXCEPT ![at.node] = s]
    BY <1>6 DEF GotEpList
  <2> QED
    BY <1>0, <2>1 DEF RowsInv
<1>7. CASE GotClusterList
  <2>1. rows' = rows /\ attrRows' \subseteq attrRows \cup Path
    BY <1>7 DEF GotClusterList
  <2> QED
    BY <1>0, <2>1 DEF RowsInv
<1> QED
  BY <1>2, <1>3, <1>4, <1>5, <1>6, <1>7, NextSplits DEF WalkStep

(* What is excused are nodes, and what goes wrong is counted. *)
LEMMA FaultNext == ASSUME GInv, [Next]_vars PROVE FaultInv'
<1>0. FaultInv /\ PlaceInv
  BY DEF GInv
<1> USE DEF faultVars, historyVars
<1>1. CASE UNCHANGED <<excused, faults>>
  BY <1>0, <1>1 DEF FaultInv
<1>2. CASE AskStep \/ EndWait \/ SendRequest \/ HandlerStep \/ UNCHANGED vars
  BY <1>1, <1>2, AskDoes, EndWaitDoes, HandlerOutside DEF SendRequest, vars
<1>3. CASE WalkStep /\ ~StartDiscovery /\ ~GotEpList
  BY <1>1, <1>3 DEF WalkStep, StartAttributes, StoreNodes, NextNode, GotClusterList, NextEp,
     AttrNode, AttrEp, AttrCluster, AttrAttr, Walk, GotAttribute
<1>4. CASE StartDiscovery
  BY <1>0, <1>4 DEF StartDiscovery, FaultInv
<1>5. CASE Return
  <2>1. excused' = excused /\ (faults' = faults \/ (faults < MaxFaults /\ faults' = faults + 1))
    BY <1>5, ReturnDoes
  <2> QED
    BY <1>0, <2>1, DiscoveryAssumption DEF FaultInv
<1>6. CASE GotEpList
  <2>1. at.node \in Addr
    BY <1>0, <1>6, InHand DEF GotEpList, NodeIn
  <2>2. /\ excused' \in {excused, excused \cup {at.node}}
        /\ faults' = faults \/ (faults < MaxFaults /\ faults' = faults + 1)
    BY <1>6 DEF GotEpList
  <2> QED
    BY <1>0, <2>1, <2>2, DiscoveryAssumption DEF FaultInv
<1> QED
  BY <1>2, <1>3, <1>4, <1>5, <1>6, NextSplits

(* The program starts in order. *)
LEMMA GInvInit == Init => GInv
<1> SUFFICES ASSUME Init PROVE GInv
  OBVIOUS
<1> USE DEF Init, LinkInit
<1>1. PlaceInv
  BY DEF PlaceInv, AtTypes, Before, Pcs, Early, NodeIn, EpIn, ClusterIn, AttrIn
<1>2. LinkInv
  BY MaxReqAssumption DEF LinkInv, WaitPcs
<1>3. AskedInv
  BY NoItems DEF AskedInv, WaitPcs
<1>4. HandlingInv
  BY DEF HandlingInv, NotHandling
<1>5. MapInv
  BY MaxReqAssumption DEF MapInv, MapTypes
<1>6. RowsInv
  BY DEF RowsInv
<1>7. FaultInv
  BY DiscoveryAssumption DEF FaultInv
<1> QED
  BY <1>1, <1>2, <1>3, <1>4, <1>5, <1>6, <1>7 DEF GInv

(* ZiBManager.cpp, 395-830: the place of the main thread tells which keys    *)
(* its loops hold, whether it has the lock and what it is waiting for, and  *)
(* the nested map has no path without those above it, whatever answers come *)
(* and when.                                                                *)
THEOREM DiscoveryInvariant == Spec => []GInv
<1>1. GInv /\ [Next]_vars => GInv'
  BY PlaceNext, LinkInvNext, AskedNext, HandlingNext, MapNext, RowsNext, FaultNext DEF GInv
<1> QED
  BY <1>1, GInvInit, PTL DEF Spec

(* ZiBManager.cpp, the lock around each request of DiscoveryStart and        *)
(* AttributeHandleStart: no wait keeps the lock that the answer's handler   *)
(* needs.                                                                   *)
THEOREM NoWaitUnderLockHolds == Spec => []NoWaitUnderLock
<1>1. GInv => NoWaitUnderLock
  BY DEF GInv, LinkInv, PlaceInv, NoWaitUnderLock
<1> QED
  BY <1>1, DiscoveryInvariant, PTL

--------------------------------------------------------------------------------
(* PInv: what holds until an answer outlives its request. *)

(* The answer, if there is one, is the current request's, and is handled    *)
(* between its write and its return.                                        *)
AnswerInv ==
    ~stray =>
        /\ open \subseteq {cur} /\ parsed \in {0, cur}
        /\ phase \notin {"waiting", "returning"} => open = {} /\ parsed = 0
        /\ phase = "cleared" => event = FALSE
        /\ handling.id # 0 => handling.items \subseteq Items(asked[cur])

(* No loop loses its iterator, since no answer to what a walk asks for      *)
(* replaces a map above the innermost loop.                                 *)
WalkInv ==
    ~stray =>
        /\ dangling = {} /\ pc # "undefined"
        /\ \A n \in nodes : physical[n] = "real"
        /\ pc \in NodeIn => at.node \in nodes
        /\ pc \in ClusterIn => <<at.node, at.ep, at.cluster>> \in clusters

(* A value that was asked for is empty or this answer's.                    *)
Fresh == value[Here] \in {0, cur}

FreshInv ==
    ~stray =>
        /\ recorded.truthful => recorded.answer = recorded.request
        /\ pc = "attribute" /\ (event = TRUE \/ parsed # 0 \/ answered = TRUE) => Fresh
        /\ pc = "attribute" /\ handling.id # 0 => handling.items # {} \/ Fresh
        /\ pc = "gotAttribute" /\ answered = TRUE => Fresh

Online(n) == HasRow(n) /\ rows[n] = "online"

OnlineInv ==
    /\ askedNodes \subseteq Addr
    /\ ~stray =>
        /\ pc = "epList" /\ (event = TRUE \/ parsed # 0 \/ answered = TRUE)
           => at.node \in repliedNodes
        /\ pc = "gotEpList" /\ answered = TRUE => at.node \in repliedNodes
        /\ pc \in Early \ {"idle"} => askedNodes = {}
        /\ \A n \in askedNodes \ excused : \/ n = at.node /\ pc \in {"epList", "gotEpList"}
                                           \/ Online(n) => n \in repliedNodes

PollPcs == {"attrNode", "attrEp", "attrCluster", "attrAttr"} \cup AttrIn
FindPcs == {"nextNode", "epList", "gotEpList", "nextEp", "askClusterList", "clusterList",
            "gotClusterList"}

(* The nodes up to the one a discovery is at have been asked.               *)
ListedInv ==
    ~stray =>
        /\ pc \in PollPcs \cup {"idle"} => nodes \subseteq askedNodes
        /\ pc \in FindPcs => \A n \in nodes : n <= at.node => n \in askedNodes
        /\ pc = "askEpList" => \A n \in nodes : n < at.node => n \in askedNodes

(* The attributes of all clusters but the ones just listed have their rows. *)
Stored(p) == \/ p \in attrRows
             \/ pc \in {"clusterList", "gotClusterList"} /\ p[1] = at.node /\ p[2] = at.ep

StoredInv ==
    ~stray /\ ~refused =>
        \A p \in Path : <<p[1], p[2], p[3]>> \in clusters => Stored(p)

PInv == AnswerInv /\ WalkInv /\ FreshInv /\ OnlineInv /\ ListedInv /\ StoredInv

(* Once an answer has outlived its request, one always has. *)
LEMMA StrayStays == ASSUME [Next]_vars, ~stray' PROVE ~stray
<1>1. WalkStep => stray' = stray
  BY WalkOutside
<1>2. AskStep => stray' = stray
  BY AskDoes
<1>3. Return => stray' = (stray \/ cur \in open \/ parsed # 0)
  BY DEF Return
<1>4. HandlerStep => stray' = stray
  BY HandlerOutside
<1>5. SendRequest \/ EndWait \/ UNCHANGED vars => stray' = stray
  BY EndWaitDoes DEF SendRequest, historyVars, vars
<1> QED
  BY <1>1, <1>2, <1>3, <1>4, <1>5, NextSplits

(* Until then handlers run between a request's write and its return only. *)
LEMMA PromptHandler ==
    ASSUME GInv, PInv, ~stray, HandlerStep
    PROVE phase \in {"waiting", "returning"} /\ pc \in WaitPcs /\ cur # 0
<1>1. open # {} \/ parsed # 0
  <2>1. CASE \E r \in Requests : BeginHandle(r)
    BY <2>1 DEF BeginHandle
  <2>2. CASE \E x \in handling.items : StoreItem(x)
    <3>1. handling.id # 0 /\ handling.id \in open \cup {0}
      BY <2>2 DEF GInv, HandlingInv
    <3> QED
      BY <3>1
  <2>3. CASE EndHandle
    BY <2>3 DEF EndHandle, Handle
  <2>4. CASE SignalConf
    BY <2>4 DEF SignalConf, Signal
  <2> QED
    BY <2>1, <2>2, <2>3, <2>4 DEF HandlerStep
<1>2. phase \in {"waiting", "returning"}
  BY <1>1 DEF PInv, AnswerInv
<1>3. pc \in WaitPcs
  BY <1>2 DEF GInv, LinkInv
<1>4. cur # 0
  BY <1>3 DEF GInv, LinkInv
<1> QED
  BY <1>2, <1>3, <1>4

(* Which items there are at each place, until then. *)
LEMMA PromptItem ==
    ASSUME GInv, PInv, ~stray, NEW x \in handling.items
    PROVE \/ pc = "nodeList" /\ \E n \in Addr : x = <<n>>
          \/ pc = "epList" /\ at.node \in Addr /\ \E e \in Ep : x = <<at.node, e>>
          \/ /\ pc = "clusterList" /\ at.node \in Addr /\ at.ep \in Ep
             /\ \E c \in Cluster : x = <<at.node, at.ep, c>>
          \/ pc = "attribute" /\ x = Here /\ x \in Path
<1>1. handling.id \in open /\ handling.id # 0
  BY DEF GInv, HandlingInv
<1>2. phase \in {"waiting", "returning"} /\ x \in Items(asked[cur])
  BY <1>1 DEF PInv, AnswerInv
<1>3. pc \in WaitPcs
  BY <1>2 DEF GInv, LinkInv
<1>4. asked[cur] = [kind |-> KindAt[pc], path |-> Here]
  BY <1>3 DEF GInv, AskedInv
<1>5. /\ Here[1] = at.node /\ Here[2] = at.ep /\ asked[cur].kind = KindAt[pc]
      /\ asked[cur].path = Here
  BY <1>4 DEF Here
<1>6. /\ pc = "epList" => at.node \in Addr
      /\ pc = "clusterList" => at.node \in Addr /\ at.ep \in Ep
      /\ pc = "attribute" => Here \in Path
  BY InHand DEF GInv, NodeIn, EpIn, ClusterIn, AttrIn
<1>7. CASE pc = "panId"
  BY <1>2, <1>5, <1>7 DEF Items, KindAt
<1>8. CASE pc = "nodeList"
  BY <1>2, <1>5, <1>8 DEF Items, KindAt
<1>9. CASE pc = "epList"
  BY <1>2, <1>5, <1>6, <1>9 DEF Items, KindAt
<1>10. CASE pc = "clusterList"
  BY <1>2, <1>5, <1>6, <1>10 DEF Items, KindAt
<1>11. CASE pc = "attribute"
  BY <1>2, <1>5, <1>6, <1>11 DEF Items, KindAt
<1> QED
  BY <1>3, <1>7, <1>8, <1>9, <1>10, <1>11 DEF WaitPcs

(* What storing one does, until then. *)
LEMMA PromptStore ==
    ASSUME GInv, PInv, ~stray, NEW x \in handling.items, StoreItem(x)
    PROVE /\ dangling' = dangling
          /\ handling' = [handling EXCEPT !.items = @ \ {x}]
          /\ UNCHANGED <<requestVars, dbVars, mainVars, repliedNodes, historyVars>>
          /\ \/ /\ pc = "nodeList" /\ clusters' \subseteq clusters
                /\ \E n \in Addr : nodes' = nodes \cup {n} /\ physical' = [physical EXCEPT ![n] = "real"]
             \/ /\ pc \in {"epList", "clusterList", "attribute"}
                /\ nodes' = nodes /\ physical' = physical
                /\ pc = "epList" => clusters' \subseteq clusters
                /\ pc = "clusterList" =>
                      \E c \in Cluster : clusters' = clusters \cup {<<at.node, at.ep, c>>}
                /\ pc = "attribute" => /\ clusters' = clusters /\ value'[Here] \in {0, cur}
                                       /\ x = Here
<1>0. MapTypes /\ AtTypes /\ WalkInv
  BY DEF GInv, MapInv, PlaceInv, PInv
<1>1. handling.id \in 0 .. MaxReq /\ handling.id = cur
  <2>1. handling.id \in open /\ open \subseteq 1 .. cur /\ cur \in 0 .. MaxReq /\ open \subseteq {cur}
    BY DEF GInv, HandlingInv, LinkInv, PInv, AnswerInv
  <2> QED
    BY <2>1
<1>2. /\ handling' = [handling EXCEPT !.items = @ \ {x}]
      /\ UNCHANGED <<requestVars, dbVars, mainVars, repliedNodes, historyVars>>
  BY DEF StoreItem
<1>3. /\ pc = "nodeList" => at.ep = 0 /\ at.cluster = 0
      /\ pc = "epList" => at.cluster = 0
  BY DEF GInv, PlaceInv, EpOut, ClusterOut, Early
<1>4. CASE pc = "nodeList"
  <2>1. PICK n \in Addr : x = <<n>>
    BY <1>4, PromptItem
  <2>2. /\ nodes' = nodes \cup {n} /\ physical' = [physical EXCEPT ![n] = "real"]
        /\ clusters' = {y \in clusters : y[1] # n}
        /\ dangling' = dangling
    BY <1>0, <1>1, <1>3, <1>4, <2>1, StoreNode
  <2> QED
    BY <1>2, <1>4, <2>2
<1>5. CASE pc = "epList"
  <2>1. PICK e \in Ep : x = <<at.node, e>>
    BY <1>5, PromptItem
  <2>2. at.node \in nodes /\ at.node \in Addr
    BY <1>0, <1>5 DEF WalkInv, MapTypes, NodeIn
  <2>3. x \in Addr \X Ep /\ x[1] = at.node
    BY <2>1, <2>2
  <2>4. /\ nodes' = nodes \cup {x[1]} /\ physical' = physical
        /\ clusters' = {y \in clusters : ~(y[1] = x[1] /\ y[2] = x[2])}
        /\ dangling' = dangling
    BY <1>0, <1>1, <1>3, <1>5, <2>3, StoreEp
  <2> QED
    BY <1>2, <1>5, <2>2, <2>3, <2>4
<1>6. CASE pc = "clusterList"
  <2>1. PICK c \in Cluster : x = <<at.node, at.ep, c>>
    BY <1>6, PromptItem
  <2>2. at.node \in nodes /\ at.node \in Addr /\ at.ep \in Ep
    BY <1>0, <1>6, PromptItem DEF WalkInv, NodeIn, EpIn
  <2>3. x \in Addr \X Ep \X Cluster /\ x[1] = at.node
    BY <2>1, <2>2
  <2>4. /\ nodes' = nodes \cup {x[1]} /\ physical' = physical
        /\ clusters' = clusters \cup {x}
        /\ dangling' = dangling
    BY <1>0, <1>1, <2>3, StoreCluster
  <2> QED
    BY <1>2, <1>6, <2>1, <2>2, <2>3, <2>4
<1>7. CASE pc = "attribute"
  <2>1. x = Here /\ x \in Path
    BY <1>7, PromptItem
  <2>2. x[1] = at.node /\ x[2] = at.ep /\ x[3] = at.cluster
    BY <2>1 DEF Here
  <2>3. at.node \in nodes /\ <<at.node, at.ep, at.cluster>> \in clusters
    BY <1>0, <1>7 DEF WalkInv, NodeIn, EpIn, ClusterIn, AttrIn
  <2>4. /\ nodes' = nodes \cup {x[1]} /\ physical' = physical
        /\ clusters' = clusters \cup {<<x[1], x[2], x[3]>>}
        /\ value'[x] \in {0, handling.id}
        /\ dangling' = dangling
    BY <1>0, <1>1, <2>1, StoreValue
  <2> QED
    BY <1>1, <1>2, <1>7, <2>1, <2>2, <2>3, <2>4
<1> QED
  BY <1>4, <1>5, <1>6, <1>7, PromptItem

(* Until one is late, no answer but the current one is there. *)
LEMMA AnswerNext == ASSUME GInv, PInv, [Next]_vars PROVE AnswerInv'
<1> SUFFICES ASSUME ~stray' PROVE AnswerInv'
  BY DEF AnswerInv
<1>0. /\ ~stray /\ LinkInv /\ HandlingInv
      /\ open \subseteq {cur} /\ parsed \in {0, cur}
      /\ phase \notin {"waiting", "returning"} => open = {} /\ parsed = 0
      /\ phase = "cleared" => event = FALSE
      /\ handling.id # 0 => handling.items \subseteq Items(asked[cur])
  BY StrayStays DEF PInv, AnswerInv, GInv
<1>00. handling.id \in open \cup {0}
  BY <1>0 DEF HandlingInv
<1>1. CASE WalkStep
  BY <1>0, <1>1, WalkOutside DEF AnswerInv, requestVars
<1>2. CASE AskStep
  <2>1. /\ phase = "idle" /\ phase' = "cleared" /\ event' = FALSE
        /\ UNCHANGED <<open, parsed, handling>>
    BY <1>2, AskDoes DEF handlerVars
  <2> QED
    BY <1>0, <1>00, <2>1 DEF AnswerInv
<1>3. CASE SendRequest
  <2>1. /\ phase' = "waiting" /\ open' \in {open, open \cup {cur}}
        /\ UNCHANGED <<cur, parsed, handling, asked>>
    BY <1>3 DEF SendRequest, Send, handlerVars, historyVars
  <2> QED
    BY <1>0, <2>1 DEF AnswerInv
<1>4. CASE Return
  <2>1. /\ phase' = "idle" /\ cur \notin open /\ parsed = 0
        /\ UNCHANGED <<cur, open, parsed, handling>>
    BY <1>4, ReturnDoes DEF handlerVars
  <2>2. open = {} /\ handling.id = 0
    BY <1>0, <1>00, <2>1
  <2> QED
    BY <2>1, <2>2 DEF AnswerInv
<1>5. CASE HandlerStep
  <2>0. phase \in {"waiting", "returning"} /\ phase' = phase /\ cur' = cur
    BY <1>0, <1>5, PromptHandler, HandlerOutside
  <2>1. ASSUME NEW r \in Requests, BeginHandle(r) PROVE AnswerInv'
    <3>1. PICK S \in SUBSET Items(asked[r]) : handling' = [id |-> r, items |-> S]
      BY <2>1 DEF BeginHandle
    <3>2. r = cur /\ UNCHANGED <<open, parsed, asked>>
      BY <1>0, <2>1 DEF BeginHandle, requestVars, historyVars
    <3> QED
      BY <1>0, <2>0, <3>1, <3>2 DEF AnswerInv
  <2>2. ASSUME NEW x \in handling.items, StoreItem(x) PROVE AnswerInv'
    <3>1. /\ handling'.id = handling.id /\ handling'.items \subseteq handling.items
          /\ UNCHANGED <<open, parsed, asked>>
      BY <1>0, <2>2 DEF StoreItem, requestVars, historyVars, HandlingInv
    <3> QED
      BY <1>0, <2>0, <3>1 DEF AnswerInv
  <2>3. CASE EndHandle
    <3>1. /\ parsed' = handling.id /\ open' \subseteq open /\ handling'.id = 0
      BY <2>3 DEF EndHandle, Handle, NotHandling
    <3> QED
      BY <1>0, <1>00, <2>0, <3>1 DEF AnswerInv
  <2>4. CASE SignalConf
    <3>1. parsed' = 0 /\ UNCHANGED <<open, handling, asked>>
      BY <2>4 DEF SignalConf, Signal, handlerVars, historyVars
    <3> QED
      BY <1>0, <2>0, <3>1 DEF AnswerInv
  <2> QED
    BY <1>5, <2>1, <2>2, <2>3, <2>4 DEF HandlerStep
<1>6. CASE UNCHANGED vars
  BY <1>0, <1>6 DEF AnswerInv, vars, requestVars, handlerVars, historyVars
<1>7. CASE EndWait
  BY <1>0, <1>7, EndWaitDoes DEF AnswerInv, handlerVars, historyVars
<1> QED
  BY <1>1, <1>2, <1>3, <1>4, <1>5, <1>6, <1>7, NextSplits

(* A walk stays on nodes and clusters of the map, and all nodes of the map  *)
(* are physical ones.                                                       *)
LEMMA WalkNext == ASSUME GInv, PInv, [Next]_vars PROVE WalkInv'
<1> SUFFICES ASSUME ~stray' PROVE WalkInv'
  BY DEF WalkInv
<1>0. /\ ~stray /\ PlaceInv /\ MapTypes /\ physical \in [Addr -> {"absent", "zero", "real"}]
      /\ dangling = {} /\ pc # "undefined"
      /\ \A n \in nodes : physical[n] = "real"
      /\ pc \in NodeIn => at.node \in nodes
      /\ pc \in ClusterIn => <<at.node, at.ep, at.cluster>> \in clusters
  BY StrayStays DEF PInv, WalkInv, GInv, MapInv
<1>1. CASE AskStep
  BY <1>0, <1>1, AskDoes DEF WalkInv, mapVars, handlerVars, NodeIn, EpIn, ClusterIn, AttrIn
<1>2. CASE Return
  <2>1. pc \in WaitPcs /\ pc' = Resume[pc] /\ UNCHANGED <<mapVars, at, handlerVars>>
    BY <1>2, ReturnDoes
  <2> QED
    BY <1>0, <2>1 DEF WalkInv, Resume, WaitPcs, mapVars, handlerVars, NodeIn, EpIn, ClusterIn,
       AttrIn
<1>3. CASE HandlerStep
  <2>1. CASE UNCHANGED <<mapVars, dangling>>
    BY <1>0, <1>3, <2>1, HandlerOutside DEF WalkInv, mapVars, mainVars
  <2>2. ASSUME NEW x \in handling.items, StoreItem(x) PROVE WalkInv'
    <3>1. dangling' = dangling /\ UNCHANGED <<pc, at>>
      BY <1>0, <2>2, PromptStore DEF mainVars
    <3>2. CASE pc = "nodeList"
      <4>1. PICK n \in Addr : nodes' = nodes \cup {n} /\ physical' = [physical EXCEPT ![n] = "real"]
        BY <1>0, <2>2, <3>2, PromptStore
      <4>2. \A m \in nodes' : physical'[m] = "real"
        BY <1>0, <4>1 DEF MapTypes
      <4> QED
        BY <1>0, <3>1, <3>2, <4>2 DEF WalkInv, NodeIn, EpIn, ClusterIn, AttrIn
    <3>3. CASE pc \in {"epList", "clusterList", "attribute"}
      <4>1. nodes' = nodes /\ physical' = physical
        BY <1>0, <2>2, <3>3, PromptStore
      <4>2. pc \in ClusterIn => clusters' = clusters
        BY <1>0, <2>2, <3>3, PromptStore DEF ClusterIn, AttrIn
      <4> QED
        BY <1>0, <3>1, <3>3, <4>1, <4>2 DEF WalkInv
    <3> QED
      BY <1>0, <2>2, <3>2, <3>3, PromptStore
  <2> QED
    BY <1>3, <2>1, <2>2 DEF HandlerStep, BeginHandle, EndHandle, SignalConf, handlerVars
<1>4. CASE SendRequest \/ EndWait \/ UNCHANGED vars
  BY <1>0, <1>4 DEF WalkInv, SendRequest, EndWait, vars, mapVars, mainVars, handlerVars
<1>5. CASE StartDiscovery
  BY <1>0, <1>5 DEF WalkInv, StartDiscovery, NodeIn, EpIn, ClusterIn, AttrIn
<1>6. CASE StartAttributes \/ StoreNodes
  BY <1>0, <1>6 DEF WalkInv, StartAttributes, StoreNodes, mapVars, handlerVars, NodeIn, EpIn,
     ClusterIn, AttrIn
<1>7. CASE NextNode
  <2>1. UNCHANGED <<mapVars, dangling>>
    BY <1>7 DEF NextNode, handlerVars
  <2>2. CASE pc' = "idle"
    BY <1>0, <2>1, <2>2 DEF WalkInv, mapVars, NodeIn, EpIn, ClusterIn, AttrIn
  <2>3. CASE After(nodes, at.node) # {}
    <3> DEFINE k == First(After(nodes, at.node))
    <3>1. nodes \subseteq Nat
      BY <1>0, Keys DEF MapTypes
    <3>2. k \in nodes
      BY <2>3, <3>1, FirstKey DEF After
    <3>3. pc' = "askEpList" /\ at'.node = k
      BY <1>7, <2>3 DEF NextNode, Before
    <3> QED
      BY <1>0, <2>1, <3>2, <3>3 DEF WalkInv, mapVars, ClusterIn, AttrIn
  <2> QED
    BY <1>7, <2>2, <2>3 DEF NextNode
<1>8. CASE GotEpList
  <2>1. /\ pc = "gotEpList" /\ pc' = "nextEp"
        /\ UNCHANGED <<nodes, clusters, at, dangling>>
        /\ physical' = [physical EXCEPT ![at.node] = IF @ = "absent" THEN "zero" ELSE @]
    BY <1>8 DEF GotEpList, handlerVars
  <2>2. \A n \in nodes : physical'[n] = "real"
    BY <1>0, <2>1 DEF MapTypes
  <2> QED
    BY <1>0, <2>1, <2>2 DEF WalkInv, NodeIn, ClusterIn, AttrIn
<1>9. CASE GotClusterList
  <2>1. /\ pc = "gotClusterList" /\ pc' = "nextEp"
        /\ UNCHANGED <<clusters, physical, at, dangling>>
        /\ nodes' = nodes \cup {at.node}
    BY <1>9 DEF GotClusterList, handlerVars
  <2> QED
    BY <1>0, <2>1 DEF WalkInv, NodeIn, EpIn, ClusterIn, AttrIn
<1>10. CASE GotAttribute
  <2>1. /\ pc = "gotAttribute" /\ Here \in Path /\ at.node \in nodes
    BY <1>0, <1>10, InHand DEF GotAttribute, NodeIn, EpIn, ClusterIn, AttrIn
  <2>2. /\ dangling' = dangling /\ at'.node = at.node /\ at'.ep = at.ep /\ at'.cluster = at.cluster
        /\ pc' \in {"attrCluster", "attrAttr"}
    BY <1>0, <1>10 DEF GotAttribute, handlerVars, PlaceInv, AtTypes
  <2>3. nodes' = nodes /\ clusters \subseteq clusters'
    BY <1>10, <2>1, HereKeys DEF GotAttribute, mapVars
  <2>4. physical' \in {physical, [physical EXCEPT ![at.node] = IF @ = "absent" THEN "zero" ELSE @]}
    BY <1>10 DEF GotAttribute, mapVars
  <2>5. \A n \in nodes : physical'[n] = "real"
    BY <1>0, <2>4 DEF MapTypes
  <2> QED
    BY <1>0, <2>1, <2>2, <2>3, <2>5 DEF WalkInv, NodeIn, EpIn, ClusterIn, AttrIn
<1>11. CASE NextEp
  <2>1. EpsOf(at.node) \subseteq Nat
    BY Keys DEF EpsOf
  <2>2. /\ pc = "nextEp" /\ pc' \in {"nextNode", "askClusterList"}
        /\ \E k : at' = [at EXCEPT !.ep = k]
    BY <1>0, <1>11, <2>1, WalkDoes DEF NextEp
  <2>3. at'.node = at.node /\ UNCHANGED <<mapVars, dangling>>
    BY <1>0, <1>11, <2>2 DEF NextEp, Walk, handlerVars, PlaceInv, AtTypes
  <2> QED
    BY <1>0, <2>2, <2>3 DEF WalkInv, mapVars, NodeIn, EpIn, ClusterIn, AttrIn
<1>12. CASE AttrNode
  <2>1. nodes \subseteq Nat
    BY <1>0, Keys DEF MapTypes
  <2>2. Walk("attrNode", nodes, "node", "attrEp", "idle")
    BY <1>12 DEF AttrNode
  <2>3. \/ pc' = "idle"
        \/ pc' = "attrEp" /\ \E k \in nodes : at' = [at EXCEPT !["node"] = k]
    BY <1>0, <2>1, <2>2, WalkDoes, Zenon
  <2>4. UNCHANGED <<mapVars, dangling>>
    BY <2>2 DEF Walk, handlerVars
  <2>5. pc' = "attrEp" => at'.node \in nodes
    BY <1>0, <2>3 DEF PlaceInv, AtTypes
  <2> QED
    BY <1>0, <2>3, <2>4, <2>5 DEF WalkInv, mapVars, NodeIn, EpIn, ClusterIn, AttrIn
<1>13. CASE AttrEp
  <2>1. EpsOf(at.node) \subseteq Nat
    BY Keys DEF EpsOf
  <2>2. /\ pc = "attrEp" /\ pc' \in {"attrNode", "attrCluster"}
        /\ \E k : at' = [at EXCEPT !.ep = k]
    BY <1>0, <1>13, <2>1, WalkDoes DEF AttrEp
  <2>3. at'.node = at.node /\ UNCHANGED <<mapVars, dangling>>
    BY <1>0, <1>13, <2>2 DEF AttrEp, Walk, handlerVars, PlaceInv, AtTypes
  <2> QED
    BY <1>0, <2>2, <2>3 DEF WalkInv, mapVars, NodeIn, EpIn, ClusterIn, AttrIn
<1>14. CASE AttrCluster
  <2>1. ClustersOf(at.node, at.ep) \subseteq Nat
    BY Keys DEF ClustersOf
  <2>2. /\ pc = "attrCluster"
        /\ \/ pc' = "attrEp" /\ at' = [at EXCEPT !.cluster = 0]
           \/ /\ pc' = "attrAttr"
              /\ \E k \in ClustersOf(at.node, at.ep) : at' = [at EXCEPT !.cluster = k]
    BY <1>0, <1>14, <2>1, WalkDoes DEF AttrCluster
  <2>3. /\ at'.node = at.node /\ at'.ep = at.ep /\ UNCHANGED <<mapVars, dangling>>
        /\ pc' = "attrAttr" => at'.cluster \in ClustersOf(at.node, at.ep)
    BY <1>0, <1>14, <2>2 DEF AttrCluster, Walk, handlerVars, PlaceInv, AtTypes
  <2> QED
    BY <1>0, <2>2, <2>3 DEF WalkInv, mapVars, NodeIn, EpIn, ClusterIn, AttrIn, ClustersOf
<1>15. CASE AttrAttr
  <2>1. Attr \subseteq Nat
    BY Keys
  <2>2. /\ pc = "attrAttr" /\ pc' \in {"attrCluster", "askAttribute"}
        /\ \E k : at' = [at EXCEPT !.attr = k]
    BY <1>0, <1>15, <2>1, WalkDoes DEF AttrAttr
  <2>3. at'.node = at.node /\ at'.ep = at.ep /\ at'.cluster = at.cluster /\ UNCHANGED <<mapVars, dangling>>
    BY <1>0, <1>15, <2>2 DEF AttrAttr, Walk, handlerVars, PlaceInv, AtTypes
  <2> QED
    BY <1>0, <2>2, <2>3 DEF WalkInv, mapVars, NodeIn, EpIn, ClusterIn, AttrIn
<1> QED
  BY <1>1, <1>2, <1>3, <1>4, <1>5, <1>6, <1>7, <1>8, <1>9, <1>10, <1>11, <1>12, <1>13, <1>14,
     <1>15, NextSplits DEF WalkStep

(* The value that polling takes for the answer is the answer. *)
LEMMA FreshNext == ASSUME GInv, PInv, [Next]_vars PROVE FreshInv'
<1> SUFFICES ASSUME ~stray' PROVE FreshInv'
  BY DEF FreshInv
<1>0. /\ ~stray /\ LinkInv /\ PlaceInv /\ HandlingInv /\ AnswerInv
      /\ recorded.truthful => recorded.answer = recorded.request
      /\ pc = "attribute" /\ (event = TRUE \/ parsed # 0 \/ answered = TRUE) => Fresh
      /\ pc = "attribute" /\ handling.id # 0 => handling.items # {} \/ Fresh
      /\ pc = "gotAttribute" /\ answered = TRUE => Fresh
  BY StrayStays DEF PInv, FreshInv, GInv
<1>1. CASE AskStep
  <2>1. /\ phase = "idle" /\ event' = FALSE /\ answered' = FALSE /\ pc' \in WaitPcs
        /\ UNCHANGED <<parsed, handling, recorded>>
    BY <1>1, AskDoes DEF handlerVars, dbVars
  <2>2. parsed = 0 /\ handling.id = 0
    BY <1>0, <2>1 DEF AnswerInv, HandlingInv
  <2> QED
    BY <1>0, <2>1, <2>2 DEF FreshInv, WaitPcs
<1>2. CASE SendRequest
  BY <1>0, <1>2 DEF FreshInv, Fresh, Here, SendRequest, Send, mapVars, dbVars, mainVars, handlerVars
<1>3. CASE Return
  <2>1. /\ pc \in WaitPcs /\ pc' = Resume[pc]
        /\ UNCHANGED <<cur, answered, value, at, recorded>>
    BY <1>3, ReturnDoes DEF mapVars, dbVars
  <2>2. Fresh' = Fresh
    BY <2>1 DEF Fresh, Here
  <2>3. pc' # "attribute" /\ (pc' = "gotAttribute" => pc = "attribute")
    BY <2>1 DEF WaitPcs, Resume
  <2> QED
    BY <1>0, <2>1, <2>2, <2>3 DEF FreshInv
<1>4. CASE HandlerStep
  <2>0. /\ UNCHANGED <<cur, answered, recorded, pc, at>>
        /\ pc \in WaitPcs /\ cur # 0
    BY <1>0, <1>4, PromptHandler, HandlerOutside DEF dbVars, mainVars
  <2>1. pc # "gotAttribute"
    BY <2>0 DEF WaitPcs
  <2>2. CASE pc # "attribute"
    BY <1>0, <2>0, <2>1, <2>2 DEF FreshInv
  <2>3. ASSUME pc = "attribute", NEW r \in Requests, BeginHandle(r) PROVE FreshInv'
    <3>1. PICK S \in SUBSET Items(asked[r]) :
             handling' = [id |-> r, items |-> S] /\ (asked[r].kind = "ATTRIBUTE" => S # {})
      BY <2>3 DEF BeginHandle
    <3>2. r = cur
      BY <1>0, <2>3 DEF BeginHandle, AnswerInv
    <3>3. asked[r].kind = "ATTRIBUTE"
      BY <2>3, <3>2 DEF GInv, AskedInv, WaitPcs, KindAt
    <3>4. UNCHANGED <<event, parsed, value>>
      BY <2>3 DEF BeginHandle, requestVars, mapVars
    <3>5. Fresh' = Fresh
      BY <2>0, <3>4 DEF Fresh, Here
    <3> QED
      BY <1>0, <2>0, <2>1, <3>1, <3>3, <3>4, <3>5 DEF FreshInv
  <2>4. ASSUME pc = "attribute", NEW x \in handling.items, StoreItem(x) PROVE FreshInv'
    <3>1. value'[Here] \in {0, cur}
      BY <1>0, <2>4, PromptStore
    <3>2. Fresh'
      BY <2>0, <3>1 DEF Fresh, Here
    <3> QED
      BY <1>0, <2>0, <2>1, <3>2 DEF FreshInv
  <2>5. ASSUME pc = "attribute", EndHandle PROVE FreshInv'
    <3>1. Fresh
      BY <1>0, <2>5 DEF EndHandle
    <3>2. Fresh'
      BY <2>0, <2>5, <3>1 DEF Fresh, Here, EndHandle, mapVars
    <3> QED
      BY <1>0, <2>0, <2>1, <3>2 DEF FreshInv
  <2>6. ASSUME pc = "attribute", SignalConf PROVE FreshInv'
    <3>1. Fresh /\ handling' = handling
      BY <1>0, <2>6 DEF SignalConf, Signal, handlerVars
    <3>2. Fresh'
      BY <2>0, <2>6, <3>1 DEF Fresh, Here, SignalConf, mapVars
    <3> QED
      BY <1>0, <2>0, <2>1, <3>2 DEF FreshInv
  <2> QED
    BY <1>4, <2>2, <2>3, <2>4, <2>5, <2>6 DEF HandlerStep
<1>5. CASE UNCHANGED vars
  BY <1>0, <1>5 DEF FreshInv, Fresh, Here, vars, requestVars, mapVars, dbVars, mainVars, handlerVars
<1>8. CASE EndWait
  <2>1. /\ UNCHANGED <<cur, parsed, value, at, pc, handling, recorded>>
        /\ event' = TRUE \/ answered' = TRUE => event = TRUE \/ answered = TRUE
    BY <1>8, EndWaitDoes DEF mapVars, dbVars, mainVars, handlerVars
  <2>2. Fresh' = Fresh
    BY <2>1 DEF Fresh, Here
  <2>3. pc # "gotAttribute"
    BY <1>0, <1>8, EndWaitDoes DEF LinkInv, WaitPcs
  <2> QED
    BY <1>0, <2>1, <2>2, <2>3 DEF FreshInv
<1>6. CASE WalkStep /\ ~GotAttribute
  <2>1. recorded' = recorded /\ pc' # "gotAttribute"
    BY <1>6 DEF WalkStep, StartDiscovery, StartAttributes, StoreNodes, NextNode, GotEpList,
       GotClusterList, NextEp, AttrNode, AttrEp, AttrCluster, AttrAttr, Walk, dbVars
  <2>2. pc' # "attribute"
    BY <1>6, WalkOutside DEF WaitPcs
  <2> QED
    BY <1>0, <2>1, <2>2 DEF FreshInv
<1>7. CASE GotAttribute
  <2>1. pc = "gotAttribute" /\ pc' \in {"attrCluster", "attrAttr"}
    BY <1>7 DEF GotAttribute
  <2>2. \/ recorded' = recorded
        \/ /\ outcome = "SUCCESS" /\ value[Here] # 0
           /\ recorded' = [path |-> Here, answer |-> value[Here], request |-> cur,
                           truthful |-> Truthful]
    BY <1>7 DEF GotAttribute
  <2>3. recorded'.truthful => recorded'.answer = recorded'.request
    <3>1. CASE recorded' = recorded
      BY <1>0, <3>1
    <3>2. CASE outcome = "SUCCESS" /\ value[Here] # 0
               /\ recorded' = [path |-> Here, answer |-> value[Here], request |-> cur,
                               truthful |-> Truthful]
      <4>1. /\ recorded'.answer = value[Here] /\ recorded'.request = cur
            /\ recorded'.truthful = Truthful
        BY <3>2, Zenon
      <4>2. Truthful => answered = TRUE
        BY <3>2 DEF Truthful
      <4> QED
        BY <1>0, <2>1, <3>2, <4>1, <4>2 DEF Fresh
    <3> QED
      BY <2>2, <3>1, <3>2
  <2> QED
    BY <2>1, <2>3 DEF FreshInv
<1> QED
  BY <1>1, <1>2, <1>3, <1>4, <1>5, <1>6, <1>7, <1>8, NextSplits

(* The online field of a node tells what this discovery heard of it. *)
LEMMA OnlineNext == ASSUME GInv, PInv, [Next]_vars PROVE OnlineInv'
<1>0. OnlineInv /\ PlaceInv /\ LinkInv /\ RowsInv
  BY DEF PInv, GInv
<1>1. askedNodes' \subseteq Addr
  <2>1. CASE AskStep
    <3>1. askedNodes' \in {askedNodes, askedNodes \cup {at.node}}
          /\ (askedNodes' = askedNodes \/ pc = "askEpList")
      BY <2>1 DEF AskStep, AskPanId, AskNodeList, AskEpList, AskClusterList, AskAttribute, Ask
    <3>2. pc = "askEpList" => at.node \in Addr
      BY <1>0, InHand DEF NodeIn
    <3> QED
      BY <1>0, <3>1, <3>2 DEF OnlineInv
  <2>2. CASE WalkStep
    <3>1. askedNodes' \in {askedNodes, {}}
      BY <2>2 DEF WalkStep, StartDiscovery, StartAttributes, StoreNodes, NextNode, GotEpList,
         GotClusterList, NextEp, AttrNode, AttrEp, AttrCluster, AttrAttr, Walk, GotAttribute
    <3> QED
      BY <1>0, <3>1 DEF OnlineInv
  <2>3. CASE SendRequest \/ EndWait \/ Return \/ HandlerStep \/ UNCHANGED vars
    BY <1>0, <2>3, EndWaitDoes, ReturnDoes, HandlerOutside DEF OnlineInv, SendRequest, mainVars,
       vars
  <2> QED
    BY <2>1, <2>2, <2>3, NextSplits
<1> SUFFICES ASSUME ~stray' PROVE OnlineInv'
  BY <1>1 DEF OnlineInv
<1>2. /\ ~stray /\ AnswerInv
      /\ pc = "epList" /\ (event = TRUE \/ parsed # 0 \/ answered = TRUE)
         => at.node \in repliedNodes
      /\ pc = "gotEpList" /\ answered = TRUE => at.node \in repliedNodes
      /\ pc \in Early \ {"idle"} => askedNodes = {}
      /\ \A n \in askedNodes \ excused : \/ n = at.node /\ pc \in {"epList", "gotEpList"}
                                         \/ Online(n) => n \in repliedNodes
  BY <1>0, StrayStays DEF PInv, OnlineInv
<1>3. CASE AskStep
  <2>1. /\ phase = "idle" /\ event' = FALSE /\ answered' = FALSE /\ pc' \in WaitPcs
        /\ UNCHANGED <<parsed, repliedNodes, at, physical, rows, excused>>
    BY <1>3, AskDoes DEF handlerVars, mapVars, dbVars, faultVars
  <2>2. parsed = 0
    BY <1>2, <2>1 DEF AnswerInv
  <2>3. \A n : Online(n)' = Online(n)
    BY <2>1 DEF Online, HasRow
  <2>4. \/ pc \in {"askPanId", "askNodeList"} /\ pc' \in Early \ {"idle"} /\ askedNodes' = askedNodes
        \/ /\ pc = "askEpList" /\ pc' = "epList" /\ askedNodes' = askedNodes \cup {at.node}
        \/ /\ pc \in {"askClusterList", "askAttribute"} /\ pc' \in {"clusterList", "attribute"}
           /\ askedNodes' = askedNodes
    BY <1>3 DEF AskStep, AskPanId, AskNodeList, AskEpList, AskClusterList, AskAttribute, Ask, Early
  <2>5. pc' # "gotEpList" /\ (pc' = "epList" => event' # TRUE /\ parsed' = 0 /\ answered' # TRUE)
    BY <2>1, <2>2 DEF WaitPcs
  <2>6. pc' \in Early \ {"idle"} => askedNodes' = {}
    BY <1>2, <2>4 DEF Early
  <2>7. \A n \in askedNodes' \ excused' : \/ n = at'.node /\ pc' \in {"epList", "gotEpList"}
                                          \/ Online(n)' => n \in repliedNodes'
    BY <1>2, <2>1, <2>3, <2>4
  <2> QED
    BY <1>1, <2>5, <2>6, <2>7 DEF OnlineInv
<1>4. CASE Return
  <2>1. /\ pc \in WaitPcs /\ pc' = Resume[pc]
        /\ UNCHANGED <<askedNodes, repliedNodes, at, physical, rows, excused, answered>>
    BY <1>4, ReturnDoes DEF mapVars, dbVars, handlerVars
  <2>2. \A n : Online(n)' = Online(n)
    BY <2>1 DEF Online, HasRow
  <2>3. /\ pc' # "epList" /\ (pc' = "gotEpList" <=> pc = "epList")
        /\ pc # "gotEpList"
        /\ pc' \in Early \ {"idle"} => pc \in Early \ {"idle"}
    BY <2>1 DEF WaitPcs, Resume, Early
  <2>4. \A n \in askedNodes' \ excused' : \/ n = at'.node /\ pc' \in {"epList", "gotEpList"}
                                          \/ Online(n)' => n \in repliedNodes'
    BY <1>2, <2>1, <2>2, <2>3
  <2> QED
    BY <1>1, <1>2, <2>1, <2>3, <2>4 DEF OnlineInv
<1>5. CASE SendRequest
  <2>1. UNCHANGED <<pc, event, parsed, answered, askedNodes, repliedNodes, at, physical, rows,
                    excused>>
    BY <1>5 DEF SendRequest, Send, mapVars, dbVars, mainVars, handlerVars, historyVars, faultVars
  <2>2. \A n : Online(n)' = Online(n)
    BY <2>1 DEF Online, HasRow
  <2> QED
    BY <1>1, <1>2, <2>1, <2>2 DEF OnlineInv
<1>6. CASE UNCHANGED vars
  <2>1. UNCHANGED <<pc, event, parsed, answered, askedNodes, repliedNodes, at, physical, rows,
                    excused>>
    BY <1>6 DEF vars, requestVars, mapVars, dbVars, mainVars, handlerVars, historyVars, faultVars
  <2>2. \A n : Online(n)' = Online(n)
    BY <2>1 DEF Online, HasRow
  <2> QED
    BY <1>1, <1>2, <2>1, <2>2 DEF OnlineInv
<1>12. CASE EndWait
  <2>1. /\ UNCHANGED <<pc, parsed, askedNodes, repliedNodes, at, physical, rows, excused>>
        /\ event' = TRUE \/ answered' = TRUE => event = TRUE \/ answered = TRUE
    BY <1>12, EndWaitDoes
    DEF mapVars, dbVars, mainVars, handlerVars, historyVars, faultVars
  <2>2. \A n : Online(n)' = Online(n)
    BY <2>1 DEF Online, HasRow
  <2>3. pc # "gotEpList"
    BY <1>0, <1>12, EndWaitDoes DEF LinkInv, WaitPcs
  <2> QED
    BY <1>1, <1>2, <2>1, <2>2, <2>3 DEF OnlineInv
<1>7. CASE HandlerStep
  <2>0. /\ UNCHANGED <<cur, answered, rows, pc, at, askedNodes, excused>>
        /\ pc \in WaitPcs /\ cur # 0
    BY <1>2, <1>7, PromptHandler, HandlerOutside DEF dbVars, mainVars, faultVars
  <2>1. pc # "gotEpList" /\ (pc = "nodeList" => askedNodes = {})
    BY <1>2, <2>0 DEF WaitPcs, Early
  <2>2. repliedNodes \subseteq repliedNodes'
    BY <1>7 DEF HandlerStep, BeginHandle, StoreItem, EndHandle, SignalConf, handlerVars
  <2>3. physical' = physical \/ askedNodes = {}
    <3>1. ASSUME NEW x \in handling.items, StoreItem(x) PROVE physical' = physical \/ pc = "nodeList"
      BY <1>2, <3>1, PromptStore
    <3> QED
      BY <1>7, <2>1, <3>1 DEF HandlerStep, BeginHandle, EndHandle, SignalConf, mapVars
  <2>4. \A n \in askedNodes' \ excused' : \/ n = at'.node /\ pc' \in {"epList", "gotEpList"}
                                          \/ Online(n)' => n \in repliedNodes'
    BY <1>2, <2>0, <2>2, <2>3 DEF Online, HasRow
  <2>5. pc = "epList" /\ (event' = TRUE \/ parsed' # 0 \/ answered' = TRUE)
        => at.node \in repliedNodes'
    <3>1. CASE UNCHANGED <<event, parsed>>
      BY <1>2, <2>0, <2>2, <3>1
    <3>2. CASE EndHandle /\ pc = "epList"
      <4>1. handling.id \in open /\ open \subseteq {cur}
        BY <1>2, <3>2 DEF AnswerInv, EndHandle, GInv, HandlingInv
      <4>2. asked[cur].kind = "EP_LIST" /\ asked[cur].path[1] = at.node
        BY <2>0, <3>2 DEF GInv, AskedInv, KindAt, Here
      <4> QED
        BY <3>2, <4>1, <4>2 DEF EndHandle
    <3>3. CASE SignalConf
      BY <1>2, <2>0, <2>2, <3>3 DEF SignalConf, Signal
    <3> QED
      BY <1>7, <3>1, <3>2, <3>3 DEF HandlerStep, BeginHandle, StoreItem, requestVars
  <2> QED
    BY <1>1, <1>2, <2>0, <2>1, <2>4, <2>5 DEF OnlineInv
<1>8. CASE WalkStep /\ ~StartDiscovery /\ ~StoreNodes /\ ~GotEpList
  <2>1. pc' \notin WaitPcs /\ UNCHANGED <<event, parsed, answered>>
    BY <1>8, WalkOutside DEF requestVars
  <2>2. /\ UNCHANGED <<askedNodes, repliedNodes, rows, excused>>
        /\ pc' # "gotEpList" /\ pc' \notin Early \ {"idle"} /\ pc \notin {"epList", "gotEpList"}
    BY <1>8 DEF WalkStep, StartAttributes, NextNode, GotClusterList, NextEp, AttrNode, AttrEp,
       AttrCluster, AttrAttr, Walk, GotAttribute, dbVars, handlerVars, historyVars, faultVars, Early
  <2>3. physical' \in {physical, [physical EXCEPT ![at.node] = IF @ = "absent" THEN "zero" ELSE @]}
    BY <1>8 DEF WalkStep, StartAttributes, NextNode, GotClusterList, NextEp, AttrNode, AttrEp,
       AttrCluster, AttrAttr, Walk, GotAttribute, mapVars
  <2>4. \A n \in Addr : Online(n)' => Online(n)
    BY <2>2, <2>3 DEF Online, HasRow, GInv, MapInv
  <2> QED
    BY <1>0, <1>1, <1>2, <2>1, <2>2, <2>4 DEF OnlineInv, WaitPcs
<1>9. CASE StartDiscovery
  <2>1. pc' = "askPanId" /\ askedNodes' = {}
    BY <1>9 DEF StartDiscovery
  <2> QED
    BY <2>1 DEF OnlineInv
<1>10. CASE StoreNodes
  <2>1. askedNodes' = {} /\ pc' = "nextNode"
    BY <1>2, <1>10 DEF StoreNodes, Early
  <2> QED
    BY <2>1 DEF OnlineInv, Early
<1>11. CASE GotEpList
  <2>1. /\ pc = "gotEpList" /\ pc' = "nextEp" /\ UNCHANGED <<askedNodes, repliedNodes, answered>>
        /\ at.node \in Addr
    BY <1>0, <1>11, InHand DEF GotEpList, handlerVars, requestVars, NodeIn
  <2> DEFINE status == IF outcome = "SUCCESS" THEN "online" ELSE "offline"
  <2>2. /\ physical' = [physical EXCEPT ![at.node] = IF @ = "absent" THEN "zero" ELSE @]
        /\ rows \in [Addr -> {"none", "offline", "online"}]
        /\ physical \in [Addr -> {"absent", "zero", "real"}]
    BY <1>0, <1>11 DEF GotEpList, RowsInv, GInv, MapInv
  <2>3. \/ /\ rows' = IF HasRow(at.node) THEN [rows EXCEPT ![at.node] = status] ELSE rows
           /\ excused' = IF outcome = "SUCCESS" /\ ~answered THEN excused \cup {at.node}
                         ELSE excused
        \/ rows' = rows /\ excused' = excused \cup {at.node}
    BY <1>11 DEF GotEpList
  <2>4. excused \subseteq excused'
    BY <2>3
  <2>5. \A n \in Addr : n # at.node => (Online(n)' => Online(n))
    BY <2>2, <2>3 DEF Online, HasRow
  <2>6. physical'[at.node] = "real" /\ rows'[at.node] # "none" /\ rows'[at.node] = "online"
        => at.node \in excused' \/ answered = TRUE
    BY <2>1, <2>2, <2>3 DEF HasRow
  <2>7. \A n \in askedNodes' \ excused' : Online(n)' => n \in repliedNodes'
    <3> SUFFICES ASSUME NEW n \in askedNodes, n \notin excused', Online(n)' PROVE n \in repliedNodes
      BY <2>1
    <3>1. n \in Addr /\ n \notin excused
      BY <1>0, <2>4 DEF OnlineInv
    <3>2. CASE n = at.node
      <4>1. physical'[n] = "real" /\ rows'[n] # "none" /\ rows'[n] = "online"
        BY DEF Online, HasRow
      <4> QED
        BY <1>2, <2>1, <2>6, <3>2, <4>1
    <3>3. CASE n # at.node
      BY <1>2, <2>5, <3>1, <3>3
    <3> QED
      BY <3>2, <3>3
  <2> QED
    BY <1>1, <2>1, <2>7 DEF OnlineInv, Early
<1> QED
  BY <1>3, <1>4, <1>5, <1>6, <1>7, <1>8, <1>9, <1>10, <1>11, <1>12, NextSplits

(* In a walk nodes are only looked up, until then.                          *)
LEMMA NodesKept ==
    ASSUME GInv, PInv, ~stray, [Next]_vars, ~StartDiscovery, pc # "nodeList"
    PROVE nodes' = nodes
<1>0. WalkInv /\ PlaceInv
  BY DEF PInv, GInv
<1>1. CASE AskStep \/ EndWait \/ Return \/ SendRequest \/ UNCHANGED vars
  BY <1>1, AskDoes, EndWaitDoes, ReturnDoes DEF SendRequest, vars, mapVars
<1>2. CASE HandlerStep
  <2>1. ASSUME NEW x \in handling.items, StoreItem(x) PROVE nodes' = nodes
    BY <2>1, PromptStore
  <2> QED
    BY <1>2, <2>1 DEF HandlerStep, BeginHandle, EndHandle, SignalConf, mapVars
<1>3. CASE WalkStep /\ ~GotClusterList /\ ~GotAttribute
  BY <1>3 DEF WalkStep, StartAttributes, StoreNodes, NextNode, GotEpList, NextEp, AttrNode, AttrEp,
     AttrCluster, AttrAttr, Walk, mapVars
<1>4. CASE GotClusterList
  BY <1>0, <1>4 DEF WalkInv, GotClusterList, NodeIn, EpIn
<1>5. CASE GotAttribute
  BY <1>0, <1>5 DEF WalkInv, GotAttribute, NodeIn, EpIn, ClusterIn, AttrIn, mapVars
<1> QED
  BY <1>1, <1>2, <1>3, <1>4, <1>5, NextSplits

(* A discovery asks the nodes in their order and leaves none out.           *)
LEMMA ListedNext == ASSUME GInv, PInv, [Next]_vars PROVE ListedInv'
<1> SUFFICES ASSUME ~stray' PROVE ListedInv'
  BY DEF ListedInv
<1>0. /\ ~stray /\ PlaceInv /\ MapTypes
      /\ pc \in PollPcs \cup {"idle"} => nodes \subseteq askedNodes
      /\ pc \in FindPcs => \A n \in nodes : n <= at.node => n \in askedNodes
      /\ pc = "askEpList" => \A n \in nodes : n < at.node => n \in askedNodes
  BY StrayStays DEF PInv, ListedInv, GInv, MapInv
<1>00. nodes \subseteq Nat /\ 0 \notin nodes
  BY <1>0, Keys DEF MapTypes
<1> USE DEF PollPcs, FindPcs, AttrIn
<1>1. CASE StartDiscovery
  BY <1>1 DEF StartDiscovery, ListedInv
<1>2. CASE pc = "nodeList" /\ ~StartDiscovery
  <2>1. CASE Return
    <3>1. pc' = "storeNodes"
      BY <1>2, <2>1, ReturnDoes DEF Resume
    <3> QED
      BY <3>1 DEF ListedInv
  <2>2. CASE SendRequest \/ EndWait \/ HandlerStep \/ UNCHANGED vars
    <3>1. pc' = "nodeList"
      BY <1>2, <2>2, HandlerOutside DEF SendRequest, EndWait, vars, mainVars
    <3> QED
      BY <3>1 DEF ListedInv
  <2>3. ~WalkStep /\ ~AskStep
    BY <1>2, WalkOutside, AskDoes DEF WaitPcs, AskPcs
  <2> QED
    BY <2>1, <2>2, <2>3, NextSplits
<1> USE DEF mainVars
<1>3. CASE AskStep
  <2>1. nodes' = nodes /\ at' = at
    BY <1>3, AskDoes DEF mapVars
  <2>2. \/ pc \in {"askPanId", "askNodeList"} /\ pc' \in {"panId", "nodeList"}
        \/ pc = "askEpList" /\ pc' = "epList" /\ askedNodes' = askedNodes \cup {at.node}
        \/ pc = "askClusterList" /\ pc' = "clusterList" /\ askedNodes' = askedNodes
        \/ pc = "askAttribute" /\ pc' = "attribute" /\ askedNodes' = askedNodes
    BY <1>3 DEF AskStep, AskPanId, AskNodeList, AskEpList, AskClusterList, AskAttribute, Ask
  <2>3. at.node \in Nat
    BY <1>0, AtNumbers DEF PlaceInv
  <2> QED
    BY <1>0, <1>00, <2>1, <2>2, <2>3 DEF ListedInv
<1>4. ASSUME nodes' = nodes, askedNodes' = askedNodes, at'.node = at.node,
             \/ pc' \notin PollPcs \cup {"idle", "askEpList"} \cup FindPcs
             \/ pc' \in FindPcs /\ pc \in FindPcs
             \/ pc' \in PollPcs \cup {"idle"} /\ pc \in PollPcs \cup {"idle"}
             \/ pc' = pc
      PROVE ListedInv'
  <2>1. CASE pc' \notin PollPcs \cup {"idle", "askEpList"} \cup FindPcs
    BY <2>1 DEF ListedInv
  <2>2. CASE pc' \in FindPcs /\ pc \in FindPcs
    BY <1>0, <1>4, <2>2 DEF ListedInv
  <2>3. CASE pc' \in PollPcs \cup {"idle"} /\ pc \in PollPcs \cup {"idle"}
    BY <1>0, <1>4, <2>3 DEF ListedInv
  <2>4. CASE pc' = pc
    BY <1>0, <1>4, <2>4 DEF ListedInv
  <2> QED
    BY <1>4, <2>1, <2>2, <2>3, <2>4
<1>5. CASE Return /\ pc # "nodeList"
  <2>1. pc \in WaitPcs /\ pc' = Resume[pc] /\ UNCHANGED <<nodes, askedNodes, at>>
    BY <1>5, ReturnDoes DEF mapVars
  <2>2. \/ pc = "panId" /\ pc' = "askNodeList"
        \/ pc \in FindPcs /\ pc' \in FindPcs
        \/ pc \in PollPcs /\ pc' \in PollPcs
    BY <1>5, <2>1 DEF WaitPcs, Resume
  <2> QED
    BY <1>4, <2>1, <2>2
<1>6. CASE (SendRequest \/ EndWait \/ HandlerStep \/ UNCHANGED vars) /\ pc # "nodeList"
  <2>1. UNCHANGED <<askedNodes, at, pc>>
    BY <1>6, HandlerOutside DEF SendRequest, EndWait, vars
  <2>2. ~StartDiscovery
    BY <2>1 DEF StartDiscovery
  <2>3. nodes' = nodes
    BY <1>0, <1>6, <2>2, NodesKept
  <2> QED
    BY <1>4, <2>1, <2>3
<1>7. CASE StoreNodes
  <2>1. pc' = "nextNode" /\ at'.node = 0 /\ nodes' = nodes
    BY <1>7 DEF StoreNodes, Before, mapVars
  <2> QED
    BY <1>00, <2>1 DEF ListedInv
<1>8. CASE NextNode
  <2>1. nodes' = nodes /\ askedNodes' = askedNodes /\ pc = "nextNode" /\ at.node \in Nat
    BY <1>0, <1>8, AtNumbers DEF NextNode, mapVars, PlaceInv
  <2>2. CASE After(nodes, at.node) = {}
    <3>1. pc' = "idle" /\ \A n \in nodes : n <= at.node
      BY <1>00, <1>8, <2>1, <2>2 DEF NextNode, After
    <3> QED
      BY <1>0, <2>1, <3>1 DEF ListedInv
  <2>3. CASE After(nodes, at.node) # {}
    <3> DEFINE k == First(After(nodes, at.node))
    <3>1. k \in nodes /\ \A n \in After(nodes, at.node) : k <= n
      BY <1>00, <2>3, FirstKey DEF After
    <3>2. ASSUME NEW n \in nodes, n < k PROVE n <= at.node
      <4>1. n \in Nat /\ k \in Nat
        BY <1>00, <3>1
      <4>2. ~(k <= n)
        BY <3>2, <4>1
      <4>3. n \notin After(nodes, at.node)
        BY <3>1, <4>2, Zenon
      <4> QED
        BY <2>1, <4>1, <4>3 DEF After
    <3>3. pc' = "askEpList" /\ at'.node = k
      BY <1>8, <2>3 DEF NextNode, Before
    <3> QED
      BY <1>0, <2>1, <3>2, <3>3 DEF ListedInv
  <2> QED
    BY <2>2, <2>3
<1>9. CASE GotEpList \/ GotClusterList \/ NextEp
  <2>1. pc \in {"gotEpList", "gotClusterList", "nextEp"}
    BY <1>9 DEF GotEpList, GotClusterList, NextEp, Walk
  <2>2. nodes' = nodes
    BY <1>0, <1>9, <2>1, NodesKept DEF StartDiscovery, WalkStep, Next, JobStep
  <2>3. askedNodes' = askedNodes
    BY <1>9 DEF GotEpList, GotClusterList, NextEp, Walk
  <2>4. /\ pc' \in {"nextEp", "nextNode", "askClusterList", "undefined"}
        /\ at' = at \/ \E k : at' = [at EXCEPT !.ep = k]
    <3>1. EpsOf(at.node) \subseteq Nat
      BY Keys DEF EpsOf
    <3> QED
      BY <1>9, <3>1, WalkDoes DEF GotEpList, GotClusterList, NextEp
  <2>5. at'.node = at.node
    BY <1>0, <2>4 DEF PlaceInv, AtTypes
  <2> QED
    BY <1>4, <2>1, <2>2, <2>3, <2>4, <2>5
<1>10. CASE StartAttributes \/ AttrNode \/ AttrEp \/ AttrCluster \/ AttrAttr \/ GotAttribute
  <2>1. pc \in PollPcs \cup {"idle"}
    BY <1>10 DEF StartAttributes, AttrNode, AttrEp, AttrCluster, AttrAttr, Walk, GotAttribute
  <2>2. nodes' = nodes
    <3>1. pc # "nodeList" /\ ~StartDiscovery
      BY <1>10, <2>1 DEF StartDiscovery, StartAttributes, AttrNode, AttrEp, AttrCluster, AttrAttr,
         Walk, GotAttribute
    <3> QED
      BY <1>0, <3>1, NodesKept
  <2>3. askedNodes' = askedNodes
    BY <1>10 DEF StartAttributes, AttrNode, AttrEp, AttrCluster, AttrAttr, Walk, GotAttribute
  <2>4. pc' \in PollPcs \cup {"idle", "undefined"}
    BY <1>10 DEF StartAttributes, AttrNode, AttrEp, AttrCluster, AttrAttr, Walk, GotAttribute
  <2>5. nodes' \subseteq askedNodes'
    BY <1>0, <2>1, <2>2, <2>3
  <2> QED
    BY <2>4, <2>5 DEF ListedInv
<1> QED
  BY <1>1, <1>2, <1>3, <1>5, <1>6, <1>7, <1>8, <1>9, <1>10, NextSplits, AskDoes DEF WalkStep, AskPcs

(* Every attribute of a cluster that is found gets its row.                 *)
LEMMA StoredNext == ASSUME GInv, PInv, [Next]_vars PROVE StoredInv'
<1> SUFFICES ASSUME ~stray', ~refused', NEW p \in Path, <<p[1], p[2], p[3]>> \in clusters'
             PROVE Stored(p)'
  BY DEF StoredInv
<1>0. /\ ~stray /\ PlaceInv /\ MapTypes /\ WalkInv
      /\ ~refused => \A q \in Path : <<q[1], q[2], q[3]>> \in clusters => Stored(q)
  BY StrayStays DEF PInv, StoredInv, GInv, MapInv
<1> USE DEF mainVars, dbVars, mapVars
<1>1. ASSUME refused' = refused, clusters' \subseteq clusters, attrRows' = attrRows, at' = at,
             pc \in {"clusterList", "gotClusterList"} => pc' \in {"clusterList", "gotClusterList"}
      PROVE Stored(p)'
  <2>1. Stored(p)
    BY <1>0, <1>1
  <2> QED
    BY <1>1, <2>1 DEF Stored
<1>2. ASSUME refused' = refused, clusters' \subseteq clusters, attrRows' = attrRows,
             pc \notin {"clusterList", "gotClusterList"}
      PROVE Stored(p)'
  <2>1. Stored(p)
    BY <1>0, <1>2
  <2> QED
    BY <1>2, <2>1 DEF Stored
<1>3. CASE AskStep
  BY <1>2, <1>3, AskDoes DEF AskPcs
<1>4. CASE Return
  <2>1. /\ pc \in WaitPcs /\ pc' = Resume[pc]
        /\ UNCHANGED <<refused, clusters, attrRows, at>>
    BY <1>4, ReturnDoes
  <2>2. pc \in {"clusterList", "gotClusterList"} => pc' \in {"clusterList", "gotClusterList"}
    BY <2>1 DEF WaitPcs, Resume
  <2> QED
    BY <1>1, <2>1, <2>2
<1>5. CASE SendRequest \/ EndWait \/ UNCHANGED vars
  BY <1>1, <1>5 DEF SendRequest, EndWait, vars
<1>6. CASE HandlerStep
  <2>1. UNCHANGED <<refused, attrRows, at, pc>>
    BY <1>6, HandlerOutside
  <2>2. CASE clusters' \subseteq clusters
    BY <1>1, <2>1, <2>2
  <2>3. ASSUME NEW x \in handling.items, StoreItem(x), ~(clusters' \subseteq clusters)
        PROVE Stored(p)'
    <3>1. /\ pc = "clusterList"
          /\ \E c \in Cluster : clusters' = clusters \cup {<<at.node, at.ep, c>>}
      BY <1>0, <2>3, PromptStore
    <3>2. PICK c \in Cluster : clusters' = clusters \cup {<<at.node, at.ep, c>>}
      BY <3>1
    <3>3. CASE <<p[1], p[2], p[3]>> \in clusters
      <4>1. Stored(p)
        BY <1>0, <2>1, <3>3
      <4> QED
        BY <2>1, <4>1 DEF Stored
    <3>4. CASE <<p[1], p[2], p[3]>> = <<at.node, at.ep, c>>
      BY <2>1, <3>1, <3>4 DEF Stored
    <3> QED
      BY <3>2, <3>3, <3>4
  <2>4. (\E x \in handling.items : StoreItem(x)) \/ clusters' = clusters
    BY <1>6 DEF HandlerStep, BeginHandle, EndHandle, SignalConf
  <2> QED
    BY <2>2, <2>3, <2>4
<1>7. CASE StartDiscovery
  BY <1>7 DEF StartDiscovery
<1>8. CASE StoreNodes
  <2>1. /\ attrRows' = attrRows /\ clusters' = clusters /\ pc = "storeNodes"
    BY <1>8 DEF StoreNodes
  <2>2. ~refused
    BY <1>8 DEF StoreNodes
  <2>3. Stored(p)
    BY <1>0, <2>1, <2>2
  <2> QED
    BY <2>1, <2>3 DEF Stored
<1>9. CASE StartAttributes \/ NextNode \/ GotEpList \/ NextEp \/ AttrNode \/ AttrEp
           \/ AttrCluster \/ AttrAttr
  BY <1>2, <1>9 DEF StartAttributes, NextNode, GotEpList, NextEp, AttrNode, AttrEp, AttrCluster,
     AttrAttr, Walk
<1>10. CASE GotClusterList
  <2> DEFINE new == {q \in Path : SubSeq(q, 1, 2) = <<at.node, at.ep>> /\ SubSeq(q, 1, 3) \in clusters}
                    \ attrRows
  <2>1. pc = "gotClusterList" /\ clusters' = clusters
    BY <1>10 DEF GotClusterList
  <2>2. PICK lost \in {IF HasRow(at.node) THEN {} ELSE new, new} :
           /\ attrRows' = attrRows \cup (new \ lost)
           /\ refused' = (refused \/ lost # {})
    BY <1>10, Zenon DEF GotClusterList
  <2>3. ~refused /\ lost = {}
    <3>1. ~refused' /\ (refused' = (refused \/ lost # {}))
      BY <2>2
    <3> QED
      BY <3>1
  <2>4. attrRows' = attrRows \cup new
    BY <2>2, <2>3
  <2>5. Stored(p)
    BY <1>0, <2>1, <2>3
  <2>6. CASE p[1] = at.node /\ p[2] = at.ep
    <3>1. SubSeq(p, 1, 2) = <<at.node, at.ep>> /\ SubSeq(p, 1, 3) \in clusters
      BY <2>1, <2>6, PathPrefixes
    <3>2. p \in attrRows \cup new
      BY <3>1
    <3> QED
      BY <2>4, <3>2 DEF Stored
  <2> QED
    BY <2>4, <2>5, <2>6 DEF Stored
<1>11. CASE GotAttribute
  <2>1. pc = "gotAttribute" /\ UNCHANGED <<refused, attrRows>>
    BY <1>11 DEF GotAttribute
  <2>2. Here \in Path /\ <<at.node, at.ep, at.cluster>> \in clusters
    BY <1>0, <2>1, InHand DEF WalkInv, AttrIn, ClusterIn
  <2>3. clusters' \subseteq clusters
    BY <1>11, <2>2, HereKeys DEF GotAttribute
  <2> QED
    BY <1>2, <2>1, <2>3
<1> QED
  BY <1>3, <1>4, <1>5, <1>6, <1>7, <1>8, <1>9, <1>10, <1>11, NextSplits DEF WalkStep

(* Nothing is asked, nothing is known and no loop is on its way.            *)
LEMMA PInvInit == Init => PInv
<1> SUFFICES ASSUME Init PROVE PInv
  OBVIOUS
<1> USE DEF Init, LinkInit
<1>1. AnswerInv
  BY DEF AnswerInv, NotHandling
<1>2. WalkInv
  BY DEF WalkInv, NodeIn, EpIn, ClusterIn, AttrIn
<1>3. FreshInv
  BY DEF FreshInv, NoRecord
<1>4. OnlineInv
  BY DEF OnlineInv
<1>5. ListedInv
  BY DEF ListedInv, PollPcs, FindPcs, AttrIn
<1>6. StoredInv
  BY DEF StoredInv
<1> QED
  BY <1>1, <1>2, <1>3, <1>4, <1>5, <1>6 DEF PInv

(* Both invariants hold together. *)
LEMMA PromptInvariant == Spec => [](GInv /\ PInv)
<1>1. GInv /\ PInv /\ [Next]_vars => PInv'
  BY AnswerNext, WalkNext, FreshNext, OnlineNext, ListedNext, StoredNext DEF PInv
<1> QED
  BY <1>1, PInvInit, DiscoveryInvariant, PTL DEF Spec

--------------------------------------------------------------------------------
(* What this means for the properties of Discovery. *)

(* ZiBManager.cpp, the loops of DiscoveryStart (395-487) and               *)
(* AttributeHandleStart (560-688), which hold their iterators across a     *)
(* request: answers handled in their own wait invalidate none.             *)
THEOREM IteratorsValidWhenPromptHolds == Spec => []IteratorsValidWhenPrompt
<1>1. PInv => IteratorsValidWhenPrompt
  BY DEF PInv, WalkInv, IteratorsValidWhenPrompt
<1> QED
  BY <1>1, PromptInvariant, PTL

(* ZiBManager.cpp, NodeListConf and EpListConf: a node gets into the       *)
(* logical map only after its MAC address got into the physical one.       *)
THEOREM LogicalIsPhysicalHolds == Spec => []LogicalIsPhysical
<1>1. PInv => LogicalIsPhysical
  BY DEF PInv, WalkInv, LogicalIsPhysical
<1> QED
  BY <1>1, PromptInvariant, PTL

(* ZiBManager.cpp, AttributeHandleStart: what it records after a wait is   *)
(* what the answer to that very request stored in the map, if the request  *)
(* returned what became of the wait.                                       *)
THEOREM HistoryIsFreshHolds == Spec => []HistoryIsFresh
<1>1. PInv => HistoryIsFresh
  BY DEF PInv, FreshInv, HistoryIsFresh
<1> QED
  BY <1>1, PromptInvariant, PTL

(* ZiBManager.cpp, DiscoveryStart's update of t_nodes after EpListReq: a   *)
(* node it asked is online only if the node's own answer was handled, but  *)
(* for the requests that returned success without a CONF and the updates   *)
(* that were lost.                                                         *)
THEOREM OnlineMeansAnsweredHolds == Spec => []OnlineMeansAnswered
<1>1. PInv => OnlineMeansAnswered
  BY DEF PInv, OnlineInv, Online, OnlineMeansAnswered
<1> QED
  BY <1>1, PromptInvariant, PTL

(* ZiBManager.cpp, DiscoveryStart: with no answer late and no insertion    *)
(* refused, it asks every node listed and gives every attribute its row.   *)
THEOREM DiscoveryCompleteHolds == Spec => []DiscoveryComplete
<1>1. ASSUME PInv PROVE DiscoveryComplete
  <2> SUFFICES ASSUME pc = "idle", ~stray, ~refused PROVE DiscoveryComplete
    BY DEF DiscoveryComplete
  <2>1. nodes \subseteq askedNodes
    BY <1>1 DEF PInv, ListedInv
  <2>2. ASSUME NEW p \in Path, SubSeq(p, 1, 3) \in clusters PROVE p \in attrRows
    <3>1. <<p[1], p[2], p[3]>> \in clusters
      BY <2>2, PathPrefixes
    <3> QED
      BY <1>1, <3>1 DEF PInv, StoredInv, Stored
  <2> QED
    BY <2>1, <2>2 DEF DiscoveryComplete
<1> QED
  BY <1>1, PromptInvariant, PTL

(* The truth values. *)
Flags == locked \in BOOLEAN /\ refused \in BOOLEAN /\ stray \in BOOLEAN

(* A flag is only ever assigned a truth value. *)
LEMMA FlagsNext == Flags /\ [Next]_vars => Flags'
<1> SUFFICES ASSUME Flags, [Next]_vars PROVE Flags'
  OBVIOUS
<1> USE DEF Flags
<1>0. \A a, b : (a \/ b) \in BOOLEAN
  BY Zenon
<1>1. CASE UNCHANGED <<locked, refused, stray>>
  BY <1>1, Zenon
<1>2. CASE AskStep
  BY <1>1, <1>2, AskDoes DEF dbVars
<1>3. CASE SendRequest \/ EndWait \/ HandlerStep \/ UNCHANGED vars
  BY <1>1, <1>3, HandlerOutside DEF SendRequest, EndWait, dbVars, mainVars, historyVars, vars
<1>4. CASE Return
  <2>1. UNCHANGED <<locked, refused>> /\ stray' = (stray \/ cur \in open \/ parsed # 0)
    BY <1>4 DEF Return, dbVars
  <2> QED
    BY <2>1, Zenon
<1>5. CASE WalkStep
  <2>1. stray' = stray
    BY <1>5, WalkOutside
  <2>2. CASE StartDiscovery \/ StartAttributes \/ NextNode \/ GotEpList \/ GotAttribute
    <3>1. refused' = refused /\ (locked' = locked \/ locked' = TRUE \/ locked' = FALSE)
      BY <2>2 DEF StartDiscovery, StartAttributes, NextNode, GotEpList, GotAttribute, dbVars
    <3> QED
      BY <2>1, <3>1, Zenon
  <2>3. CASE StoreNodes \/ GotClusterList
    <3>1. locked' = TRUE /\ \E lost : refused' = (refused \/ lost # {})
      BY <2>3, Zenon DEF StoreNodes, GotClusterList
    <3> QED
      BY <2>1, <3>1, Zenon
  <2>4. CASE NextEp \/ AttrNode \/ AttrEp \/ AttrCluster \/ AttrAttr
    <3>1. refused' = refused
      BY <2>4 DEF NextEp, AttrNode, AttrEp, AttrCluster, AttrAttr, Walk, dbVars
    <3>2. locked' = (pc' \notin {"idle", "askClusterList", "askAttribute"})
      BY <2>4, Zenon DEF NextEp, AttrNode, AttrEp, AttrCluster, AttrAttr, Walk
    <3> QED
      BY <2>1, <3>1, <3>2, Zenon
  <2> QED
    BY <1>5, <2>2, <2>3, <2>4 DEF WalkStep
<1> QED
  BY <1>2, <1>3, <1>4, <1>5, NextSplits

(* ZiBManager.cpp: the maps, the loops' keys, the rows and the answers hold *)
(* what they are declared for, and the nested map has no entry without the *)
(* ones above it.                                                          *)
THEOREM TypeOKHolds == Spec => []TypeOK
<1>1. Init => Flags
  BY DEF Init, Flags
<1>2. ASSUME GInv, Flags PROVE TypeOK
  <2>1. PlaceInv /\ LinkInv /\ HandlingInv /\ MapInv /\ RowsInv
    BY <1>2 DEF GInv
  <2>2. locked \in BOOLEAN /\ refused \in BOOLEAN /\ stray \in BOOLEAN
    BY <1>2, Zenon DEF Flags
  <2>3. /\ at.node \in Addr \cup {0} /\ at.ep \in Ep \cup {0}
        /\ at.cluster \in Cluster \cup {0} /\ at.attr \in Attr \cup {0}
    BY <2>1 DEF PlaceInv, AtTypes
  <2>4. handling.id \in open \cup {0}
    BY <2>1 DEF HandlingInv
  <2>5. /\ parsed \in 0 .. MaxReq /\ open \subseteq Requests /\ once \subseteq open
        /\ excused \subseteq Addr /\ faults \in 0 .. MaxFaults
    BY <1>2, <2>1, MaxReqAssumption DEF LinkInv, Requests, GInv, FaultInv
  <2>6. ASSUME NEW y \in clusters PROVE SubSeq(y, 1, 2) \in eps
    <3>1. y \in Addr \X Ep \X Cluster /\ <<y[1], y[2]>> \in eps
      BY <2>1 DEF MapInv, MapTypes
    <3> QED
      BY <3>1, PathPrefixes
  <2>7. ASSUME NEW p \in Path, value[p] # 0 PROVE SubSeq(p, 1, 3) \in clusters
    BY <2>1, <2>7, PathPrefixes DEF MapInv
  <2>8. /\ MapTypes /\ physical \in [Addr -> {"absent", "zero", "real"}] /\ RowsInv
        /\ \A y \in eps : y[1] \in nodes
    BY <2>1 DEF MapInv
  <2> QED
    BY <2>2, <2>3, <2>4, <2>5, <2>6, <2>7, <2>8, Zenon DEF TypeOK, MapTypes, RowsInv
<1> QED
  BY <1>1, <1>2, FlagsNext, DiscoveryInvariant, PTL DEF Spec
--------------------------------------------------------------------------------
(* The composition. *)

(* ZiBManager.cpp, 403-613 and 690-816: between requests the jobs leave the *)
(* link alone, and a handler runs only for an open answer, one at a time;   *)
(* so every behaviour of the jobs and the handlers is one that GatewayLink, *)
(* which implements RequestLink, can give them.                             *)
THEOREM DiscoveryFollowsLink == Spec => LinkSpec
<1>1. Init => LinkInit
  BY DEF Init
<1>2. ASSUME GInv, [Next]_vars PROVE [LinkNext]_requestVars
  <2>1. CASE WalkStep
    BY <2>1, WalkOutside
  <2>2. CASE AskStep
    BY <2>2, Zenon
    DEF AskStep, AskPanId, AskNodeList, AskEpList, AskClusterList, AskAttribute, Ask, LinkNext
  <2>3. CASE SendRequest \/ EndWait \/ Return
    BY <2>3, Zenon DEF SendRequest, EndWait, Return, LinkNext
  <2>4. CASE HandlerStep
    <3>1. CASE (\E r \in Requests : BeginHandle(r)) \/ (\E x \in handling.items : StoreItem(x))
      BY <3>1, Zenon DEF BeginHandle, StoreItem
    <3>2. CASE EndHandle
      <4>1. handling.id \in 1 .. cur /\ cur \in 0 .. MaxReq
        BY <1>2, <3>2 DEF EndHandle, Handle, GInv, LinkInv
      <4>2. handling.id \in Requests
        BY <4>1, MaxReqAssumption DEF Requests
      <4> QED
        BY <3>2, <4>2, Zenon DEF EndHandle, LinkNext
    <3>3. CASE SignalConf
      BY <3>3, Zenon DEF SignalConf, LinkNext
    <3> QED
      BY <2>4, <3>1, <3>2, <3>3, Zenon DEF HandlerStep
  <2>5. CASE UNCHANGED vars
    BY <2>5, Zenon DEF vars
  <2> QED
    BY <1>2, <2>1, <2>2, <2>3, <2>4, <2>5, NextSplits, Zenon
<1> QED
  BY <1>1, <1>2, DiscoveryInvariant, PTL DEF Spec, LinkSpec
================================================================================
