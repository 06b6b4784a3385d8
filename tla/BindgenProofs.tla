---------------------------- MODULE BindgenProofs ----------------------------
(***************************************************************************)
(* Proofs about Bindgen and Wrapper: their inductive invariant, and from it  *)
(* that the tables are whole, that what a wrapper refers to is there, that   *)
(* printing ends unless a record is inside itself, that blocks are freed,   *)
(* and that copies stay inside their records.                              *)
(*                                                                         *)
(* What is recursive over types, records or sets of records is reasoned     *)
(* about by their depth: the least of the natural numbers at which a claim   *)
(* would fail.                                                             *)
(***************************************************************************)
EXTENDS Wrapper, FiniteSetTheorems, SequenceTheorems, WellFoundedInduction, TLAPS

-----------------------------------------------------------------------------
(* Induction and recursion over what has a depth *)

LEMMA LeastNatural ==
  ASSUME NEW N \in SUBSET Nat, N # {}
  PROVE  \E n \in N : \A m \in N : n <= m
  <1>1. IsWellFoundedOn(OpToRel(<, Nat), Nat)
    BY NatLessThanWellFounded
  <1>2. PICK n \in N : \A m \in N : ~(<<m, n>> \in OpToRel(<, Nat))
    BY <1>1, WFMin, Zenon
  <1>3. \A m \in N : ~(m < n)
    BY <1>2 DEF OpToRel
  <1> QED BY <1>3

LEMMA SetInduction ==
  ASSUME NEW N \in SUBSET Nat, 0 \in N, \A n \in N : n + 1 \in N
  PROVE  N = Nat
  <1> SUFFICES ASSUME Nat \ N # {} PROVE FALSE
    OBVIOUS
  <1>1. PICK n \in Nat \ N : \A m \in Nat \ N : n <= m
    BY LeastNatural
  <1>2. n # 0 /\ n - 1 \in Nat
    BY <1>1
  <1>3. n - 1 \in N
    BY <1>1, <1>2
  <1> QED BY <1>1, <1>3

(* A recursion, where D asks g only about what is less deep. *)
IsRecursive(S, T, depth, D) ==
  /\ T # {} /\ depth \in [S -> Nat] /\ D \in [S -> [[S -> T] -> T]]
  /\ \A x \in S : \A g, h \in [S -> T] :
       (\A y \in S : depth[y] < depth[x] => g[y] = h[y]) => D[x][g] = D[x][h]

Upto(D, depth, S, g, n) == \A x \in S : depth[x] < n => g[x] = D[x][g]

LEMMA UptoExtends ==
  ASSUME NEW S, NEW T, NEW depth, NEW D, IsRecursive(S, T, depth, D),
         NEW n \in Nat, NEW g \in [S -> T], Upto(D, depth, S, g, n)
  PROVE  \E h \in [S -> T] : Upto(D, depth, S, h, n + 1)
  <1> USE DEF IsRecursive
  <1> DEFINE h == [x \in S |-> IF depth[x] = n THEN D[x][g] ELSE g[x]]
  <1>1. h \in [S -> T]
    OBVIOUS
  <1>2. ASSUME NEW x \in S, depth[x] < n + 1 PROVE h[x] = D[x][h]
    <2>1. ASSUME NEW y \in S, depth[y] < depth[x] PROVE g[y] = h[y]
      <3>1. depth[y] \in Nat /\ depth[x] \in Nat /\ depth[y] # n
        BY <1>2, <2>1
      <3> QED BY <3>1
    <2> HIDE DEF h
    <2>2. D[x][g] = D[x][h]
      BY <1>1, <2>1
    <2>3. h[x] = D[x][g]
      <3>0. depth[x] \in Nat
        OBVIOUS
      <3>4. \A k \in Nat : k < n + 1 => k = n \/ k < n
        OBVIOUS
      <3>1. depth[x] = n \/ depth[x] < n
        BY <1>2, <3>0, <3>4, Zenon
      <3>2. depth[x] < n => g[x] = D[x][g]
        BY DEF Upto
      <3> QED BY <3>1, <3>2 DEF h
    <2> QED BY <2>2, <2>3
  <1> HIDE DEF h
  <1> QED BY <1>1, <1>2 DEF Upto

LEMMA UptoExists ==
  ASSUME NEW S, NEW T,  NEW depth, NEW D, IsRecursive(S, T, depth, D),
         NEW n \in Nat
  PROVE  \E g \in [S -> T] : Upto(D, depth, S, g, n)
  <1> USE DEF IsRecursive
  <1> DEFINE Reached == {m \in Nat : \E g \in [S -> T] : Upto(D, depth, S, g, m)}
  <1>1. 0 \in Reached
    <2>1. PICK t \in T : TRUE
      OBVIOUS
    <2>2. [x \in S |-> t] \in [S -> T]
      OBVIOUS
    <2>3. Upto(D, depth, S, [x \in S |-> t], 0)
      <3>1. \A x \in S : ~(depth[x] < 0)
        OBVIOUS
      <3> QED BY <3>1 DEF Upto
    <2> QED BY <2>2, <2>3
  <1>2. ASSUME NEW m \in Reached PROVE m + 1 \in Reached
    <2>1. PICK g \in [S -> T] : Upto(D, depth, S, g, m)
      OBVIOUS
    <2>2. \E h \in [S -> T] : Upto(D, depth, S, h, m + 1)
      BY <2>1, UptoExtends
    <2> QED BY <2>2
  <1>3. Reached \in SUBSET Nat
    OBVIOUS
  <1> HIDE DEF Reached
  <1>4. Reached = Nat
    BY <1>1, <1>2, <1>3, SetInduction
  <1> QED BY <1>4 DEF Reached

LEMMA UptoAgrees ==
  ASSUME NEW S, NEW T, NEW depth, NEW D, IsRecursive(S, T, depth, D),
         NEW n \in Nat
  PROVE  \A g, h \in [S -> T] : Upto(D, depth, S, g, n) /\ Upto(D, depth, S, h, n) =>
           \A x \in S : depth[x] < n => g[x] = h[x]
  <1> USE DEF IsRecursive
  <1> DEFINE Same_(g, h, m) == \A x \in S : depth[x] < m => g[x] = h[x]
             Agree == {m \in Nat : \A g, h \in [S -> T] :
                         Upto(D, depth, S, g, m) /\ Upto(D, depth, S, h, m) => Same_(g, h, m)}
  <1>1. 0 \in Agree
    <2>1. \A x \in S : ~(depth[x] < 0)
      OBVIOUS
    <2> QED BY <2>1
  <1>2. ASSUME NEW m \in Agree PROVE m + 1 \in Agree
    <2>1. SUFFICES ASSUME NEW g \in [S -> T], NEW h \in [S -> T],
                          Upto(D, depth, S, g, m + 1), Upto(D, depth, S, h, m + 1),
                          NEW x \in S, depth[x] < m + 1
                   PROVE  g[x] = h[x]
      <3>1. m + 1 \in Nat
        OBVIOUS
      <3> QED BY <3>1
    <2>2. Upto(D, depth, S, g, m) /\ Upto(D, depth, S, h, m)
      BY <2>1 DEF Upto
    <2>3. Same_(g, h, m)
      BY <2>2
    <2>4. \A y \in S : depth[y] < depth[x] => g[y] = h[y]
      BY <2>1, <2>3
    <2>5. D[x][g] = D[x][h]
      BY <2>4
    <2>6. g[x] = D[x][g] /\ h[x] = D[x][h]
      BY <2>1 DEF Upto
    <2> QED BY <2>5, <2>6
  <1>3. Agree \in SUBSET Nat
    OBVIOUS
  <1> HIDE DEF Agree
  <1>4. Agree = Nat
    BY <1>1, <1>2, <1>3, SetInduction
  <1> QED BY <1>4 DEF Agree

LEMMA Recursion ==
  ASSUME NEW S, NEW T,  NEW depth, NEW D, IsRecursive(S, T, depth, D)
  PROVE  \E f \in [S -> T] : \A x \in S : f[x] = D[x][f]
  <1>0. ASSUME NEW m \in Nat
        PROVE  \A g, h \in [S -> T] : Upto(D, depth, S, g, m) /\ Upto(D, depth, S, h, m) =>
                 \A z \in S : depth[z] < m => g[z] = h[z]
    BY UptoAgrees
  <1> USE DEF IsRecursive
  <1> DEFINE part == [n \in Nat |-> CHOOSE g \in [S -> T] : Upto(D, depth, S, g, n)]
             f == [x \in S |-> part[depth[x] + 1][x]]
  <1>1. ASSUME NEW n \in Nat PROVE part[n] \in [S -> T] /\ Upto(D, depth, S, part[n], n)
    <2>1. \E g \in [S -> T] : Upto(D, depth, S, g, n)
      BY UptoExists
    <2>2. part[n] = CHOOSE g \in [S -> T] : Upto(D, depth, S, g, n)
      OBVIOUS
    <2> HIDE DEF part
    <2> QED BY <2>1, <2>2, Zenon
  <1> HIDE DEF part
  <1>2. f \in [S -> T]
    <2>1. ASSUME NEW x \in S PROVE part[depth[x] + 1][x] \in T
      <3>1. depth[x] + 1 \in Nat
        OBVIOUS
      <3>2. part[depth[x] + 1] \in [S -> T]
        BY <1>1, <3>1
      <3> QED BY <3>2
    <2> QED BY <2>1
  <1>3. ASSUME NEW x \in S PROVE f[x] = D[x][f]
    <2> DEFINE n == depth[x] + 1
    <2>1. n \in Nat /\ depth[x] < n
      OBVIOUS
    <2>2. part[n] \in [S -> T] /\ Upto(D, depth, S, part[n], n)
      BY <1>1, <2>1
    <2>3. f[x] = part[n][x]
      OBVIOUS
    <2>4. ASSUME NEW y \in S, depth[y] < depth[x] PROVE part[n][y] = f[y]
      <3> DEFINE m == depth[y] + 1
      <3>1. m \in Nat /\ depth[y] < m /\ m <= n
        BY <2>4
      <3>2. part[m] \in [S -> T] /\ Upto(D, depth, S, part[m], m)
        BY <1>1, <3>1
      <3>3. f[y] = part[m][y]
        OBVIOUS
      <3>4. Upto(D, depth, S, part[n], m)
        <4> HIDE DEF n, m, f
        <4>1. \A z \in S : depth[z] < m => depth[z] < n
          BY <2>1, <3>1
        <4> QED BY <2>2, <4>1 DEF Upto
      <3> HIDE DEF n, m, f
      <3>5. \A g, h \in [S -> T] : Upto(D, depth, S, g, m) /\ Upto(D, depth, S, h, m) =>
              \A z \in S : depth[z] < m => g[z] = h[z]
        BY <1>0, <3>1, Zenon
      <3>6. part[n][y] = part[m][y]
        BY <2>2, <3>1, <3>2, <3>4, <3>5
      <3> QED BY <3>3, <3>6
    <2> HIDE DEF n, f
    <2>5. D[x][part[n]] = D[x][f]
      BY <1>2, <2>2, <2>4
    <2>6. part[n][x] = D[x][part[n]]
      BY <2>1, <2>2 DEF Upto
    <2> QED BY <2>3, <2>5, <2>6
  <1> HIDE DEF f
  <1> QED BY <1>2, <1>3

-----------------------------------------------------------------------------
(* The functions of a type *)

LEMMA Within ==
  ASSUME NEW t \in CTypes
  PROVE  /\ Range(Contents(t)) \subseteq CTypes
         /\ \A c \in Range(Contents(t)) : Depth(c) \in Nat /\ Depth(c) < Depth(t)
         /\ Depth(t) \in Nat
  <1>1. Contents(t) \in Seq(CTypes) /\ Depth(t) \in Nat
    BY CTypesAssumption
  <1>2. Range(Contents(t)) \subseteq CTypes
    <2> HIDE DEF Contents
    <2> QED BY <1>1 DEF Range
  <1> QED BY <1>1, <1>2, CTypesAssumption

LEMMA TypeInduction ==
  ASSUME NEW P \in SUBSET CTypes,
         \A t \in CTypes : Range(Contents(t)) \subseteq P => t \in P
  PROVE  P = CTypes
  <1> DEFINE N == {n \in Nat : \A t \in CTypes : Depth(t) < n => t \in P}
  <1>1. 0 \in N
    BY Within
  <1>2. ASSUME NEW n \in N PROVE n + 1 \in N
    <2>1. ASSUME NEW t \in CTypes, Depth(t) < n + 1 PROVE t \in P
      <3>1. \A c \in Range(Contents(t)) : c \in CTypes /\ Depth(c) < n
        BY <2>1, Within
      <3>2. Range(Contents(t)) \subseteq P
        BY <3>1
      <3> QED BY <3>2
    <2> QED BY <2>1
  <1>3. N \in SUBSET Nat
    OBVIOUS
  <1> HIDE DEF N
  <1>4. N = Nat
    BY <1>1, <1>2, <1>3, SetInduction
  <1>5. ASSUME NEW t \in CTypes PROVE t \in P
    <2>1. Depth(t) + 1 \in Nat /\ Depth(t) < Depth(t) + 1
      BY Within
    <2> QED BY <1>4, <2>1 DEF N
  <1> QED BY <1>5

IsTypeRecursion(T, D) ==
  /\ T # {} /\ D \in [CTypes -> [[CTypes -> T] -> T]]
  /\ \A t \in CTypes : \A g, h \in [CTypes -> T] :
       (\A c \in Range(Contents(t)) : g[c] = h[c]) => D[t][g] = D[t][h]

LEMMA TypeRecursion ==
  ASSUME NEW T, NEW D, IsTypeRecursion(T, D)
  PROVE  \E f \in [CTypes -> T] : \A t \in CTypes : f[t] = D[t][f]
  <1> DEFINE depth == [t \in CTypes |-> Depth(t)]
  <1>1. depth \in [CTypes -> Nat]
    BY Within
  <1>2. ASSUME NEW t \in CTypes, NEW g \in [CTypes -> T], NEW h \in [CTypes -> T],
               \A c \in CTypes : depth[c] < depth[t] => g[c] = h[c]
        PROVE  D[t][g] = D[t][h]
    <2>1. \A c \in Range(Contents(t)) : g[c] = h[c]
      BY <1>2, Within
    <2> QED BY <2>1 DEF IsTypeRecursion
  <1> HIDE DEF depth
  <1>3. IsRecursive(CTypes, T, depth, D)
    BY <1>1, <1>2 DEF IsRecursive, IsTypeRecursion
  <1> QED BY <1>3, Recursion

(* What the headers' records may be called. *)
TypeKeys == {t.key : t \in CTypes}

LEMMA MentionsDef ==
  /\ Mentions \in [CTypes -> SUBSET TypeKeys]
  /\ \A t \in CTypes :
       Mentions[t] = IF t.k \in {"record", "enum"} THEN {t.key}
                     ELSE UNION {Mentions[c] : c \in Range(Contents(t))}
  <1> DEFINE T == SUBSET TypeKeys
             Body_(t, g) == IF t.k \in {"record", "enum"} THEN {t.key}
                            ELSE UNION {g[c] : c \in Range(Contents(t))}
             D == [t \in CTypes |-> [g \in [CTypes -> T] |-> Body_(t, g)]]
  <1>1. ASSUME NEW t \in CTypes, NEW g \in [CTypes -> T] PROVE Body_(t, g) \in T
    BY Within DEF TypeKeys
  <1>2. ASSUME NEW t \in CTypes, NEW g, NEW h, \A c \in Range(Contents(t)) : g[c] = h[c]
        PROVE  Body_(t, g) = Body_(t, h)
    <2>1. {g[c] : c \in Range(Contents(t))} = {h[c] : c \in Range(Contents(t))}
      BY <1>2
    <2> QED BY <2>1
  <1> HIDE DEF Body_, T
  <1>3. IsTypeRecursion(T, D)
    <2>1. T # {}
      BY DEF T
    <2> QED BY <1>1, <1>2, <2>1 DEF IsTypeRecursion
  <1>4. \A t \in CTypes : \A g \in [CTypes -> T] : D[t][g] = Body_(t, g)
    OBVIOUS
  <1> HIDE DEF D
  <1>5. PICK f \in [CTypes -> T] : \A t \in CTypes : f[t] = D[t][f]
    BY <1>3, TypeRecursion
  <1>6. f = [t \in CTypes |-> Body_(t, f)]
    BY <1>4, <1>5
  <1>7. Mentions = [t \in CTypes |-> Body_(t, Mentions)]
    BY <1>6, Zenon DEF Mentions, Body_
  <1>8. Mentions = f
    <2> DEFINE P == {t \in CTypes : Mentions[t] = f[t]}
    <2>1. ASSUME NEW t \in CTypes, Range(Contents(t)) \subseteq P PROVE t \in P
      BY <1>2, <1>6, <1>7, <2>1
    <2>2. P \in SUBSET CTypes
      OBVIOUS
    <2> HIDE DEF P
    <2>3. P = CTypes
      BY <2>1, <2>2, TypeInduction
    <2> QED BY <1>6, <1>7, <2>3 DEF P
  <1> QED BY <1>5, <1>7, <1>8 DEF Body_, T

LEMMA AbiFollowsDef ==
  /\ AbiFollows \in [CTypes -> SUBSET TypeKeys]
  /\ \A t \in CTypes :
       AbiFollows[t] =
         IF t.k = "record" THEN {t.key}
         ELSE IF t.k \in {"pointer", "function"} THEN UNION {AbiFollows[c] : c \in Range(Contents(t))}
         ELSE {}
  <1> DEFINE T == SUBSET TypeKeys
             Body_(t, g) ==
               IF t.k = "record" THEN {t.key}
               ELSE IF t.k \in {"pointer", "function"} THEN UNION {g[c] : c \in Range(Contents(t))}
               ELSE {}
             D == [t \in CTypes |-> [g \in [CTypes -> T] |-> Body_(t, g)]]
  <1>1. ASSUME NEW t \in CTypes, NEW g \in [CTypes -> T] PROVE Body_(t, g) \in T
    <2>1. UNION {g[c] : c \in Range(Contents(t))} \in T
      BY Within
    <2>2. t.k = "record" => {t.key} \in T
      BY DEF TypeKeys
    <2> QED BY <2>1, <2>2
  <1>2. ASSUME NEW t \in CTypes, NEW g, NEW h, \A c \in Range(Contents(t)) : g[c] = h[c]
        PROVE  Body_(t, g) = Body_(t, h)
    <2>1. {g[c] : c \in Range(Contents(t))} = {h[c] : c \in Range(Contents(t))}
      BY <1>2
    <2> QED BY <2>1
  <1> HIDE DEF Body_, T
  <1>3. IsTypeRecursion(T, D)
    <2>1. T # {}
      BY DEF T
    <2> QED BY <1>1, <1>2, <2>1 DEF IsTypeRecursion
  <1>4. \A t \in CTypes : \A g \in [CTypes -> T] : D[t][g] = Body_(t, g)
    OBVIOUS
  <1> HIDE DEF D
  <1>5. PICK f \in [CTypes -> T] : \A t \in CTypes : f[t] = D[t][f]
    BY <1>3, TypeRecursion
  <1>6. f = [t \in CTypes |-> Body_(t, f)]
    BY <1>4, <1>5
  <1>7. AbiFollows = [t \in CTypes |-> Body_(t, AbiFollows)]
    BY <1>6, Zenon DEF AbiFollows, Body_
  <1>8. AbiFollows = f
    <2> DEFINE P == {t \in CTypes : AbiFollows[t] = f[t]}
    <2>1. ASSUME NEW t \in CTypes, Range(Contents(t)) \subseteq P PROVE t \in P
      BY <1>2, <1>6, <1>7, <2>1
    <2>2. P \in SUBSET CTypes
      OBVIOUS
    <2> HIDE DEF P
    <2>3. P = CTypes
      BY <2>1, <2>2, TypeInduction
    <2> QED BY <1>6, <1>7, <2>3 DEF P
  <1> QED BY <1>5, <1>7, <1>8 DEF Body_, T

LEMMA DirectDescriptorDef ==
  /\ DirectDescriptor \in [CTypes -> BOOLEAN]
  /\ \A t \in CTypes :
       DirectDescriptor[t] <=>
         /\ Kind(t) # "unsupported"
         /\ Kind(t) = "pointer" /\ Kind(t.to) = "function" => DirectDescriptor[t.to]
         /\ Kind(t) = "record" => t.key \in SchemaRecords[{}]
         /\ Kind(t) = "function" => \A i \in DOMAIN t.types : DirectDescriptor[t.types[i]]
  <1> DEFINE Body_(t, g) ==
               /\ Kind(t) # "unsupported"
               /\ Kind(t) = "pointer" /\ Kind(t.to) = "function" => g[t.to]
               /\ Kind(t) = "record" => t.key \in SchemaRecords[{}]
               /\ Kind(t) = "function" => \A i \in DOMAIN t.types : g[t.types[i]]
             D == [t \in CTypes |-> [g \in [CTypes -> BOOLEAN] |-> Body_(t, g)]]
  <1>1. ASSUME NEW t \in CTypes, NEW g \in [CTypes -> BOOLEAN] PROVE Body_(t, g) \in BOOLEAN
    OBVIOUS
  <1>2. ASSUME NEW t \in CTypes, NEW g, NEW h, \A c \in Range(Contents(t)) : g[c] = h[c]
        PROVE  Body_(t, g) = Body_(t, h)
    <2>1. Kind(t) = "pointer" => g[t.to] = h[t.to]
      <3>1. Kind(t) = "pointer" => t.to \in Range(Contents(t))
        BY DEF Kind, Contents, Range
      <3> QED BY <1>2, <3>1
    <2>2. Kind(t) = "function" => \A i \in DOMAIN t.types : g[t.types[i]] = h[t.types[i]]
      <3>1. Kind(t) = "function" => Contents(t) = t.types
        BY DEF Kind, Contents
      <3> QED BY <1>2, <3>1 DEF Range
    <2> HIDE DEF Body_
    <2>3. Body_(t, g) <=> Body_(t, h)
      BY <2>1, <2>2, Zenon DEF Body_
    <2>4. Body_(t, g) \in BOOLEAN /\ Body_(t, h) \in BOOLEAN
      BY DEF Body_
    <2> QED BY <2>3, <2>4
  <1> HIDE DEF Body_
  <1>3. IsTypeRecursion(BOOLEAN, D)
    BY <1>1, <1>2 DEF IsTypeRecursion
  <1>4. \A t \in CTypes : \A g \in [CTypes -> BOOLEAN] : D[t][g] = Body_(t, g)
    OBVIOUS
  <1> HIDE DEF D
  <1>5. PICK f \in [CTypes -> BOOLEAN] : \A t \in CTypes : f[t] = D[t][f]
    BY <1>3, TypeRecursion
  <1>6. f = [t \in CTypes |-> Body_(t, f)]
    BY <1>4, <1>5
  <1>7. DirectDescriptor = [t \in CTypes |-> Body_(t, DirectDescriptor)]
    BY <1>6, Zenon DEF DirectDescriptor, Body_
  <1>8. DirectDescriptor = f
    <2> DEFINE P == {t \in CTypes : DirectDescriptor[t] = f[t]}
    <2>1. ASSUME NEW t \in CTypes, Range(Contents(t)) \subseteq P PROVE t \in P
      BY <1>2, <1>6, <1>7, <2>1
    <2>2. P \in SUBSET CTypes
      OBVIOUS
    <2> HIDE DEF P
    <2>3. P = CTypes
      BY <2>1, <2>2, TypeInduction
    <2> QED BY <1>6, <1>7, <2>3 DEF P
  <1>9. DirectDescriptor \in [CTypes -> BOOLEAN]
    BY <1>5, <1>8
  <1>10. ASSUME NEW t \in CTypes PROVE DirectDescriptor[t] = Body_(t, DirectDescriptor)
    BY <1>7
  <1> QED BY <1>9, <1>10 DEF Body_

LEMMA SchemaRecordsDef ==
  ASSUME IsFiniteSet(Keys)
  PROVE  /\ SchemaRecords \in [SUBSET Keys -> SUBSET Keys]
         /\ \A path \in SUBSET Keys :
              SchemaRecords[path] =
                {key \in Keys \ path :
                   /\ table.records[key].complete
                   /\ \A field \in Range(Fields(key)) :
                        /\ field.flaw = "none"
                        /\ Kind(field.type) \in Direct \cup {"array", "record"}
                        /\ Kind(field.type) = "record" => field.type.key \in SchemaRecords[path \cup {key}]}
  <1> DEFINE S == SUBSET Keys
             Body_(path, g) ==
               {key \in Keys \ path :
                  /\ table.records[key].complete
                  /\ \A field \in Range(Fields(key)) :
                       /\ field.flaw = "none"
                       /\ Kind(field.type) \in Direct \cup {"array", "record"}
                       /\ Kind(field.type) = "record" => field.type.key \in g[path \cup {key}]}
             D == [path \in S |-> [g \in [S -> S] |-> Body_(path, g)]]
             depth == [path \in S |-> Cardinality(Keys \ path)]
  <1>1. depth \in [S -> Nat]
    <2>1. ASSUME NEW path \in S PROVE Cardinality(Keys \ path) \in Nat
      BY FS_Subset, FS_CardinalityType
    <2> QED BY <2>1
  <1>2. ASSUME NEW path \in S, NEW key \in Keys \ path
        PROVE  path \cup {key} \in S /\ depth[path \cup {key}] < depth[path]
    <2>1. Keys \ path = (Keys \ (path \cup {key})) \cup {key}
      OBVIOUS
    <2>2. IsFiniteSet(Keys \ (path \cup {key})) /\ IsFiniteSet(Keys \ path)
      BY FS_Subset
    <2>3. Cardinality(Keys \ path) = Cardinality(Keys \ (path \cup {key})) + 1
      BY <2>1, <2>2, FS_AddElement
    <2>4. Cardinality(Keys \ (path \cup {key})) \in Nat
      BY <2>2, FS_CardinalityType
    <2> QED BY <2>3, <2>4
  <1>3. ASSUME NEW path \in S, NEW g, NEW h,
               \A p \in S : depth[p] < depth[path] => g[p] = h[p]
        PROVE  Body_(path, g) = Body_(path, h)
    <2> HIDE DEF depth
    <2>1. \A key \in Keys \ path : g[path \cup {key}] = h[path \cup {key}]
      BY <1>2, <1>3
    <2> QED BY <2>1
  <1>4. \A path \in S : \A g : Body_(path, g) \in S
    OBVIOUS
  <1> HIDE DEF Body_, depth, S
  <1>5. IsRecursive(S, S, depth, D)
    <2>1. S # {}
      BY DEF S
    <2> QED BY <1>1, <1>3, <1>4, <2>1 DEF IsRecursive
  <1>6. \A path \in S : \A g \in [S -> S] : D[path][g] = Body_(path, g)
    OBVIOUS
  <1> HIDE DEF D
  <1>7. PICK f \in [S -> S] : \A path \in S : f[path] = D[path][f]
    BY <1>5, Recursion
  <1>8. f = [path \in S |-> Body_(path, f)]
    BY <1>6, <1>7
  <1>9. SchemaRecords = [path \in S |-> Body_(path, SchemaRecords)]
    <2>1. SchemaRecords = CHOOSE g : g = [path \in S |-> Body_(path, g)]
      BY Zenon DEF SchemaRecords, Body_, S
    <2> QED BY <1>8, <2>1, Zenon
  <1>10. SchemaRecords \in [S -> S]
    BY <1>4, <1>9
  <1> QED BY <1>9, <1>10 DEF Body_, S

-----------------------------------------------------------------------------
(* Sequences *)

LEMMA FrontOf ==
  ASSUME NEW S, NEW s \in Seq(S), s # <<>>
  PROVE  /\ Front(s) \in Seq(S) /\ Len(s) \in Nat \ {0} /\ Len(Front(s)) = Len(s) - 1
         /\ \A i \in 1 .. Len(s) - 1 : Front(s)[i] = s[i]
         /\ s[Len(s)] \in S
  <1>1. Len(s) \in Nat \ {0} /\ \A i \in 1 .. Len(s) - 1 : s[i] \in S
    OBVIOUS
  <1>2. /\ Front(s) \in Seq(S) /\ Len(Front(s)) = Len(s) - 1
        /\ \A i \in 1 .. Len(s) - 1 : Front(s)[i] = s[i]
    <2> DEFINE n == Len(s) - 1
    <2>1. n \in Nat
      <3>1. Len(s) \in Nat /\ Len(s) # 0
        BY <1>1
      <3> QED BY <3>1
    <2>2. \A i \in 1 .. n : s[i] \in S
      BY <1>1
    <2> HIDE DEF n
    <2>3. /\ Front(s) \in Seq(S)
          /\ Len(Front(s)) = IF 1 <= n THEN n - 1 + 1 ELSE 0
          /\ \A i \in 1 .. n - 1 + 1 : Front(s)[i] = s[1 + i - 1]
      <3>1. Front(s) = SubSeq(s, 1, n)
        BY Zenon DEF Front, n
      <3> QED BY <2>1, <2>2, <3>1, SubSeqProperties
    <2>4. Len(Front(s)) = n
      BY <2>1, <2>3
    <2>5. ASSUME NEW i \in 1 .. n PROVE Front(s)[i] = s[i]
      <3>1. i \in 1 .. n - 1 + 1 /\ 1 + i - 1 = i
        BY <2>1
      <3> QED BY <2>3, <3>1
    <2> QED BY <2>1, <2>3, <2>4, <2>5 DEF n
  <1> QED BY <1>1, <1>2

LEMMA Replaced ==
  ASSUME NEW S, NEW s \in Seq(S), s # <<>>, NEW e \in S
  PROVE  /\ Append(Front(s), e) \in Seq(S) /\ Len(Append(Front(s), e)) = Len(s)
         /\ \A i \in 1 .. Len(s) : Append(Front(s), e)[i] = IF i = Len(s) THEN e ELSE s[i]
  BY FrontOf

LEMMA Pushed ==
  ASSUME NEW S, NEW s \in Seq(S), s # <<>>, NEW e \in S, NEW f \in S
  PROVE  /\ Front(s) \o <<e, f>> \in Seq(S) /\ Len(Front(s) \o <<e, f>>) = Len(s) + 1
         /\ \A i \in 1 .. Len(s) + 1 :
              (Front(s) \o <<e, f>>)[i] = IF i = Len(s) + 1 THEN f ELSE IF i = Len(s) THEN e ELSE s[i]
  <1> DEFINE r == Front(s) \o <<e, f>>
  <1>1. Front(s) \in Seq(S) /\ Len(Front(s)) = Len(s) - 1 /\ Len(s) \in Nat \ {0}
    BY FrontOf
  <1>2. <<e, f>> \in Seq(S) /\ Len(<<e, f>>) = 2 /\ <<e, f>>[1] = e /\ <<e, f>>[2] = f
    OBVIOUS
  <1>3. r \in Seq(S) /\ Len(r) = Len(s) + 1
    BY <1>1, <1>2
  <1>4. ASSUME NEW i \in 1 .. Len(s) + 1
        PROVE  r[i] = IF i < Len(s) THEN Front(s)[i] ELSE <<e, f>>[i - Len(Front(s))]
    BY <1>1, <1>2
  <1>5. \A i \in 1 .. Len(s) - 1 : Front(s)[i] = s[i]
    BY FrontOf
  <1>6. ASSUME NEW i \in 1 .. Len(s) + 1
        PROVE  r[i] = IF i = Len(s) + 1 THEN f ELSE IF i = Len(s) THEN e ELSE s[i]
    <2>1. i \in 1 .. Len(s) - 1 \/ i = Len(s) \/ i = Len(s) + 1
      BY <1>1
    <2>2. CASE i \in 1 .. Len(s) - 1
      BY <1>1, <1>4, <1>5, <2>2
    <2>3. CASE i = Len(s)
      <3>1. i - Len(Front(s)) = 1 /\ ~(i < Len(s)) /\ i # Len(s) + 1
        BY <1>1, <2>3
      <3>2. r[i] = <<e, f>>[1]
        BY <1>4, <3>1
      <3> QED BY <1>2, <2>3, <3>1, <3>2
    <2>4. CASE i = Len(s) + 1
      <3>1. i - Len(Front(s)) = 2 /\ ~(i < Len(s))
        BY <1>1, <2>4
      <3>2. r[i] = <<e, f>>[2]
        BY <1>4, <3>1
      <3> QED BY <1>2, <2>4, <3>2
    <2> QED BY <2>1, <2>2, <2>3, <2>4
  <1> QED BY <1>3, <1>6

LEMMA PushedOnto ==
  ASSUME NEW S, NEW s \in Seq(S), s # <<>>, NEW e \in S, NEW f \in S
  PROVE  /\ Append(Front(s), e) \o <<f>> \in Seq(S) /\ Len(Append(Front(s), e) \o <<f>>) = Len(s) + 1
         /\ \A i \in 1 .. Len(s) + 1 :
              (Append(Front(s), e) \o <<f>>)[i] =
                IF i = Len(s) + 1 THEN f ELSE IF i = Len(s) THEN e ELSE s[i]
  <1> DEFINE q == Append(Front(s), e)
  <1>1. /\ q \in Seq(S) /\ Len(q) = Len(s) /\ Len(s) \in Nat
        /\ \A i \in 1 .. Len(s) : q[i] = IF i = Len(s) THEN e ELSE s[i]
    BY Replaced
  <1> HIDE DEF q
  <1>2. <<f>> \in Seq(S) /\ Len(<<f>>) = 1 /\ <<f>>[1] = f
    OBVIOUS
  <1>3. q \o <<f>> \in Seq(S) /\ Len(q \o <<f>>) = Len(s) + 1
    BY <1>1, <1>2
  <1>4. ASSUME NEW i \in 1 .. Len(s) + 1
        PROVE  (q \o <<f>>)[i] = IF i <= Len(s) THEN q[i] ELSE f
    BY <1>1, <1>2
  <1>5. ASSUME NEW i \in 1 .. Len(s) + 1
        PROVE  (q \o <<f>>)[i] = IF i = Len(s) + 1 THEN f ELSE IF i = Len(s) THEN e ELSE s[i]
    BY <1>1, <1>4
  <1> QED BY <1>3, <1>5 DEF q

LEMMA TailOf ==
  ASSUME NEW S, NEW s \in Seq(S), s # <<>>
  PROVE  Head(s) \in S /\ Head(s) \in Range(s) /\ Tail(s) \in Seq(S) /\ Range(s) = {Head(s)} \cup Range(Tail(s))
  <1>1. Head(s) = s[1] /\ 1 \in DOMAIN s /\ Head(s) \in S /\ Tail(s) \in Seq(S)
    OBVIOUS
  <1>2. ASSUME NEW i \in DOMAIN s, i # 1 PROVE s[i] \in Range(Tail(s))
    <2>1. i - 1 \in DOMAIN Tail(s) /\ Tail(s)[i - 1] = s[i]
      BY <1>2
    <2> QED BY <2>1 DEF Range
  <1>3. ASSUME NEW i \in DOMAIN Tail(s) PROVE Tail(s)[i] \in Range(s)
    <2>1. i + 1 \in DOMAIN s /\ Tail(s)[i] = s[i + 1]
      OBVIOUS
    <2> QED BY <2>1 DEF Range
  <1> HIDE DEF Range
  <1>4. \A x : x \in Range(s) <=> x \in {Head(s)} \cup Range(Tail(s))
    BY <1>1, <1>2, <1>3 DEF Range
  <1> QED BY <1>1, <1>4

LEMMA RangeOf ==
  ASSUME NEW S, NEW s \in Seq(S)
  PROVE  Range(s) \subseteq S /\ \A i \in DOMAIN s : s[i] \in Range(s)
  BY DEF Range

LEMMA ConcatRange ==
  ASSUME NEW S, NEW s \in Seq(S), NEW r \in Seq(S)
  PROVE  s \o r \in Seq(S) /\ Range(s \o r) = Range(s) \cup Range(r)
  <1>1. s \o r \in Seq(S) /\ DOMAIN (s \o r) = 1 .. Len(s) + Len(r) /\ Len(s) \in Nat /\ Len(r) \in Nat
    OBVIOUS
  <1>2. ASSUME NEW i \in DOMAIN s PROVE s[i] \in Range(s \o r)
    <2>1. (s \o r)[i] = s[i] /\ i \in DOMAIN (s \o r)
      OBVIOUS
    <2> QED BY <2>1 DEF Range
  <1>3. ASSUME NEW i \in DOMAIN r PROVE r[i] \in Range(s \o r)
    <2>1. (s \o r)[Len(s) + i] = r[i] /\ Len(s) + i \in DOMAIN (s \o r)
      OBVIOUS
    <2> QED BY <2>1 DEF Range
  <1>4. ASSUME NEW i \in DOMAIN (s \o r) PROVE (s \o r)[i] \in Range(s) \cup Range(r)
    <2>1. \/ i \in DOMAIN s /\ (s \o r)[i] = s[i]
          \/ i - Len(s) \in DOMAIN r /\ (s \o r)[i] = r[i - Len(s)]
      BY <1>1
    <2> QED BY <2>1 DEF Range
  <1>5. \A x : x \in Range(s \o r) <=> x \in Range(s) \cup Range(r)
    BY <1>2, <1>3, <1>4 DEF Range
  <1> QED BY <1>1, <1>5

-----------------------------------------------------------------------------
(* The header and its types *)

LEMMA HeaderFacts ==
  ASSUME header \in Headers
  PROVE  /\ Decls \in Seq(Range(Decls))
         /\ \A i \in DOMAIN Decls : Decls[i] \in Range(Decls) /\ Needs(Decls[i]) \in Seq(CTypes)
         /\ DOMAIN header.body \subseteq Nat \ {0}
         /\ \A key \in DOMAIN header.body : FieldsOf(key) \in Seq([flaw : STRING, type : CTypes])
         /\ \A key \in DOMAIN header.tag : Tag(key) \in Nat
         /\ \A d \in Range(Decls) : d.what = "typedef" => d.alias \in Nat
  <1>1. IsHeader(header)
    BY HeadersAssumption
  <1>2. \A i \in DOMAIN Decls : Decls[i] \in Range(Decls)
    BY DEF Range
  <1>3. \A d \in Range(Decls) : Needs(d) \in Seq(CTypes)
    BY <1>1, Zenon DEF IsHeader, Decls
  <1>4. ASSUME NEW key \in DOMAIN header.body PROVE FieldsOf(key) \in Seq([flaw : STRING, type : CTypes])
    <2>1. Body(key).fields \in Seq([flaw : STRING, type : CTypes])
      BY <1>1, Zenon DEF IsHeader, Body
    <2>2. <<>> \in Seq([flaw : STRING, type : CTypes])
      OBVIOUS
    <2> QED BY <2>1, <2>2, Zenon DEF FieldsOf
  <1>5. Decls \in Seq(Range(Decls)) /\ DOMAIN header.body \subseteq Nat \ {0}
    BY <1>1, Zenon DEF IsHeader, Decls
  <1>6. \A key \in DOMAIN header.tag : Tag(key) \in Nat
    BY <1>1, Zenon DEF IsHeader, Tag
  <1>7. \A d \in Range(Decls) : d.what = "typedef" => d.alias \in Nat
    BY <1>1, Zenon DEF IsHeader, Decls
  <1> QED BY <1>2, <1>3, <1>4, <1>5, <1>6, <1>7, Zenon

LEMMA BuiltTypes ==
  ASSUME header \in Headers, NEW key \in DOMAIN header.body
  PROVE  TypesToBuild(key) \in Seq(CTypes) /\ DOMAIN TypesToBuild(key) = DOMAIN FieldsOf(key)
  <1>1. FieldsOf(key) \in Seq([flaw : STRING, type : CTypes])
    BY HeaderFacts
  <1>2. ASSUME NEW i \in DOMAIN FieldsOf(key) PROVE FieldsOf(key)[i].type \in CTypes
    <2> DEFINE S == [flaw : STRING, type : CTypes]
    <2> HIDE DEF S
    <2>1. FieldsOf(key) \in Seq(S)
      BY <1>1 DEF S
    <2>2. FieldsOf(key)[i] \in S
      BY <2>1
    <2> QED BY <2>2 DEF S
  <1>3. DOMAIN FieldsOf(key) = 1 .. Len(FieldsOf(key)) /\ Len(FieldsOf(key)) \in Nat
    BY <1>1
  <1> QED BY <1>2, <1>3 DEF TypesToBuild

LEMMA NamesOfTypes ==
  ASSUME header \in Headers, NEW t \in CTypes
  PROVE  /\ t.k \in {"record", "enum"} => t.key \in DOMAIN header.tag
         /\ t.k = "record" => t.key \in DOMAIN header.body /\ t.key # NoKey
         /\ t.k = "enum" => t.key \notin DOMAIN header.body
  <1>1. IsHeader(header)
    BY HeadersAssumption
  <1>2. /\ t.k \in {"record", "enum"} => t.key \in DOMAIN header.tag
        /\ t.k = "record" => t.key \in DOMAIN header.body
        /\ t.k = "enum" => t.key \notin DOMAIN header.body
    BY <1>1, Zenon DEF IsHeader
  <1>3. \A key \in DOMAIN header.body : key # NoKey
    BY HeaderFacts DEF NoKey
  <1> QED BY <1>2, <1>3

LEMMA Kinds ==
  ASSUME NEW t \in CTypes
  PROVE  /\ Kind(t) = "record" <=> t.k = "record"
         /\ Kind(t) = "enum" <=> t.k = "enum"
         /\ Kind(t) = "function" <=> t.k = "function"
         /\ Kind(t) = "function" => Contents(t) = t.types
         /\ Kind(t) = "pointer" => t.k = "pointer" /\ Contents(t) = <<t.to>> /\ t.to \in CTypes
         /\ HasPointee(t) => Kind(t) = "pointer"
  <1>1. Kind(t) = "pointer" => t.k = "pointer" /\ Contents(t) = <<t.to>>
    BY DEF Kind, Contents
  <1>2. Kind(t) = "pointer" => t.to \in CTypes
    <2>1. Contents(t) \in Seq(CTypes)
      BY CTypesAssumption
    <2> HIDE DEF Contents
    <2> QED BY <1>1, <2>1
  <1>3. Kind(t) = "function" => Contents(t) = t.types
    BY DEF Kind, Contents
  <1>4. /\ Kind(t) = "record" <=> t.k = "record"
        /\ Kind(t) = "enum" <=> t.k = "enum"
        /\ Kind(t) = "function" <=> t.k = "function"
    BY DEF Kind
  <1> QED BY <1>1, <1>2, <1>3, <1>4 DEF HasPointee

LEMMA MentionedParts ==
  /\ Mentioned(<<>>) = {}
  /\ \A t \in CTypes : Mentioned(<<t>>) = Mentions[t]
  /\ \A s, r \in Seq(CTypes) : Mentioned(s \o r) = Mentioned(s) \cup Mentioned(r)
  /\ \A s \in Seq(CTypes) : s # <<>> => Mentioned(s) = Mentions[Head(s)] \cup Mentioned(Tail(s))
  /\ \A s \in Seq(CTypes) : \A t \in Range(s) : Mentions[t] \subseteq Mentioned(s)
  <1>1. Range(<<>>) = {}
    BY DEF Range
  <1>2. ASSUME NEW t \in CTypes PROVE Range(<<t>>) = {t}
    BY DEF Range
  <1>3. \A s, r \in Seq(CTypes) : Range(s \o r) = Range(s) \cup Range(r)
    BY ConcatRange
  <1>4. \A s \in Seq(CTypes) : s # <<>> => Range(s) = {Head(s)} \cup Range(Tail(s))
    BY TailOf
  <1> QED BY <1>1, <1>2, <1>3, <1>4 DEF Mentioned

LEMMA MentionsOf ==
  ASSUME NEW t \in CTypes
  PROVE  Mentions[t] = IF t.k \in {"record", "enum"} THEN {t.key} ELSE Mentioned(Contents(t))
  BY MentionsDef DEF Mentioned

(* What a parameter is for the program names nothing new.                    *)
LEMMA ParameterFacts ==
  ASSUME NEW t \in CTypes
  PROVE  Parameter(t) \in CTypes /\ Mentions[Parameter(t)] \subseteq Mentions[t]
  <1> DEFINE void == [k |-> "void"]
  <1>1. Address \in CTypes /\ Text \in CTypes
    BY ParametersAssumption
  <1>2. Address.k = "pointer" /\ Address.to = void /\ Contents(Address) = <<void>>
    BY DEF Address, Contents
  <1>3. Text.k = "pointer" /\ Contents(Text) = <<>>
    BY DEF Text, Contents
  <1>4. void \in CTypes
    <2> HIDE DEF void
    <2>1. <<void>> \in Seq(CTypes)
      BY <1>1, <1>2, CTypesAssumption
    <2> QED BY <2>1
  <1>5. Contents(void) = <<>> /\ void.k = "void"
    BY DEF Contents
  <1> HIDE DEF void
  <1>6. Mentions[void] = {}
    BY <1>4, <1>5, MentionsOf, MentionedParts
  <1>7. Mentions[Address] = {}
    <2>1. Mentions[Address] = Mentioned(<<void>>)
      BY <1>1, <1>2, MentionsOf
    <2> QED BY <1>4, <1>6, <2>1, MentionedParts
  <1>8. Mentions[Text] = {}
    BY <1>1, <1>3, MentionsOf, MentionedParts
  <1>9. Parameter(t) \in {t, Address, Text}
    BY DEF Parameter
  <1> QED BY <1>1, <1>7, <1>8, <1>9

LEMMA SignatureFacts ==
  ASSUME NEW types \in Seq(CTypes)
  PROVE  /\ Signature(types) \in Seq(CTypes)
         /\ Mentioned(Signature(types)) \subseteq Mentioned(types)
         /\ types # <<>> => Signature(types) # <<>>
  <1>1. DOMAIN types = 1 .. Len(types) /\ Len(types) \in Nat /\ DOMAIN Signature(types) = DOMAIN types
    BY DEF Signature
  <1>2. ASSUME NEW i \in DOMAIN types
        PROVE  /\ Signature(types)[i] \in CTypes /\ types[i] \in Range(types)
               /\ Mentions[Signature(types)[i]] \subseteq Mentions[types[i]]
    <2>1. types[i] \in CTypes /\ types[i] \in Range(types)
      BY <1>1 DEF Range
    <2>2. Signature(types)[i] \in {types[i], Parameter(types[i])}
      BY DEF Signature
    <2> QED BY <2>1, <2>2, ParameterFacts
  <1>3. Signature(types) \in Seq(CTypes)
    BY <1>1, <1>2 DEF Signature
  <1>4. Mentioned(Signature(types)) \subseteq Mentioned(types)
    BY <1>1, <1>2 DEF Mentioned, Range
  <1>5. ASSUME types # <<>> PROVE Signature(types) # <<>>
    <2>1. 1 \in DOMAIN types
      BY <1>1, <1>5
    <2>2. 1 \in DOMAIN Signature(types)
      BY <1>1, <2>1
    <2> QED BY <2>2
  <1> QED BY <1>3, <1>4, <1>5

-----------------------------------------------------------------------------
(* What is as it was *)

LEMMA SameDefinition ==
  ASSUME header' = header, NEW key
  PROVE  (IsDefinition(key) <=> IsDefinition(key)') /\ FieldsOf(key)' = FieldsOf(key) /\ TypesToBuild(key)' = TypesToBuild(key)
  BY Zenon DEF IsDefinition, Decls, FieldsOf, Body, TypesToBuild

LEMMA SameEntry ==
  ASSUME header' = header, NEW key
  PROVE  Entry(key, FieldsOf(key))' = Entry(key, FieldsOf(key)) /\ Entry(key, <<>>)' = Entry(key, <<>>)
  BY Zenon DEF Entry, FieldsOf, IsDefinition, Decls, Body

LEMMA SameInside ==
  ASSUME header' = header
  PROVE  Inside' = Inside
  <1>1. \A style, key : FieldsFollow(style, key)' = FieldsFollow(style, key)
    BY Zenon, SameDefinition DEF FieldsFollow
  <1>2. \A style, keys : Closed(style, keys)' <=> Closed(style, keys)
    BY <1>1 DEF Closed
  <1> DEFINE In(style, key) ==
               {k \in DOMAIN header.body : \A keys \in SUBSET DOMAIN header.body :
                  FieldsFollow(style, key) \subseteq keys /\ Closed(style, keys) => k \in keys}
  <1>3. \A style, key : In(style, key)' = In(style, key)
    BY <1>1, <1>2
  <1>4. Inside = [style \in {"schema", "abi"} |-> [key \in DOMAIN header.body |-> In(style, key)]]
    BY Zenon DEF Inside
  <1>5. Inside' = [style \in {"schema", "abi"} |-> [key \in DOMAIN header'.body |-> In(style, key)']]
    BY Zenon DEF Inside
  <1> HIDE DEF In
  <1> QED BY <1>3, <1>4, <1>5

SchemasOf(recs) ==
  CHOOSE f : f = [path \in SUBSET DOMAIN recs |->
  {key \in DOMAIN recs \ path :
     /\ recs[key].complete
     /\ \A field \in Range(recs[key].fields) :
          /\ field.flaw = "none"
          /\ Kind(field.type) \in Direct \cup {"array", "record"}
          /\ Kind(field.type) = "record" => field.type.key \in f[path \cup {key}]}]

LEMMA SameSchemas ==
  ASSUME table' = table
  PROVE  SchemaRecords' = SchemaRecords
  <1>1. SchemaRecords = SchemasOf(table.records)
    BY Zenon DEF SchemaRecords, SchemasOf, Keys, Fields
  <1>2. SchemaRecords' = SchemasOf(table'.records)
    BY Zenon DEF SchemaRecords, SchemasOf, Keys, Fields
  <1> QED BY <1>1, <1>2, Zenon

LEMMA SameDirect ==
  ASSUME table' = table
  PROVE  DirectDescriptor' = DirectDescriptor
  BY Zenon, SameSchemas DEF DirectDescriptor

-----------------------------------------------------------------------------
(* Building *)

LEMMA InnermostFacts ==
  ASSUME TypeOK, building # <<>>
  PROVE  /\ Len(building) \in Nat \ {0} /\ DOMAIN building = 1 .. Len(building)
         /\ Innermost \in BuildFrames /\ Innermost.types \in Seq(CTypes)
         /\ Front(building) \in Seq(BuildFrames)
         /\ Innermost.types # <<>> =>
              /\ Built \in CTypes /\ Tail(Innermost.types) \in Seq(CTypes) /\ Contents(Built) \in Seq(CTypes)
              /\ Onward \in BuildFrames /\ Onward.key = Innermost.key
              /\ Onward.types = Contents(Built) \o Tail(Innermost.types)
              /\ Mentioned(Innermost.types) = Mentions[Built] \cup Mentioned(Tail(Innermost.types))
              /\ Mentioned(Onward.types) = Mentioned(Contents(Built)) \cup Mentioned(Tail(Innermost.types))
  <1>1. building \in Seq(BuildFrames) /\ Len(building) \in Nat \ {0} /\ DOMAIN building = 1 .. Len(building)
    BY DEF TypeOK
  <1>2. Innermost \in BuildFrames /\ Front(building) \in Seq(BuildFrames)
    BY <1>1, FrontOf DEF Innermost
  <1>3. Innermost.types \in Seq(CTypes) /\ Innermost.key \in Keys \cup {NoKey}
    BY <1>2 DEF BuildFrames
  <1>4. ASSUME Innermost.types # <<>>
        PROVE  /\ Built \in CTypes /\ Tail(Innermost.types) \in Seq(CTypes) /\ Contents(Built) \in Seq(CTypes)
               /\ Onward \in BuildFrames /\ Onward.key = Innermost.key
               /\ Onward.types = Contents(Built) \o Tail(Innermost.types)
    <2>1. Built \in CTypes /\ Tail(Innermost.types) \in Seq(CTypes)
      BY <1>3, <1>4, TailOf DEF Built
    <2>2. Contents(Built) \in Seq(CTypes)
      BY <2>1, CTypesAssumption
    <2>3. Contents(Built) \o Tail(Innermost.types) \in Seq(CTypes)
      BY <2>1, <2>2, ConcatRange
    <2> QED BY <1>3, <2>1, <2>2, <2>3 DEF Onward, BuildFrames
  <1>5. ASSUME Innermost.types # <<>>
        PROVE  /\ Mentioned(Innermost.types) = Mentions[Built] \cup Mentioned(Tail(Innermost.types))
               /\ Mentioned(Onward.types) = Mentioned(Contents(Built)) \cup Mentioned(Tail(Innermost.types))
    <2>1. Head(Innermost.types) = Built
      BY DEF Built
    <2>2. Mentioned(Innermost.types) = Mentions[Built] \cup Mentioned(Tail(Innermost.types))
      BY <1>3, <1>5, <2>1, MentionedParts, Zenon
    <2>3. Mentioned(Onward.types) = Mentioned(Contents(Built)) \cup Mentioned(Tail(Innermost.types))
      <3>1. Onward.types = Contents(Built) \o Tail(Innermost.types)
        BY <1>4, <1>5
      <3>2. Mentioned(Contents(Built) \o Tail(Innermost.types))
              = Mentioned(Contents(Built)) \cup Mentioned(Tail(Innermost.types))
        BY <1>4, <1>5, MentionedParts
      <3> QED BY <3>1, <3>2, Zenon
    <2> QED BY <2>2, <2>3
  <1> QED BY <1>1, <1>2, <1>3, <1>4, <1>5

LEMMA PendingOnward ==
  ASSUME TypeOK, building # <<>>, Innermost.types # <<>>, Known \subseteq Known',
         Built.k \in {"record", "enum"} => Built.key \in Known',
         \A i \in DOMAIN building :
           i \in DOMAIN building' /\ building'[i] = IF i = Len(building) THEN Onward ELSE building[i]
  PROVE  Known \cup Pending \subseteq Known' \cup Pending'
  <1>1. SUFFICES ASSUME NEW i \in DOMAIN building, NEW x \in Mentioned(building[i].types)
                 PROVE  x \in Known' \cup Pending'
    BY DEF Pending
  <1>2. \A j \in DOMAIN building' : Mentioned(building'[j].types) \subseteq Pending'
    BY DEF Pending
  <1>3. CASE i # Len(building)
    BY <1>1, <1>2, <1>3
  <1>4. CASE i = Len(building)
    <2>1. building'[i] = Onward /\ i \in DOMAIN building' /\ building[i] = Innermost
      BY <1>4 DEF Innermost
    <2>2. Mentioned(Contents(Built)) \cup Mentioned(Tail(Innermost.types)) \subseteq Pending'
      BY <1>2, <2>1, InnermostFacts
    <2>3. x \in Mentions[Built] \cup Mentioned(Tail(Innermost.types))
      BY <1>1, <2>1, InnermostFacts
    <2>4. Built \in CTypes
      BY InnermostFacts
    <2>5. Mentions[Built] \subseteq Known' \cup Pending'
      BY <2>2, <2>4, MentionsOf
    <2> QED BY <2>2, <2>3, <2>5
  <1> QED BY <1>3, <1>4

(* While types are built nothing that is named is forgotten. *)
LEMMA NamesKept ==
  ASSUME NamesFollow, UNCHANGED <<header, next, functions>>, phase = "build", phase' = "build",
         Known \subseteq Known', Known \cup Pending \subseteq Known' \cup Pending',
         \A key \in Keys' : key \in Keys \/ Mentioned(TypesToBuild(key)) \subseteq Known' \cup Pending'
  PROVE  NamesFollow'
  <1>1. ASSUME NEW key \in Keys' PROVE Mentioned(TypesToBuild(key)') \subseteq Known' \cup Pending'
    <2>1. TypesToBuild(key)' = TypesToBuild(key)
      BY SameDefinition
    <2>2. key \in Keys => Mentioned(TypesToBuild(key)) \subseteq Known \cup Pending
      BY DEF NamesFollow
    <2> QED BY <2>1, <2>2
  <1>2. Decls' = Decls
    BY DEF Decls
  <1>3. /\ next \in DOMAIN Decls
        /\ Mentioned(Needs(Decls[next])) \subseteq Known \cup Pending
        /\ \A i \in DOMAIN Decls :
              i < next /\ Decls[i].target => Mentioned(Needs(Decls[i])) \subseteq Known
        /\ \A f \in DOMAIN functions : Mentioned(functions[f].types) \subseteq Known
    BY Zenon DEF NamesFollow
  <1>4. /\ next' \in DOMAIN Decls'
        /\ Mentioned(Needs(Decls'[next'])) \subseteq Known' \cup Pending'
    BY <1>2, <1>3
  <1>5. /\ \A i \in DOMAIN Decls' :
              i < next' /\ Decls'[i].target => Mentioned(Needs(Decls'[i])) \subseteq Known'
        /\ \A f \in DOMAIN functions' : Mentioned(functions'[f].types) \subseteq Known'
    BY <1>2, <1>3
  <1> QED BY <1>1, <1>4, <1>5 DEF NamesFollow

LEMMA QuietKept ==
  ASSUME PrintedFollow, phase \notin Printing, phase' \notin Printing, UNCHANGED printing
  PROVE  PrintedFollow' /\ FramesFollow' /\ stack' = <<>>
  <1>1. output' = {} /\ stack' = <<>> /\ printed' = {}
    BY DEF PrintedFollow, printing
  <1> QED BY <1>1 DEF PrintedFollow, FramesFollow

LEMMA KeysAreNames ==
  ASSUME TypeOK
  PROVE  NoKey \notin Keys /\ Keys \subseteq DOMAIN header.body
  BY HeaderFacts DEF TypeOK, NoKey

LEMMA EntriesKept ==
  ASSUME TypeOK, EntriesFollow, UNCHANGED <<header, table>>,
         \A i \in DOMAIN building : building[i].key # NoKey =>
           \E j \in DOMAIN building' : building'[j].key = building[i].key
  PROVE  EntriesFollow'
  <1>1. SUFFICES ASSUME NEW key \in Keys'
                 PROVE  \/ table'.records[key] = Entry(key, FieldsOf(key))'
                        \/ /\ table'.records[key] = Entry(key, <<>>)'
                           /\ \E j \in DOMAIN building' : building'[j].key = key
    BY DEF EntriesFollow
  <1>2. key \in Keys /\ key # NoKey
    BY KeysAreNames DEF Keys
  <1>3. Entry(key, FieldsOf(key))' = Entry(key, FieldsOf(key)) /\ Entry(key, <<>>)' = Entry(key, <<>>)
    BY SameEntry
  <1>4. \/ table.records[key] = Entry(key, FieldsOf(key))
        \/ /\ table.records[key] = Entry(key, <<>>)
           /\ \E i \in DOMAIN building : building[i].key = key
    BY <1>2 DEF EntriesFollow
  <1> QED BY <1>2, <1>3, <1>4

LEMMA ExportsKept ==
  ASSUME ExportsFollow, UNCHANGED <<header, exported, aliases>>,
         \A i \in DOMAIN Decls : i < next' /\ Decls[i].target => i < next
  PROVE  ExportsFollow'
  <1>1. Decls' = Decls
    BY DEF Decls
  <1>3. exported' \subseteq DOMAIN header'.tag
    BY DEF ExportsFollow
  <1>4. ASSUME NEW i \in DOMAIN Decls', NEW key \in DOMAIN header'.tag,
               i < next', Decls'[i].target, Exports(Decls[i], key)'
        PROVE  key \in exported'
    <2>1. i < next
      BY <1>1, <1>4
    <2>2. Exports(Decls[i], key)
      <3>1. Exports(Decls[i], key)' <=> Exports(Decls[i], key)
        BY <1>1, Zenon DEF Exports, Tag
      <3> QED BY <1>4, <3>1
    <2> QED BY <1>1, <1>4, <2>1, <2>2 DEF ExportsFollow
  <1>5. \A a \in aliases' : \E d \in Range(Decls') :
          d.what = "typedef" /\ d.type.k \in {"record", "enum"} /\ a = <<d.type.key, d.alias>>
    BY <1>1 DEF ExportsFollow
  <1> QED BY <1>3, <1>4, <1>5, Zenon DEF ExportsFollow

(* The tables are typed as they were. *)
LEMMA TypesKept ==
  ASSUME TypeOK, UNCHANGED <<header, table, functions>>, stack' \in Seq(Frames), next' \in Nat \ {0},
         phase' \in {"parse", "collect", "build", "refused"} \cup Printing,
         building' \in Seq(BuildFrames)
  PROVE  TypeOK'
  <1>1. Keys' = Keys /\ BuildFrames' = BuildFrames /\ Frames' = Frames
    BY DEF Keys, BuildFrames, Frames
  <1> QED BY <1>1 DEF TypeOK

(* Nothing is being built. *)
LEMMA NamesIdle ==
  ASSUME NamesFollow, building = <<>>, building' = <<>>, phase' # "build", UNCHANGED <<header, table>>,
         \A i \in DOMAIN Decls :
           i < next' /\ Decls[i].target => i < next \/ Mentioned(Needs(Decls[i])) \subseteq Known,
         \A f \in DOMAIN functions' : Mentioned(functions'[f].types) \subseteq Known
  PROVE  NamesFollow'
  <1>1. \A key : TypesToBuild(key)' = TypesToBuild(key)
    BY SameDefinition
  <1>2. Known' = Known /\ Pending' = Pending /\ Decls' = Decls /\ Keys' = Keys
    BY DEF Known, Pending, Decls, Keys
  <1>3. \A i \in DOMAIN Decls : i < next /\ Decls[i].target => Mentioned(Needs(Decls[i])) \subseteq Known
    BY DEF NamesFollow
  <1>4. \A key \in Keys : Mentioned(TypesToBuild(key)) \subseteq Known \cup Pending
    BY DEF NamesFollow
  <1> QED BY <1>1, <1>2, <1>3, <1>4 DEF NamesFollow

(* What the parts of the invariant say of a step that collects. *)
LEMMA CollectingKeeps ==
  ASSUME IInv, phase \in {"parse", "collect", "build"}, phase' \in {"refused", "collect", "build"},
         UNCHANGED <<header, table, exported, aliases, functions, printing>>,
         building' \in Seq(BuildFrames), next' \in Nat \ {0},
         \A i \in DOMAIN building : building[i].key # NoKey =>
           \E j \in DOMAIN building' : building'[j].key = building[i].key,
         \A i \in DOMAIN Decls : i < next' /\ Decls[i].target => i < next,
         NamesFollow'
  PROVE  IInv'
  <1>1. TypeOK /\ EntriesFollow /\ ExportsFollow /\ PrintedFollow
    BY DEF IInv
  <1>2. stack \in Seq(Frames)
    BY <1>1 DEF TypeOK
  <1>3. PrintedFollow' /\ FramesFollow' /\ stack' = <<>>
    BY <1>1, QuietKept DEF Printing
  <1>4. EntriesFollow'
    BY <1>1, EntriesKept
  <1>5. ExportsFollow'
    BY <1>1, ExportsKept
  <1>6. TypeOK'
    BY <1>1, <1>2, <1>3, TypesKept
  <1> QED BY <1>3, <1>4, <1>5, <1>6 DEF IInv

LEMMA ParseKeeps ==
  ASSUME IInv, Parse
  PROVE  IInv'
  <1>1. /\ phase = "parse" /\ phase' \in {"refused", "collect"} /\ building = <<>>
        /\ UNCHANGED <<header, mode, next, building, table, exported, aliases, functions, printing>>
    BY DEF Parse, IInv, NamesFollow, tables
  <1>2. TypeOK /\ NamesFollow
    BY DEF IInv
  <1>3. next \in Nat \ {0} /\ building \in Seq(BuildFrames)
    BY <1>2 DEF TypeOK
  <1>4. NamesFollow'
    <2>1. \A f \in DOMAIN functions' : Mentioned(functions'[f].types) \subseteq Known
      BY <1>1, <1>2 DEF NamesFollow
    <2> QED BY <1>1, <1>2, <2>1, NamesIdle
  <1> QED BY <1>1, <1>3, <1>4, CollectingKeeps

LEMMA SkipOtherKeeps ==
  ASSUME IInv, SkipOther
  PROVE  IInv'
  <1>1. /\ phase = "collect" /\ phase' = "collect" /\ building = <<>> /\ next' = next + 1 /\ ~Decls[next].target
        /\ UNCHANGED <<header, mode, building, table, exported, aliases, functions, printing>>
    BY DEF SkipOther, IInv, NamesFollow, tables
  <1>2. TypeOK /\ NamesFollow
    BY DEF IInv
  <1>3. next \in Nat \ {0} /\ building \in Seq(BuildFrames) /\ DOMAIN Decls \subseteq Nat
    BY <1>2, HeaderFacts DEF TypeOK
  <1>4. \A i \in DOMAIN Decls : i < next' /\ Decls[i].target => i < next
    BY <1>1, <1>3
  <1>5. NamesFollow'
    <2>1. \A f \in DOMAIN functions' : Mentioned(functions'[f].types) \subseteq Known
      BY <1>1, <1>2 DEF NamesFollow
    <2> QED BY <1>1, <1>2, <1>4, <2>1, NamesIdle
  <1>6. next' \in Nat \ {0}
    BY <1>1, <1>3
  <1> QED BY <1>1, <1>3, <1>4, <1>5, <1>6, CollectingKeeps

LEMMA VisitKeeps ==
  ASSUME IInv, Visit
  PROVE  IInv'
  <1>1. /\ phase = "collect" /\ phase' = "build" /\ building = <<>> /\ next <= Len(Decls)
        /\ building' = <<[key |-> NoKey, types |-> Needs(Decls[next])]>>
        /\ UNCHANGED <<header, mode, next, table, exported, aliases, functions, printing>>
    BY DEF Visit, IInv, NamesFollow, tables
  <1>2. TypeOK /\ NamesFollow
    BY DEF IInv
  <1>3. next \in Nat \ {0} /\ next \in DOMAIN Decls /\ Needs(Decls[next]) \in Seq(CTypes)
    BY <1>1, <1>2, HeaderFacts DEF TypeOK
  <1>4. building' \in Seq(BuildFrames)
    BY <1>1, <1>3 DEF BuildFrames
  <1>5. NamesFollow'
    <2>1. \A key : TypesToBuild(key)' = TypesToBuild(key)
      BY <1>1, SameDefinition
    <2>2. Known' = Known /\ Decls' = Decls /\ Keys' = Keys /\ Pending = {}
      BY <1>1 DEF Known, Decls, Keys, Pending
    <2>3. Pending' = Mentioned(Needs(Decls[next]))
      BY <1>1 DEF Pending
    <2>4. \A key \in Keys : Mentioned(TypesToBuild(key)) \subseteq Known \cup Pending
      BY <1>2 DEF NamesFollow
    <2>5. /\ \A i \in DOMAIN Decls :
                i < next /\ Decls[i].target => Mentioned(Needs(Decls[i])) \subseteq Known
          /\ \A f \in DOMAIN functions : Mentioned(functions[f].types) \subseteq Known
      BY <1>2 DEF NamesFollow
    <2> QED BY <1>1, <1>3, <2>1, <2>2, <2>3, <2>4, <2>5 DEF NamesFollow
  <1> QED BY <1>1, <1>3, <1>4, <1>5, CollectingKeeps

(* Building changes only what is being built, and the tables of types. *)
LEMMA BuildingKeeps ==
  ASSUME IInv, phase = "build", phase' = "build",
         UNCHANGED <<header, next, exported, aliases, functions, printing>>,
         table' = [records |-> [key \in Keys' |-> table'.records[key]], enums |-> table'.enums],
         IsFiniteSet(Keys'), Keys \subseteq Keys', Keys' \subseteq DOMAIN header.body,
         table.enums \subseteq table'.enums, table'.enums \subseteq DOMAIN header.tag \ DOMAIN header.body,
         building' \in Seq(BuildFrames)',
         \A key \in Keys' :
           \/ table'.records[key] = Entry(key, FieldsOf(key))
           \/ /\ table'.records[key] = Entry(key, <<>>)
              /\ \E i \in DOMAIN building' : building'[i].key = key,
         Known \cup Pending \subseteq Known' \cup Pending',
         \A key \in Keys' : key \in Keys \/ Mentioned(TypesToBuild(key)) \subseteq Known' \cup Pending'
  PROVE  IInv'
  <1>1. TypeOK /\ NamesFollow /\ ExportsFollow /\ PrintedFollow
    BY DEF IInv
  <1>2. PrintedFollow' /\ FramesFollow' /\ stack' = <<>>
    BY <1>1, QuietKept DEF Printing
  <1>3. EntriesFollow'
    <2>1. \A key : Entry(key, FieldsOf(key))' = Entry(key, FieldsOf(key)) /\ Entry(key, <<>>)' = Entry(key, <<>>)
      BY SameEntry
    <2> QED BY <2>1 DEF EntriesFollow
  <1>4. ExportsFollow'
    BY <1>1, ExportsKept
  <1>5. Known \subseteq Known'
    BY DEF Known
  <1>6. NamesFollow'
    BY <1>1, <1>5, NamesKept
  <1>7. TypeOK'
    <2>1. header' \in Headers /\ next' \in Nat \ {0}
      BY <1>1 DEF TypeOK
    <2>2. \A f \in DOMAIN functions' : functions'[f].types \in Seq(CTypes)
      BY <1>1 DEF TypeOK
    <2>3. stack' \in Seq(Frames)'
      BY <1>2
    <2> QED BY <2>1, <2>2, <2>3 DEF TypeOK
  <1> QED BY <1>2, <1>3, <1>4, <1>6, <1>7 DEF IInv

LEMMA BuildTypeKeeps ==
  ASSUME IInv, BuildType
  PROVE  IInv'
  <1>1. TypeOK /\ EntriesFollow
    BY DEF IInv
  <1>2. /\ phase = "build" /\ phase' = "build" /\ building # <<>> /\ Innermost.types # <<>>
        /\ Built.k = "record" => Built.key \in Keys
        /\ building' = Append(Front(building), Onward)
        /\ table' = IF Built.k = "enum" THEN [table EXCEPT !.enums = @ \cup {Built.key}] ELSE table
        /\ UNCHANGED <<header, next, exported, aliases, functions, printing>>
    BY DEF BuildType, BuildingType, InTable, Keys
  <1>3. Built \in CTypes /\ Onward \in BuildFrames /\ Onward.key = Innermost.key
    BY <1>1, <1>2, InnermostFacts
  <1>4. table = [records |-> [key \in Keys |-> table.records[key]], enums |-> table.enums]
    BY <1>1 DEF TypeOK
  <1>5. table' = [records |-> table.records,
                  enums |-> IF Built.k = "enum" THEN table.enums \cup {Built.key} ELSE table.enums]
    BY <1>2, <1>4
  <1>6. Keys' = Keys /\ table'.records = table.records
    BY <1>5 DEF Keys
  <1>7. table'.enums = IF Built.k = "enum" THEN table.enums \cup {Built.key} ELSE table.enums
    BY <1>5
  <1>8. table' = [records |-> [key \in Keys' |-> table'.records[key]], enums |-> table'.enums]
    <2>1. table.records = [key \in Keys |-> table.records[key]]
      BY <1>4
    <2> QED BY <1>5, <1>6, <1>7, <2>1
  <1>9. /\ table'.enums \subseteq DOMAIN header.tag \ DOMAIN header.body
        /\ IsFiniteSet(Keys) /\ Keys \subseteq DOMAIN header.body
    <2>1. header \in Headers /\ table.enums \subseteq DOMAIN header.tag \ DOMAIN header.body
      BY <1>1 DEF TypeOK
    <2>2. Built.k = "enum" => Built.key \in DOMAIN header.tag \ DOMAIN header.body
      BY <1>3, <2>1, NamesOfTypes
    <2> QED BY <1>1, <1>7, <2>1, <2>2 DEF TypeOK
  <1>10. /\ building' \in Seq(BuildFrames) /\ BuildFrames' = BuildFrames
         /\ \A i \in DOMAIN building :
              i \in DOMAIN building' /\ building'[i] = IF i = Len(building) THEN Onward ELSE building[i]
    <2>1. building \in Seq(BuildFrames)
      BY <1>1 DEF TypeOK
    <2> QED BY <1>2, <1>3, <1>6, <2>1, Replaced DEF BuildFrames
  <1>11. Known \subseteq Known' /\ Built.k \in {"record", "enum"} => Built.key \in Known'
    BY <1>2, <1>6, <1>7 DEF Known
  <1>12. Known \cup Pending \subseteq Known' \cup Pending'
    <2>1. Known \subseteq Known'
      BY <1>6, <1>7 DEF Known
    <2> QED BY <1>1, <1>2, <1>10, <1>11, <2>1, PendingOnward
  <1>13. ASSUME NEW key \in Keys'
         PROVE  \/ table'.records[key] = Entry(key, FieldsOf(key))
                \/ /\ table'.records[key] = Entry(key, <<>>)
                   /\ \E i \in DOMAIN building' : building'[i].key = key
    <2>1. \A i \in DOMAIN building : building'[i].key = building[i].key
      BY <1>3, <1>10 DEF Innermost
    <2> QED BY <1>1, <1>6, <1>10, <2>1 DEF EntriesFollow
  <1> QED BY <1>2, <1>6, <1>7, <1>8, <1>9, <1>10, <1>12, <1>13, BuildingKeeps

LEMMA BuildRecordKeeps ==
  ASSUME IInv, BuildRecord
  PROVE  IInv'
  <1> DEFINE new == [key |-> Built.key, types |-> TypesToBuild(Built.key)]
  <1>1. TypeOK /\ EntriesFollow
    BY DEF IInv
  <1>2. /\ phase = "build" /\ phase' = "build" /\ building # <<>> /\ Innermost.types # <<>>
        /\ Built.k = "record" /\ Built.key \notin Keys
        /\ building' = Front(building) \o <<Onward, new>>
        /\ table' = [table EXCEPT !.records =
             With(@, Built.key, [complete |-> IsDefinition(Built.key), fields |-> <<>>])]
        /\ UNCHANGED <<header, next, exported, aliases, functions, printing>>
    BY DEF BuildRecord, BuildingType, InTable, Keys
  <1>3. Built \in CTypes /\ Onward \in BuildFrames /\ Onward.key = Innermost.key
    BY <1>1, <1>2, InnermostFacts
  <1>4. /\ table = [records |-> [key \in Keys |-> table.records[key]], enums |-> table.enums]
        /\ header \in Headers /\ table.enums \subseteq DOMAIN header.tag \ DOMAIN header.body
        /\ IsFiniteSet(Keys) /\ Keys \subseteq DOMAIN header.body
        /\ building \in Seq(BuildFrames)
    BY <1>1 DEF TypeOK
  <1>5. Built.key \in DOMAIN header.body
    BY <1>2, <1>3, <1>4, NamesOfTypes
  <1>6. table' = [records |-> With(table.records, Built.key, Entry(Built.key, <<>>)), enums |-> table.enums]
    BY <1>2, <1>4 DEF Entry
  <1>7. /\ Keys' = Keys \cup {Built.key} /\ table'.enums = table.enums
        /\ table'.records = [k \in Keys' |-> IF k = Built.key THEN Entry(Built.key, <<>>) ELSE table.records[k]]
    <2>1. table'.records = With(table.records, Built.key, Entry(Built.key, <<>>)) /\ table'.enums = table.enums
      BY <1>6
    <2> QED BY <2>1 DEF Keys, With
  <1>8. table' = [records |-> [key \in Keys' |-> table'.records[key]], enums |-> table'.enums]
    BY <1>6, <1>7
  <1>9. IsFiniteSet(Keys') /\ Keys \subseteq Keys' /\ Keys' \subseteq DOMAIN header.body
    BY <1>4, <1>5, <1>7, FS_AddElement
  <1>10. /\ building' \in Seq(BuildFrames') /\ DOMAIN building' = 1 .. Len(building) + 1
         /\ DOMAIN building = 1 .. Len(building) /\ Len(building) \in Nat
         /\ \A i \in 1 .. Len(building) + 1 :
              building'[i] = IF i = Len(building) + 1 THEN new
                             ELSE IF i = Len(building) THEN Onward ELSE building[i]
    <2>1. BuildFrames \subseteq BuildFrames'
      BY <1>9 DEF BuildFrames
    <2>2. new \in BuildFrames'
      BY <1>4, <1>5, <1>7, BuiltTypes DEF BuildFrames
    <2>3. building \in Seq(BuildFrames') /\ Onward \in BuildFrames'
      BY <1>3, <1>4, <2>1
    <2> HIDE DEF new
    <2>4. /\ building' \in Seq(BuildFrames') /\ Len(building') = Len(building) + 1
          /\ \A i \in 1 .. Len(building) + 1 :
              building'[i] = IF i = Len(building) + 1 THEN new
                             ELSE IF i = Len(building) THEN Onward ELSE building[i]
      BY <1>2, <2>2, <2>3, Pushed
    <2> QED BY <1>4, <2>4
  <1> HIDE DEF new
  <1>11. /\ Len(building) + 1 \in DOMAIN building' /\ building'[Len(building) + 1] = new
         /\ \A i \in DOMAIN building :
              i \in DOMAIN building' /\ building'[i] = IF i = Len(building) THEN Onward ELSE building[i]
    <2>1. \A n \in Nat : /\ n + 1 \in 1 .. n + 1
                         /\ \A i \in 1 .. n : i \in 1 .. n + 1 /\ i # n + 1
      OBVIOUS
    <2>2. Len(building) \in Nat
      BY <1>10
    <2>3. /\ Len(building) + 1 \in 1 .. Len(building) + 1
          /\ \A i \in 1 .. Len(building) : i \in 1 .. Len(building) + 1 /\ i # Len(building) + 1
      BY <2>1, <2>2
    <2> QED BY <1>10, <2>3
  <1>12. Known \cup Pending \subseteq Known' \cup Pending'
    <2>1. Known \subseteq Known' /\ Built.key \in Known'
      BY <1>7 DEF Known
    <2> QED BY <1>1, <1>2, <1>11, <2>1, PendingOnward
  <1>13. ASSUME NEW key \in Keys' PROVE key \in Keys \/ Mentioned(TypesToBuild(key)) \subseteq Known' \cup Pending'
    <2>1. Mentioned(new.types) \subseteq Pending'
      BY <1>11 DEF Pending
    <2> QED BY <1>7, <2>1 DEF new
  <1>14. ASSUME NEW key \in Keys'
         PROVE  \/ table'.records[key] = Entry(key, FieldsOf(key))
                \/ /\ table'.records[key] = Entry(key, <<>>)
                   /\ \E i \in DOMAIN building' : building'[i].key = key
    <2>1. CASE key = Built.key
      <3>1. Len(building) + 1 \in DOMAIN building' /\ building'[Len(building) + 1].key = Built.key
        BY <1>11 DEF new
      <3> QED BY <1>7, <2>1, <3>1
    <2>2. CASE key # Built.key
      <3>1. \A i \in DOMAIN building : i \in DOMAIN building' /\ building'[i].key = building[i].key
        BY <1>3, <1>11 DEF Innermost
      <3>2. key \in Keys /\ table'.records[key] = table.records[key]
        BY <1>7, <2>2
      <3> QED BY <1>1, <3>1, <3>2 DEF EntriesFollow
    <2> QED BY <2>1, <2>2
  <1> QED BY <1>2, <1>4, <1>7, <1>8, <1>9, <1>10, <1>12, <1>13, <1>14, BuildingKeeps

LEMMA EndRecordKeeps ==
  ASSUME IInv, EndRecord
  PROVE  IInv'
  <1>1. TypeOK /\ EntriesFollow
    BY DEF IInv
  <1>2. /\ phase = "build" /\ phase' = "build" /\ building # <<>> /\ Innermost.types = <<>>
        /\ building' = Front(building)
        /\ table' = IF Innermost.key = NoKey THEN table
                    ELSE [table EXCEPT !.records[Innermost.key].fields = FieldsOf(Innermost.key)]
        /\ UNCHANGED <<header, next, exported, aliases, functions, printing>>
    BY DEF EndRecord
  <1>3. /\ Innermost \in BuildFrames /\ Innermost = building[Len(building)]
        /\ Len(building) \in Nat \ {0} /\ DOMAIN building = 1 .. Len(building)
    BY <1>1, <1>2, InnermostFacts DEF Innermost
  <1>4. /\ table = [records |-> [key \in Keys |-> table.records[key]], enums |-> table.enums]
        /\ header \in Headers /\ table.enums \subseteq DOMAIN header.tag \ DOMAIN header.body
        /\ IsFiniteSet(Keys) /\ Keys \subseteq DOMAIN header.body
        /\ building \in Seq(BuildFrames)
    BY <1>1 DEF TypeOK
  <1>5. Innermost.key # NoKey =>
          /\ Innermost.key \in Keys
          /\ table.records[Innermost.key] \in {Entry(Innermost.key, FieldsOf(Innermost.key)), Entry(Innermost.key, <<>>)}
    BY <1>1, <1>3 DEF BuildFrames, EntriesFollow
  <1>6. /\ table' = [records |-> [key \in Keys |-> table'.records[key]], enums |-> table.enums]
        /\ Keys' = Keys /\ table'.enums = table.enums
        /\ \A key \in Keys : table'.records[key] = IF key = Innermost.key THEN Entry(key, FieldsOf(key))
                                                    ELSE table.records[key]
    <2>1. CASE Innermost.key = NoKey
      <3>1. \A key \in Keys : key # Innermost.key
        BY <1>1, <2>1, KeysAreNames
      <3> QED BY <1>2, <1>4, <2>1, <3>1 DEF Keys
    <2>2. CASE Innermost.key # NoKey
      <3> DEFINE k == Innermost.key
      <3>1. k \in Keys /\ table' = [table EXCEPT !.records[k].fields = FieldsOf(k)]
        BY <1>2, <1>5, <2>2
      <3>2. [table.records[k] EXCEPT !.fields = FieldsOf(k)] = Entry(k, FieldsOf(k))
        BY <1>5, <2>2 DEF Entry
      <3>3. table' = [records |-> [table.records EXCEPT ![k] = Entry(k, FieldsOf(k))], enums |-> table.enums]
        BY <1>4, <3>1, <3>2
      <3> HIDE DEF k
      <3>4. table'.records = [table.records EXCEPT ![k] = Entry(k, FieldsOf(k))] /\ table'.enums = table.enums
        BY <3>3
      <3>5. table.records = [key \in Keys |-> table.records[key]]
        BY <1>4
      <3>6. Keys' = Keys /\ table'.records = [key \in Keys |-> table'.records[key]]
        BY <3>4, <3>5 DEF Keys
      <3>7. \A key \in Keys : table'.records[key] = IF key = k THEN Entry(key, FieldsOf(key)) ELSE table.records[key]
        BY <3>1, <3>4, <3>5
      <3> QED BY <3>3, <3>4, <3>6, <3>7 DEF k
    <2> QED BY <2>1, <2>2
  <1>7. /\ building' \in Seq(BuildFrames) /\ BuildFrames' = BuildFrames
        /\ DOMAIN building' = 1 .. Len(building) - 1
        /\ \A i \in 1 .. Len(building) - 1 : building'[i] = building[i]
    <2>1. /\ Front(building) \in Seq(BuildFrames) /\ Len(Front(building)) = Len(building) - 1
          /\ \A i \in 1 .. Len(building) - 1 : Front(building)[i] = building[i]
      BY <1>2, <1>4, FrontOf
    <2> QED BY <1>2, <1>3, <1>6, <2>1 DEF BuildFrames
  <1>8. Known \cup Pending \subseteq Known' \cup Pending'
    <2>1. Known' = Known
      BY <1>6 DEF Known
    <2>2. Mentioned(building[Len(building)].types) = {}
      BY <1>2, <1>3, MentionedParts
    <2>3. ASSUME NEW i \in DOMAIN building PROVE Mentioned(building[i].types) \subseteq Pending'
      <3>1. i = Len(building) \/ (i \in DOMAIN building' /\ building'[i] = building[i])
        BY <1>3, <1>7
      <3> QED BY <2>2, <3>1 DEF Pending
    <2> QED BY <2>1, <2>3 DEF Pending
  <1>9. ASSUME NEW key \in Keys'
        PROVE  \/ table'.records[key] = Entry(key, FieldsOf(key))
               \/ /\ table'.records[key] = Entry(key, <<>>)
                  /\ \E i \in DOMAIN building' : building'[i].key = key
    <2>1. CASE key = Innermost.key
      BY <1>6, <2>1
    <2>2. CASE key # Innermost.key
      <3>1. \A i \in DOMAIN building : building[i].key = key => i \in DOMAIN building' /\ building'[i].key = key
        BY <1>3, <1>7, <2>2
      <3>2. key \in Keys /\ table'.records[key] = table.records[key]
        BY <1>6, <2>2
      <3> QED BY <1>1, <3>1, <3>2 DEF EntriesFollow
    <2> QED BY <2>1, <2>2
  <1> QED BY <1>2, <1>4, <1>6, <1>7, <1>8, <1>9, BuildingKeeps

(* Entering a declaration *)

Aliased(a, d) == d.what = "typedef" /\ d.type.k \in {"record", "enum"} /\ a = <<d.type.key, d.alias>>

LEMMA VisitedFacts ==
  ASSUME IInv, NEW what, Visited(what)
  PROVE  /\ header \in Headers /\ next \in DOMAIN Decls /\ Decls[next] \in Range(Decls) /\ Decls[next].what = what
         /\ Needs(Decls[next]) \in Seq(CTypes) /\ Mentioned(Needs(Decls[next])) \subseteq Known
         /\ \A f \in DOMAIN functions : functions[f].types \in Seq(CTypes) /\ Mentioned(functions[f].types) \subseteq Known
         /\ exported \subseteq DOMAIN header.tag
  <1>1. phase = "build" /\ building = <<>> /\ Decls[next].what = what
    BY DEF Visited
  <1>2. header \in Headers /\ \A f \in DOMAIN functions : functions[f].types \in Seq(CTypes)
    BY DEF IInv, TypeOK
  <1>3. Pending = {}
    BY <1>1 DEF Pending
  <1>4. /\ next \in DOMAIN Decls /\ Mentioned(Needs(Decls[next])) \subseteq Known \cup Pending
        /\ \A f \in DOMAIN functions : Mentioned(functions[f].types) \subseteq Known
    BY <1>1 DEF IInv, NamesFollow
  <1>5. Needs(Decls[next]) \in Seq(CTypes) /\ Decls[next] \in Range(Decls)
    BY <1>2, <1>4, HeaderFacts
  <1>6. exported \subseteq DOMAIN header.tag
    BY DEF IInv, ExportsFollow
  <1> QED BY <1>1, <1>2, <1>3, <1>4, <1>5, <1>6

LEMMA VisitedKeeps ==
  ASSUME IInv, NEW what, Visited(what),
         \A f \in DOMAIN functions' :
           functions'[f].types \in Seq(CTypes) /\ Mentioned(functions'[f].types) \subseteq Known,
         exported \subseteq exported', exported' \subseteq DOMAIN header.tag,
         \A key \in DOMAIN header.tag : Exports(Decls[next], key) => key \in exported',
         \A a \in aliases' : a \in aliases \/ Aliased(a, Decls[next])
  PROVE  IInv'
  <1>1. TypeOK /\ EntriesFollow /\ NamesFollow /\ ExportsFollow /\ PrintedFollow
    BY DEF IInv
  <1>2. /\ phase = "build" /\ phase' = "collect" /\ building = <<>> /\ building' = <<>> /\ next' = next + 1
        /\ UNCHANGED <<header, table, printing>>
    BY DEF Visited
  <1>3. header \in Headers /\ next \in Nat \ {0} /\ DOMAIN Decls \subseteq Nat
    BY <1>1, HeaderFacts DEF TypeOK
  <1>4. PrintedFollow' /\ FramesFollow' /\ stack' = <<>>
    BY <1>1, <1>2, QuietKept DEF Printing
  <1>5. EntriesFollow'
    BY <1>1, <1>2, EntriesKept
  <1>6. ASSUME NEW i \in DOMAIN Decls, i < next' PROVE i < next \/ i = next
    BY <1>2, <1>3, <1>6
  <1>7. NamesFollow'
    <2>1. Mentioned(Needs(Decls[next])) \subseteq Known
      BY VisitedFacts
    <2> QED BY <1>1, <1>2, <1>6, <2>1, NamesIdle
  <1>8. ExportsFollow'
    <2>1. Decls' = Decls
      BY <1>2 DEF Decls
    <2>2. ASSUME NEW i \in DOMAIN Decls, NEW key \in DOMAIN header.tag,
                 i < next', Decls[i].target, Exports(Decls[i], key)
          PROVE  key \in exported'
      BY <1>1, <1>6, <2>2 DEF ExportsFollow
    <2>3. \A i \in DOMAIN Decls : \A key : (Exports(Decls[i], key)' <=> Exports(Decls[i], key))
      BY <1>2, <2>1, Zenon DEF Exports, Tag
    <2>4. \A a \in aliases' : \E d \in Range(Decls) : Aliased(a, d)
      <3>1. Decls[next] \in Range(Decls)
        BY VisitedFacts
      <3>2. \A a \in aliases : \E d \in Range(Decls) : Aliased(a, d)
        BY <1>1 DEF ExportsFollow, Aliased
      <3> QED BY <3>1, <3>2
    <2> QED BY <1>2, <2>1, <2>2, <2>3, <2>4 DEF ExportsFollow, Aliased
  <1>9. TypeOK'
    <2>1. Keys' = Keys /\ BuildFrames' = BuildFrames /\ Frames' = Frames
      BY <1>2 DEF Keys, BuildFrames, Frames
    <2>2. next' \in Nat \ {0}
      BY <1>2, <1>3
    <2> QED BY <1>1, <1>2, <1>4, <2>1, <2>2 DEF TypeOK
  <1> QED BY <1>4, <1>5, <1>7, <1>8, <1>9 DEF IInv

LEMMA CollectFunctionKeeps ==
  ASSUME IInv, CollectFunction
  PROVE  IInv'
  <1> DEFINE d == Decls[next]
  <1>1. Visited("function") /\ UNCHANGED <<exported, aliases>>
    BY DEF CollectFunction
  <1>2. /\ d.what = "function" /\ exported \subseteq DOMAIN header.tag
        /\ Needs(d) \in Seq(CTypes) /\ Mentioned(Needs(d)) \subseteq Known
        /\ \A f \in DOMAIN functions : functions[f].types \in Seq(CTypes) /\ Mentioned(functions[f].types) \subseteq Known
    BY <1>1, VisitedFacts
  <1>3. ASSUME NEW f \in DOMAIN functions'
        PROVE  functions'[f].types \in Seq(CTypes) /\ Mentioned(functions'[f].types) \subseteq Known
    <2>1. CASE ~d.external
      BY <1>2, <2>1 DEF CollectFunction
    <2>2. CASE d.external
      <3>1. Needs(d) = d.types
        BY <1>2, <2>2 DEF Needs
      <3>2. PICK fn : fn.types = Signature(d.types) /\ functions' = With(functions, d.key, fn)
        <4>1. functions' = With(functions, d.key,
                 [types |-> Signature(d.types), variadic |-> d.variadic,
                  supported |-> \A t \in Range(Signature(d.types)) : Kind(t) \in Direct])
          BY <2>2 DEF CollectFunction
        <4>2. \A a, b, c : [types |-> a, variadic |-> b, supported |-> c].types = a
          OBVIOUS
        <4> QED BY <4>1, <4>2, Zenon
      <3>3. functions'[f].types = Signature(d.types) \/ (f \in DOMAIN functions /\ functions'[f] = functions[f])
        BY <3>2 DEF With
      <3>4. Signature(d.types) \in Seq(CTypes) /\ Mentioned(Signature(d.types)) \subseteq Known
        BY <1>2, <3>1, SignatureFacts
      <3> QED BY <1>2, <3>3, <3>4
    <2> QED BY <2>1, <2>2
  <1>4. \A key : ~Exports(d, key)
    BY <1>2 DEF Exports
  <1> QED BY <1>1, <1>2, <1>3, <1>4, VisitedKeeps

(* A tag or an alias exports what the declaration needs. *)
LEMMA NeededNames ==
  ASSUME header \in Headers, NEW d, Needs(d) \in Seq(CTypes)
  PROVE  /\ d.what \in {"record", "enum"} => d.key \in DOMAIN header.tag
         /\ d.what = "typedef" /\ d.type.k \in {"record", "enum"} => d.type.key \in DOMAIN header.tag
  <1>1. ASSUME d.what \in {"record", "enum"} PROVE d.key \in DOMAIN header.tag
    <2>1. Needs(d) = <<[k |-> d.what, key |-> d.key]>>
      BY <1>1 DEF Needs
    <2>2. [k |-> d.what, key |-> d.key] \in CTypes
      BY <2>1
    <2> QED BY <1>1, <2>2, NamesOfTypes
  <1>2. ASSUME d.what = "typedef", d.type.k \in {"record", "enum"} PROVE d.type.key \in DOMAIN header.tag
    <2>1. Needs(d) = <<d.type>>
      BY <1>2 DEF Needs
    <2>2. d.type \in CTypes
      BY <2>1
    <2> QED BY <1>2, <2>2, NamesOfTypes
  <1> QED BY <1>1, <1>2

LEMMA CollectRecordKeeps ==
  ASSUME IInv, CollectRecord \/ CollectEnum
  PROVE  IInv'
  <1> DEFINE d == Decls[next]
  <1>1. PICK what \in {"record", "enum"} : Visited(what)
    BY DEF CollectRecord, CollectEnum
  <1>2. /\ exported' = IF Tag(d.key) = NoName THEN exported ELSE exported \cup {d.key}
        /\ UNCHANGED <<aliases, functions>>
    BY DEF CollectRecord, CollectEnum, Export
  <1>3. d.what = what /\ header \in Headers /\ Needs(d) \in Seq(CTypes) /\ exported \subseteq DOMAIN header.tag
    BY <1>1, VisitedFacts
  <1>4. \A f \in DOMAIN functions' :
          functions'[f].types \in Seq(CTypes) /\ Mentioned(functions'[f].types) \subseteq Known
    BY <1>1, <1>2, VisitedFacts
  <1>5. exported' \subseteq DOMAIN header.tag /\ exported \subseteq exported'
    BY <1>1, <1>2, <1>3, NeededNames
  <1>6. \A key : Exports(d, key) => key \in exported'
    BY <1>1, <1>2, <1>3 DEF Exports
  <1> QED BY <1>1, <1>2, <1>4, <1>5, <1>6, VisitedKeeps

LEMMA CollectTypedefKeeps ==
  ASSUME IInv, CollectTypedef
  PROVE  IInv'
  <1> DEFINE d == Decls[next]
  <1>1. Visited("typedef") /\ UNCHANGED functions
    BY DEF CollectTypedef
  <1>2. d.what = "typedef" /\ header \in Headers /\ Needs(d) \in Seq(CTypes) /\ exported \subseteq DOMAIN header.tag
    BY <1>1, VisitedFacts
  <1>3. \A f \in DOMAIN functions' :
          functions'[f].types \in Seq(CTypes) /\ Mentioned(functions'[f].types) \subseteq Known
    BY <1>1, VisitedFacts
  <1>4. CASE d.type.k \in {"record", "enum"}
    <2>1. exported' = exported \cup {d.type.key} /\ aliases' = aliases \cup {<<d.type.key, d.alias>>}
      BY <1>4 DEF CollectTypedef
    <2>2. exported' \subseteq DOMAIN header.tag /\ exported \subseteq exported'
      BY <1>2, <1>4, <2>1, NeededNames
    <2>3. \A key : Exports(d, key) => key \in exported'
      BY <1>2, <2>1 DEF Exports
    <2>4. \A a \in aliases' : a \in aliases \/ Aliased(a, d)
      BY <1>2, <1>4, <2>1 DEF Aliased
    <2> QED BY <1>1, <1>3, <2>2, <2>3, <2>4, VisitedKeeps
  <1>5. CASE d.type.k \notin {"record", "enum"}
    <2>1. UNCHANGED <<exported, aliases>>
      BY <1>5 DEF CollectTypedef
    <2>2. \A key : ~Exports(d, key)
      BY <1>2, <1>5 DEF Exports
    <2> QED BY <1>1, <1>2, <1>3, <2>1, <2>2, VisitedKeeps
  <1> QED BY <1>4, <1>5

-----------------------------------------------------------------------------
(* Printing *)

LEMMA FollowsBodies ==
  ASSUME header \in Headers, NEW t \in CTypes, NEW style
  PROVE  Follows(style, t) \subseteq DOMAIN header.body
  <1>1. AbiFollows[t] \subseteq DOMAIN header.body
    <2> DEFINE P == {u \in CTypes : AbiFollows[u] \subseteq DOMAIN header.body}
    <2>1. ASSUME NEW u \in CTypes, Range(Contents(u)) \subseteq P PROVE u \in P
      <3>1. u.k = "record" => u.key \in DOMAIN header.body
        BY NamesOfTypes
      <3>2. UNION {AbiFollows[c] : c \in Range(Contents(u))} \subseteq DOMAIN header.body
        BY <2>1
      <3> QED BY <3>1, <3>2, AbiFollowsDef
    <2>2. P \in SUBSET CTypes
      OBVIOUS
    <2> HIDE DEF P
    <2>3. P = CTypes
      BY <2>1, <2>2, TypeInduction
    <2> QED BY <2>3 DEF P
  <1>2. SchemaFollows(t) \subseteq DOMAIN header.body
    <2>1. CASE t.k = "record"
      BY <2>1, NamesOfTypes DEF SchemaFollows
    <2>2. CASE t.k = "pointer" /\ t.to.k = "record"
      <3>1. Contents(t) = <<t.to>> /\ Contents(t) \in Seq(CTypes)
        BY <2>2, CTypesAssumption DEF Contents
      <3>2. t.to \in CTypes
        BY <3>1
      <3> QED BY <2>2, <3>2, NamesOfTypes DEF SchemaFollows
    <2>3. CASE t.k # "record" /\ ~(t.k = "pointer" /\ t.to.k = "record")
      BY <2>3 DEF SchemaFollows
    <2> QED BY <2>1, <2>2, <2>3
  <1> QED BY <1>1, <1>2 DEF Follows

LEMMA InsideClosed ==
  ASSUME header \in Headers, NEW style \in {"schema", "abi"}, NEW key \in DOMAIN header.body
  PROVE  /\ FieldsFollow(style, key) \subseteq Inside[style][key]
         /\ \A k \in Inside[style][key] : FieldsFollow(style, k) \subseteq Inside[style][key]
  <1>1. ASSUME NEW k \in DOMAIN header.body PROVE FieldsFollow(style, k) \subseteq DOMAIN header.body
    <2>1. Range(TypesToBuild(k)) \subseteq CTypes
      BY BuiltTypes, RangeOf
    <2> QED BY <2>1, FollowsBodies DEF FieldsFollow
  <1>2. Inside[style][key] =
          {k \in DOMAIN header.body : \A keys \in SUBSET DOMAIN header.body :
             FieldsFollow(style, key) \subseteq keys /\ Closed(style, keys) => k \in keys}
    BY DEF Inside
  <1>3. FieldsFollow(style, key) \subseteq Inside[style][key]
    BY <1>1, <1>2
  <1>4. ASSUME NEW k \in Inside[style][key] PROVE FieldsFollow(style, k) \subseteq Inside[style][key]
    <2>1. k \in DOMAIN header.body
      BY <1>2
    <2>2. ASSUME NEW keys \in SUBSET DOMAIN header.body,
                 FieldsFollow(style, key) \subseteq keys, Closed(style, keys)
          PROVE  FieldsFollow(style, k) \subseteq keys
      BY <1>2, <2>2 DEF Closed
    <2> QED BY <1>1, <1>2, <2>1, <2>2
  <1> QED BY <1>3, <1>4

(* Once nothing is being built, the tables hold what the header has. *)
LEMMA EntryFacts ==
  ASSUME IInv, building = <<>>, NEW key \in Keys
  PROVE  /\ key \in DOMAIN header.body /\ key # NoKey
         /\ Fields(key) = FieldsOf(key) /\ (table.records[key].complete <=> IsDefinition(key))
         /\ FieldTypes(key) = TypesToBuild(key) /\ FieldTypes(key) \in Seq(CTypes)
         /\ Mentioned(FieldTypes(key)) \subseteq Known
         /\ \A t \in Range(FieldTypes(key)) : \E field \in Range(Fields(key)) : t = field.type
  <1>1. TypeOK /\ EntriesFollow /\ NamesFollow /\ header \in Headers
    BY DEF IInv, TypeOK
  <1>2. key \in DOMAIN header.body /\ key # NoKey
    BY <1>1, KeysAreNames
  <1>3. table.records[key] = Entry(key, FieldsOf(key))
    BY <1>1 DEF EntriesFollow
  <1>4. Fields(key) = FieldsOf(key) /\ (table.records[key].complete <=> IsDefinition(key))
    BY <1>3 DEF Fields, Entry
  <1>5. FieldTypes(key) = TypesToBuild(key)
    BY <1>4 DEF FieldTypes, TypesToBuild
  <1>6. FieldTypes(key) \in Seq(CTypes)
    BY <1>1, <1>2, <1>5, BuiltTypes
  <1>7. Mentioned(FieldTypes(key)) \subseteq Known
    <2>1. Pending = {}
      BY DEF Pending
    <2> QED BY <1>1, <1>5, <2>1 DEF NamesFollow
  <1>8. \A t \in Range(FieldTypes(key)) : \E field \in Range(Fields(key)) : t = field.type
    BY DEF Range, FieldTypes
  <1> QED BY <1>2, <1>4, <1>5, <1>6, <1>7, <1>8

LEMMA KnownNames ==
  ASSUME TypeOK, NEW t \in CTypes, Mentions[t] \subseteq Known
  PROVE  /\ t.k = "record" => t.key \in Keys /\ t.key # NoKey
         /\ t.k = "enum" => t.key \in table.enums
  <1>1. header \in Headers /\ Keys \subseteq DOMAIN header.body /\ table.enums \subseteq DOMAIN header.tag \ DOMAIN header.body
    BY DEF TypeOK
  <1>2. t.k \in {"record", "enum"} => Mentions[t] = {t.key}
    BY MentionsOf
  <1> QED BY <1>1, <1>2, NamesOfTypes DEF Known

LEMMA Accepted ==
  ASSUME TypeOK, NEW path \in SUBSET Keys, NEW key \in SchemaRecords[path]
  PROVE  /\ key \in Keys /\ table.records[key].complete
         /\ \A field \in Range(Fields(key)) : FieldFits(field.type)
  <1>1. IsFiniteSet(Keys)
    BY DEF TypeOK
  <1>2. /\ key \in Keys /\ table.records[key].complete
        /\ \A field \in Range(Fields(key)) :
              /\ Kind(field.type) \in Direct \cup {"array", "record"}
              /\ Kind(field.type) = "record" => field.type.key \in SchemaRecords[path \cup {key}]
    BY <1>1, SchemaRecordsDef
  <1>3. path \cup {key} \in SUBSET Keys
    BY <1>2
  <1> QED BY <1>2, <1>3 DEF FieldFits

LEMMA SamePrinting ==
  ASSUME UNCHANGED <<header, mode, table, exported, aliases, functions>>
  PROVE  /\ Keys' = Keys /\ Known' = Known /\ RichFunctions' = RichFunctions
         /\ SchemaRecords' = SchemaRecords /\ DirectDescriptor' = DirectDescriptor /\ Inside' = Inside
         /\ \A key : Preferred(key)' = Preferred(key)
         /\ \A r : IsReference(r)' <=> IsReference(r)
         /\ \A part : CanBePrinted(part)' <=> CanBePrinted(part)
         /\ \A t : FieldFits(t)' <=> FieldFits(t)
  <1>1. Keys' = Keys /\ Known' = Known
    BY DEF Keys, Known
  <1>2. SchemaRecords' = SchemaRecords /\ DirectDescriptor' = DirectDescriptor /\ Inside' = Inside
    BY SameSchemas, SameDirect, SameInside
  <1>3. \A key : Preferred(key)' = Preferred(key)
    BY Zenon DEF Preferred, NamesOf, Tag
  <1>4. RichFunctions' = RichFunctions
    <2>1. \A f : Rich(functions[f])' <=> Rich(functions[f])
      BY <1>2, <1>3 DEF Rich
    <2> QED BY <2>1 DEF RichFunctions
  <1>5. \A r : IsReference(r)' <=> IsReference(r)
    BY <1>2, <1>3 DEF IsReference
  <1>6. \A part : CanBePrinted(part)' <=> CanBePrinted(part)
    BY <1>1, <1>2, <1>4 DEF CanBePrinted
  <1>7. \A t : FieldFits(t)' <=> FieldFits(t)
    BY <1>1, <1>2 DEF FieldFits
  <1> QED BY <1>1, <1>2, <1>3, <1>4, <1>5, <1>6, <1>7

LEMMA SameFrames ==
  ASSUME UNCHANGED <<header, mode, table, exported, aliases, functions>>,
         \A i \in DOMAIN stack' : FrameFollows(stack', i)
  PROVE  FramesFollow'
  <1>1. SUFFICES ASSUME NEW i \in DOMAIN stack' PROVE FrameFollows(stack, i)'
    BY DEF FramesFollow
  <1>2. FrameFollows(stack', i)
    OBVIOUS
  <1>3. AcceptedByValue(stack, i)'
    BY <1>2, SamePrinting DEF FrameFollows, AcceptedByValue
  <1>4. InsideOpen(stack, i)'
    BY <1>2, SamePrinting DEF FrameFollows, InsideOpen
  <1> QED BY <1>2, <1>3, <1>4, SamePrinting DEF FrameFollows

(* Printing changes only what is printed and what is to be. *)
LEMMA PrintingKeeps ==
  ASSUME IInv, phase # "build", phase' \in Printing, next > Len(Decls),
         UNCHANGED <<header, mode, next, building, table, exported, aliases, functions>>,
         stack' \in Seq(Frames),
         \A r \in printed' : (r.to = "null" /\ r.below) \/ IsReference(r),
         \A part \in output' : CanBePrinted(part),
         \A i \in DOMAIN stack' : FrameFollows(stack', i)
  PROVE  IInv'
  <1>1. TypeOK /\ EntriesFollow /\ NamesFollow /\ ExportsFollow
    BY DEF IInv
  <1>2. building = <<>> /\ building' = <<>> /\ phase' # "build"
    BY <1>1 DEF NamesFollow, Printing
  <1>3. EntriesFollow'
    BY <1>1, <1>2, EntriesKept
  <1>4. NamesFollow'
    <2>1. \A f \in DOMAIN functions' : Mentioned(functions'[f].types) \subseteq Known
      BY <1>1 DEF NamesFollow
    <2>2. \A i \in DOMAIN Decls : i < next' /\ Decls[i].target => i < next
      OBVIOUS
    <2> QED BY <1>1, <1>2, <2>1, <2>2, NamesIdle
  <1>5. ExportsFollow'
    <2>1. \A i \in DOMAIN Decls : i < next' /\ Decls[i].target => i < next
      OBVIOUS
    <2> QED BY <1>1, <2>1, ExportsKept
  <1>6. PrintedFollow'
    <2>1. next' > Len(Decls')
      BY DEF Decls
    <2> QED BY <2>1, SamePrinting DEF PrintedFollow
  <1>7. FramesFollow'
    BY SameFrames
  <1>8. TypeOK'
    <2>1. next' \in Nat \ {0} /\ building' \in Seq(BuildFrames)
      BY <1>1 DEF TypeOK
    <2> QED BY <1>1, <2>1, TypesKept
  <1> QED BY <1>3, <1>4, <1>5, <1>6, <1>7, <1>8 DEF IInv

LEMMA RichFacts ==
  ASSUME TypeOK, NEW f \in RichFunctions
  PROVE  /\ f \in DOMAIN functions /\ functions[f].types \in Seq(CTypes)
         /\ \A t \in Range(functions[f].types) :
              /\ t \in CTypes /\ DirectDescriptor[t]
              /\ Kind(t) = "record" => Preferred(t.key) # NoName /\ t.key \in SchemaRecords[{}]
  <1>1. f \in DOMAIN functions /\ Rich(functions[f])
    BY DEF RichFunctions
  <1>2. functions[f].types \in Seq(CTypes)
    BY <1>1 DEF TypeOK
  <1>3. ASSUME NEW t \in Range(functions[f].types)
        PROVE  /\ t \in CTypes /\ DirectDescriptor[t]
               /\ Kind(t) = "record" => Preferred(t.key) # NoName
    <2>1. PICK i \in DOMAIN functions[f].types : t = functions[f].types[i]
      BY DEF Range
    <2>2. t \in CTypes
      BY <1>2, <2>1
    <2> QED BY <1>1, <2>1, <2>2 DEF Rich
  <1>4. ASSUME NEW t \in Range(functions[f].types), Kind(t) = "record" PROVE t.key \in SchemaRecords[{}]
    BY <1>3, <1>4, DirectDescriptorDef
  <1> QED BY <1>1, <1>2, <1>3, <1>4

LEMMA BeginOutputKeeps ==
  ASSUME IInv, BeginOutput
  PROVE  IInv'
  <1>1. /\ phase = "collect" /\ next > Len(Decls) /\ phase' = "print"
        /\ UNCHANGED <<header, mode, next, building, table, exported, aliases, functions, stack>>
    BY DEF BeginOutput, tables
  <1>2. TypeOK /\ stack = <<>> /\ printed = {} /\ stack' = <<>>
    BY <1>1 DEF IInv, PrintedFollow, Printing
  <1>3. ASSUME NEW r \in printed' PROVE IsReference(r)
    <2>1. PICK f \in RichFunctions : r \in WrapperReferences(f)
      BY <1>2 DEF BeginOutput
    <2>2. PICK t \in Range(functions[f].types) :
            Kind(t) = "record" /\ r = [to |-> "record", name |-> Preferred(t.key), key |-> t.key]
      BY <2>1 DEF WrapperReferences
    <2>3. t.key \in SchemaRecords[{}] /\ Preferred(t.key) # NoName
      BY <1>2, <2>2, RichFacts
    <2> QED BY <2>2, <2>3 DEF IsReference
  <1>4. ASSUME NEW part \in output' PROVE CanBePrinted(part)
    <2>1. CASE mode = "json"
      <3>1. part \in JsonOutput
        BY <2>1 DEF BeginOutput
      <3> QED BY <2>1, <3>1 DEF JsonOutput, ExportedRecords, FunctionParts, Part, CanBePrinted
    <2>2. CASE mode # "json"
      <3>1. part \in WrapperOutput
        BY <2>2 DEF BeginOutput
      <3> QED BY <2>2, <3>1 DEF WrapperOutput, PrintedRecords, Named, FunctionParts, Part, CanBePrinted
    <2> QED BY <2>1, <2>2
  <1>5. stack' \in Seq(Frames) /\ \A i \in DOMAIN stack' : FrameFollows(stack', i)
    BY <1>2
  <1>6. phase # "build" /\ phase' \in Printing
    BY <1>1 DEF Printing
  <1> QED BY <1>1, <1>3, <1>4, <1>5, <1>6, PrintingKeeps

LEMMA NextPartKeeps ==
  ASSUME IInv, NextPart
  PROVE  IInv'
  <1>1. /\ phase = "print" /\ phase' = "print"
        /\ UNCHANGED <<header, mode, next, building, table, exported, aliases, functions, printed>>
    BY DEF NextPart, tables
  <1>2. PICK part \in output : stack' = <<FirstFrame(part)>> /\ output' = output \ {part}
    BY DEF NextPart
  <1>3. TypeOK /\ NamesFollow /\ PrintedFollow
    BY DEF IInv
  <1>4. building = <<>> /\ next > Len(Decls) /\ CanBePrinted(part)
    BY <1>1, <1>3 DEF NamesFollow, PrintedFollow, Printing
  <1>5. FirstFrame(part) \in Frames /\ FrameFollows(stack', 1)
    <2> DEFINE f == FirstFrame(part)
    <2>1. stack'[1] = f
      BY <1>2
    <2>2. CASE part.of = "record" /\ mode = "json"
      <3>1. f = [style |-> "json", key |-> NoKey, below |-> FALSE, types |-> FieldTypes(part.key)]
        BY <2>2 DEF FirstFrame, Frame
      <3>2. part.key \in Keys
        BY <1>4, <2>2 DEF CanBePrinted
      <3>3. FieldTypes(part.key) \in Seq(CTypes) /\ Mentioned(FieldTypes(part.key)) \subseteq Known
        BY <1>4, <3>2, EntryFacts
      <3> HIDE DEF f
      <3> QED BY <2>1, <2>2, <3>1, <3>3 DEF Frames, FrameFollows, AcceptedByValue, InsideOpen, f
    <2>3. CASE part.of = "record" /\ mode # "json"
      <3>1. f = [style |-> "schema", key |-> part.key, below |-> FALSE, types |-> FieldTypes(part.key)]
        BY <2>3 DEF FirstFrame, RecordFrame, Frame
      <3>2. part.key \in SchemaRecords[{}]
        BY <1>4, <2>3 DEF CanBePrinted
      <3>3. part.key \in Keys /\ \A field \in Range(Fields(part.key)) : FieldFits(field.type)
        BY <1>3, <3>2, Accepted
      <3>4. /\ FieldTypes(part.key) \in Seq(CTypes) /\ Mentioned(FieldTypes(part.key)) \subseteq Known
            /\ FieldTypes(part.key) = TypesToBuild(part.key) /\ part.key \in DOMAIN header.body
            /\ \A t \in Range(FieldTypes(part.key)) : \E field \in Range(Fields(part.key)) : t = field.type
        BY <1>4, <3>3, EntryFacts
      <3>5. AcceptedByValue(stack', 1)
        <4>1. stack'[1].key = part.key /\ stack'[1].types = FieldTypes(part.key)
          BY <2>1, <3>1
        <4>2. part.key # NoKey /\ \A t \in Range(FieldTypes(part.key)) : FieldFits(t)
          BY <1>4, <3>3, <3>4, EntryFacts
        <4> QED BY <4>1, <4>2 DEF AcceptedByValue
      <3>6. InsideOpen(stack', 1)
        <4>1. header \in Headers
          BY <1>3 DEF TypeOK
        <4>2. FieldsFollow("schema", part.key) \subseteq Inside["schema"][part.key]
          BY <3>4, <4>1, InsideClosed
        <4>3. \A t \in Range(FieldTypes(part.key)) : Follows("schema", t) \subseteq Inside["schema"][part.key]
          BY <3>4, <4>2 DEF FieldsFollow
        <4>4. stack'[1].style = "schema" /\ stack'[1].key = part.key /\ stack'[1].types = FieldTypes(part.key)
          BY <2>1, <3>1
        <4> QED BY <4>3, <4>4 DEF InsideOpen
      <3>7. f \in Frames
        BY <3>1, <3>3, <3>4 DEF Frames
      <3> HIDE DEF f
      <3> QED BY <2>1, <2>3, <3>1, <3>4, <3>5, <3>6, <3>7 DEF FrameFollows, f
    <2>4. CASE part.of = "function"
      <3>1. f = [style |-> IF mode = "json" THEN "json" ELSE "abi", key |-> NoKey, below |-> FALSE,
                 types |-> functions[part.key].types]
        BY <2>4 DEF FirstFrame, Frame
      <3>2. part.key \in DOMAIN functions /\ (mode # "json" => part.key \in RichFunctions)
        BY <1>4, <2>4 DEF CanBePrinted, RichFunctions
      <3>3. functions[part.key].types \in Seq(CTypes) /\ Mentioned(functions[part.key].types) \subseteq Known
        BY <1>3, <3>2 DEF TypeOK, NamesFollow
      <3>4. mode # "json" => \A t \in Range(functions[part.key].types) : DirectDescriptor[t]
        BY <1>3, <3>2, RichFacts
      <3>5. f \in Frames
        BY <3>1, <3>3 DEF Frames
      <3> HIDE DEF f
      <3> QED BY <2>1, <3>1, <3>3, <3>4, <3>5 DEF FrameFollows, AcceptedByValue, InsideOpen, f
    <2>5. part.of \in {"record", "function"}
      BY <1>4 DEF CanBePrinted
    <2> QED BY <2>2, <2>3, <2>4, <2>5
  <1>6. stack' \in Seq(Frames) /\ \A i \in DOMAIN stack' : FrameFollows(stack', i)
    <2>1. DOMAIN stack' = {1}
      BY <1>2
    <2> QED BY <1>2, <1>5, <2>1
  <1>7. /\ \A r \in printed' : (r.to = "null" /\ r.below) \/ IsReference(r)
        /\ \A p \in output' : CanBePrinted(p)
    BY <1>1, <1>2, <1>3 DEF PrintedFollow
  <1>8. phase # "build" /\ phase' \in Printing
    BY <1>1 DEF Printing
  <1> QED BY <1>1, <1>4, <1>6, <1>7, <1>8, PrintingKeeps

LEMMA FramePrefix ==
  ASSUME NEW s, NEW r, NEW i \in Nat \ {0}, \A j \in 1 .. i : r[j] = s[j], FrameFollows(s, i)
  PROVE  FrameFollows(r, i)
  <1>1. r[i] = s[i] /\ r[1] = s[1]
    OBVIOUS
  <1>2. AcceptedByValue(r, i)
    BY <1>1 DEF FrameFollows, AcceptedByValue
  <1>3. InsideOpen(r, i)
    BY <1>1 DEF FrameFollows, InsideOpen
  <1> QED BY <1>1, <1>2, <1>3 DEF FrameFollows

LEMMA PrintingFacts ==
  ASSUME IInv, phase = "print"
  PROVE  /\ TypeOK /\ header \in Headers /\ building = <<>> /\ next > Len(Decls)
         /\ stack \in Seq(Frames) /\ DOMAIN stack = 1 .. Len(stack) /\ Len(stack) \in Nat
         /\ \A r \in printed : (r.to = "null" /\ r.below) \/ IsReference(r)
         /\ \A part \in output : CanBePrinted(part)
         /\ \A i \in DOMAIN stack : FrameFollows(stack, i)
  <1>1. TypeOK /\ header \in Headers /\ stack \in Seq(Frames)
    BY DEF IInv, TypeOK
  <1>2. building = <<>>
    BY DEF IInv, NamesFollow
  <1>3. /\ next > Len(Decls)
        /\ \A r \in printed : (r.to = "null" /\ r.below) \/ IsReference(r)
        /\ \A part \in output : CanBePrinted(part)
    BY DEF IInv, PrintedFollow, Printing
  <1>4. \A i \in DOMAIN stack : FrameFollows(stack, i)
    BY DEF IInv, FramesFollow
  <1> QED BY <1>1, <1>2, <1>3, <1>4

LEMMA EndFrameKeeps ==
  ASSUME IInv, EndFrame
  PROVE  IInv'
  <1>1. /\ phase = "print" /\ phase' = "print" /\ stack # <<>> /\ stack' = Front(stack)
        /\ UNCHANGED <<header, mode, next, building, table, exported, aliases, functions, output, printed>>
    BY DEF EndFrame, tables
  <1>2. /\ stack' \in Seq(Frames) /\ DOMAIN stack' = 1 .. Len(stack) - 1
        /\ \A i \in 1 .. Len(stack) - 1 : stack'[i] = stack[i]
    BY <1>1, PrintingFacts, FrontOf
  <1>3. ASSUME NEW i \in DOMAIN stack' PROVE FrameFollows(stack', i)
    <2>1. i \in DOMAIN stack /\ i \in Nat \ {0} /\ \A j \in 1 .. i : stack'[j] = stack[j]
      BY <1>1, <1>2, PrintingFacts
    <2> QED BY <1>1, <2>1, PrintingFacts, FramePrefix
  <1> QED BY <1>1, <1>2, <1>3, PrintingFacts, PrintingKeeps DEF Printing

LEMMA OverflowKeeps ==
  ASSUME IInv, Overflow \/ WriteOutput
  PROVE  IInv'
  <1>1. /\ phase = "print" /\ phase' \in Printing
        /\ UNCHANGED <<header, mode, next, building, table, exported, aliases, functions, output, stack, printed>>
    BY DEF Overflow, WriteOutput, tables, printing, Printing
  <1> QED BY <1>1, PrintingFacts, PrintingKeeps

(* Everything is as it was. *)
LEMMA StutterKeeps ==
  ASSUME IInv, UNCHANGED bindvars
  PROVE  IInv'
  <1>1. UNCHANGED <<header, mode, phase, next, building, table, exported, aliases, functions, output, stack, printed>>
    BY DEF bindvars, tables, printing
  <1>2. TypeOK /\ EntriesFollow /\ NamesFollow /\ ExportsFollow /\ PrintedFollow /\ FramesFollow
    BY DEF IInv
  <1>3. EntriesFollow'
    BY <1>1, <1>2, EntriesKept
  <1>4. ExportsFollow'
    BY <1>1, <1>2, ExportsKept
  <1>5. TypeOK'
    <2>1. /\ stack \in Seq(Frames) /\ next \in Nat \ {0} /\ building \in Seq(BuildFrames)
          /\ phase \in {"parse", "collect", "build", "refused"} \cup Printing
      BY <1>2 DEF TypeOK
    <2> QED BY <1>1, <1>2, <2>1, TypesKept
  <1>6. NamesFollow'
    <2>1. \A key : TypesToBuild(key)' = TypesToBuild(key)
      BY <1>1, SameDefinition
    <2>2. Known' = Known /\ Pending' = Pending /\ Decls' = Decls /\ Keys' = Keys
      BY <1>1 DEF Known, Pending, Decls, Keys
    <2> QED BY <1>1, <1>2, <2>1, <2>2 DEF NamesFollow
  <1>7. PrintedFollow'
    <2>1. Decls' = Decls
      BY <1>1 DEF Decls
    <2> QED BY <1>1, <1>2, <2>1, SamePrinting DEF PrintedFollow
  <1>8. FramesFollow'
    BY <1>1, <1>2, SameFrames DEF FramesFollow
  <1> QED BY <1>3, <1>4, <1>5, <1>6, <1>7, <1>8 DEF IInv

(* Printing a type *)

LEMMA TopFacts ==
  ASSUME IInv, phase = "print", stack # <<>>, Top.types # <<>>
  PROVE  /\ Len(stack) \in Nat \ {0} /\ Top = stack[Len(stack)] /\ Len(stack) \in DOMAIN stack
         /\ Top.style \in {"schema", "abi", "json"} /\ Top.key \in Keys \cup {NoKey}
         /\ Top.below \in BOOLEAN /\ Top.types \in Seq(CTypes)
         /\ FrameFollows(stack, Len(stack))
         /\ PrintedType \in CTypes /\ PrintedType \in Range(Top.types) /\ Mentions[PrintedType] \subseteq Known
         /\ Tail(Top.types) \in Seq(CTypes) /\ Range(Tail(Top.types)) \subseteq Range(Top.types)
         /\ Mentioned(Tail(Top.types)) \subseteq Known
  <1>1. Len(stack) \in Nat \ {0} /\ Top = stack[Len(stack)] /\ Len(stack) \in DOMAIN stack /\ Top \in Frames
    BY PrintingFacts, FrontOf DEF Top
  <1>2. /\ Top.style \in {"schema", "abi", "json"} /\ Top.key \in Keys \cup {NoKey}
        /\ Top.below \in BOOLEAN /\ Top.types \in Seq(CTypes)
    BY <1>1 DEF Frames
  <1>3. FrameFollows(stack, Len(stack))
    BY <1>1, PrintingFacts
  <1>4. /\ PrintedType \in CTypes /\ PrintedType \in Range(Top.types)
        /\ Tail(Top.types) \in Seq(CTypes) /\ Range(Top.types) = {PrintedType} \cup Range(Tail(Top.types))
    BY <1>2, TailOf DEF PrintedType
  <1>5. Mentioned(Top.types) \subseteq Known
    BY <1>1, <1>3 DEF FrameFollows
  <1>6. Mentions[PrintedType] \subseteq Known /\ Mentioned(Tail(Top.types)) \subseteq Known
    BY <1>2, <1>4, <1>5, MentionedParts DEF PrintedType
  <1> QED BY <1>1, <1>2, <1>3, <1>4, <1>6

(* What the frame in which the type is says of the type. *)
LEMMA TypeFacts ==
  ASSUME IInv, phase = "print", stack # <<>>, Top.types # <<>>
  PROVE  /\ Top.style # "json" /\ ~Top.below =>
              IF Top.key # NoKey THEN FieldFits(PrintedType)
              ELSE /\ \A j \in DOMAIN stack : stack[j].key = NoKey
                   /\ DirectDescriptor[PrintedType]
         /\ \A j \in DOMAIN stack :
              /\ stack[j].style = Top.style
              /\ stack[j].key # NoKey =>
                   /\ stack[j].key \in Keys /\ Top.style \in {"schema", "abi"}
                   /\ Follows(Top.style, PrintedType) \subseteq Inside[Top.style][stack[j].key]
         /\ Top.style = "json" => Top.key = NoKey
         /\ Top.style = "json" <=> mode = "json"
  <1>1. /\ FrameFollows(stack, Len(stack)) /\ Top = stack[Len(stack)] /\ PrintedType \in Range(Top.types)
        /\ DOMAIN stack = 1 .. Len(stack) /\ Top.style \in {"schema", "abi", "json"}
    BY TopFacts, PrintingFacts
  <1>2. Top.style # "json" /\ ~Top.below =>
          IF Top.key # NoKey THEN FieldFits(PrintedType)
          ELSE /\ \A j \in DOMAIN stack : stack[j].key = NoKey
               /\ DirectDescriptor[PrintedType]
    BY <1>1 DEF FrameFollows, AcceptedByValue
  <1>3. ASSUME NEW j \in DOMAIN stack
        PROVE  /\ stack[j].style = Top.style /\ stack[j].key \in Keys \cup {NoKey}
               /\ stack[j].style = "json" => stack[j].key = NoKey
    <2>1. FrameFollows(stack, j) /\ stack[j] \in Frames
      BY PrintingFacts
    <2> QED BY <1>1, <2>1 DEF FrameFollows, Frames
  <1>4. ASSUME NEW j \in DOMAIN stack, stack[j].key # NoKey
        PROVE  Follows(Top.style, PrintedType) \subseteq Inside[Top.style][stack[j].key]
    BY <1>1, <1>4 DEF FrameFollows, InsideOpen
  <1>5. (Top.style = "json" => Top.key = NoKey) /\ (Top.style = "json" <=> mode = "json")
    BY <1>1 DEF FrameFollows
  <1> QED BY <1>1, <1>2, <1>3, <1>4, <1>5

LEMMA ElementFacts ==
  ASSUME NEW t \in CTypes
  PROVE  Element(t) \in CTypes /\ Mentions[Element(t)] \subseteq Mentions[t]
  <1>1. CASE Kind(t) = "array"
    <2>1. t.k = "array" /\ Contents(t) = <<t.of>> /\ Element(t) = t.of
      BY <1>1 DEF Kind, Contents, Element
    <2>2. t.of \in CTypes
      <3>1. <<t.of>> \in Seq(CTypes)
        BY <2>1, CTypesAssumption
      <3> QED BY <3>1
    <2>3. Mentions[t] = Mentioned(<<t.of>>)
      BY <2>1, MentionsOf
    <2> QED BY <2>1, <2>2, <2>3, MentionedParts
  <1>2. CASE Kind(t) # "array"
    BY <1>2 DEF Element
  <1> QED BY <1>1, <1>2

LEMMA WrittenFollows ==
  ASSUME IInv, phase = "print", stack # <<>>, Top.types # <<>>,
         NEW r \in Written(Top.style, PrintedType, Top.below)
  PROVE  (r.to = "null" /\ r.below) \/ IsReference(r)
  <1> DEFINE t == PrintedType
  <1>1. t \in CTypes /\ Mentions[t] \subseteq Known /\ TypeOK /\ Top.below \in BOOLEAN
    BY TopFacts, PrintingFacts
  <1> DEFINE e == Element(t)
  <1>2. CASE Kind(e) = "enum" /\ Top.style = "abi" /\ Preferred(e.key) # NoName
    <2>1. r = [to |-> "enum", name |-> Preferred(e.key), key |-> e.key]
      <3>1. Kind(t) # "unsupported"
        BY <1>2 DEF Element
      <3> HIDE DEF e
      <3> QED BY <1>2, <3>1 DEF Written, e
    <2>2. e \in CTypes /\ Mentions[e] \subseteq Known
      BY <1>1, ElementFacts
    <2>3. e.key \in table.enums
      BY <1>1, <1>2, <2>2, Kinds, KnownNames
    <2> QED BY <1>2, <2>1, <2>3 DEF IsReference
  <1>3. CASE Kind(t) = "unsupported" /\ Top.style # "json"
    <2>1. r = [to |-> "null", below |-> Top.below]
      <3>1. e = t /\ Kind(e) # "enum"
        BY <1>3 DEF Element
      <3> HIDE DEF e
      <3> QED BY <1>3, <3>1 DEF Written, e
    <2>2. ~FieldFits(t)
      BY <1>3 DEF FieldFits, Direct
    <2>3. ~DirectDescriptor[t]
      BY <1>1, <1>3, DirectDescriptorDef
    <2>4. Top.below
      BY <1>1, <1>3, <2>2, <2>3, TypeFacts
    <2> QED BY <2>1, <2>4
  <1>4. CASE /\ ~(Kind(e) = "enum" /\ Top.style = "abi" /\ Preferred(e.key) # NoName)
             /\ ~(Kind(t) = "unsupported" /\ Top.style # "json")
    BY <1>4 DEF Written
  <1> QED BY <1>2, <1>3, <1>4

(* What a frame above the type must satisfy. *)
Fits(f) ==
  /\ f \in Frames /\ f.style = Top.style
  /\ Mentioned(f.types) \subseteq Known
  /\ Top.style = "json" => f.key = NoKey
  /\ f.style # "json" /\ ~f.below =>
       IF f.key # NoKey THEN \A u \in Range(f.types) : FieldFits(u)
       ELSE /\ \A j \in DOMAIN stack : stack[j].key = NoKey
            /\ \A u \in Range(f.types) : DirectDescriptor[u]
  /\ \A j \in DOMAIN stack : stack[j].key # NoKey =>
       /\ \A u \in Range(f.types) : Follows(Top.style, u) \subseteq Inside[Top.style][stack[j].key]
       /\ f.key # NoKey => f.key \in Inside[Top.style][stack[j].key]
  /\ f.key # NoKey => \A u \in Range(f.types) : Follows(Top.style, u) \subseteq Inside[Top.style][f.key]

(* A record, by value or behind the pointer that a schema follows. *)
LEMMA RecordFits ==
  ASSUME IInv, phase = "print", stack # <<>>, Top.types # <<>>, Top.style \in {"schema", "abi"},
         NEW key \in Keys, NEW below \in BOOLEAN, key \in Follows(Top.style, PrintedType),
         below \/ (~Top.below /\ Kind(PrintedType) = "record" /\ PrintedType.key = key)
  PROVE  Fits(RecordFrame(Top.style, key, below))
  <1> DEFINE f == [style |-> Top.style, key |-> key, below |-> below, types |-> FieldTypes(key)]
  <1>1. TypeOK /\ header \in Headers /\ building = <<>>
    BY PrintingFacts
  <1>2. /\ key \in DOMAIN header.body /\ key # NoKey
        /\ FieldTypes(key) = TypesToBuild(key) /\ FieldTypes(key) \in Seq(CTypes)
        /\ Mentioned(FieldTypes(key)) \subseteq Known
        /\ \A t \in Range(FieldTypes(key)) : \E field \in Range(Fields(key)) : t = field.type
    BY <1>1, EntryFacts
  <1>3. f \in Frames
    BY <1>2 DEF Frames
  <1>4. ASSUME ~below PROVE \A u \in Range(FieldTypes(key)) : FieldFits(u)
    <2>1. PICK path \in SUBSET Keys : key \in SchemaRecords[path]
      <3>1. CASE Top.key # NoKey
        <4>1. FieldFits(PrintedType)
          BY <1>4, <3>1, TypeFacts
        <4> QED BY <1>4, <4>1 DEF FieldFits
      <3>2. CASE Top.key = NoKey
        <4>1. DirectDescriptor[PrintedType]
          BY <1>4, <3>2, TypeFacts
        <4>2. key \in SchemaRecords[{}]
          BY <1>4, <4>1, TopFacts, DirectDescriptorDef
        <4> QED BY <4>2
      <3> QED BY <3>1, <3>2
    <2> QED BY <1>1, <1>2, <2>1, Accepted
  <1>5. \A u \in Range(FieldTypes(key)) : Follows(Top.style, u) \subseteq FieldsFollow(Top.style, key)
    BY <1>2 DEF FieldsFollow
  <1>6. ASSUME NEW j \in DOMAIN stack, stack[j].key # NoKey
        PROVE  /\ key \in Inside[Top.style][stack[j].key]
               /\ \A u \in Range(FieldTypes(key)) : Follows(Top.style, u) \subseteq Inside[Top.style][stack[j].key]
    <2>1. key \in Inside[Top.style][stack[j].key] /\ stack[j].key \in DOMAIN header.body
      BY <1>1, <1>6, TypeFacts, KeysAreNames
    <2>2. FieldsFollow(Top.style, key) \subseteq Inside[Top.style][stack[j].key]
      BY <1>1, <2>1, InsideClosed
    <2> QED BY <1>5, <2>1, <2>2
  <1>7. \A u \in Range(FieldTypes(key)) : Follows(Top.style, u) \subseteq Inside[Top.style][key]
    <2>1. FieldsFollow(Top.style, key) \subseteq Inside[Top.style][key]
      BY <1>1, <1>2, InsideClosed
    <2> QED BY <1>5, <2>1
  <1>8. /\ f.style = Top.style /\ f.key = key /\ f.below = below /\ f.types = FieldTypes(key)
        /\ RecordFrame(Top.style, key, below) = f
    BY DEF RecordFrame, Frame
  <1> HIDE DEF f
  <1> QED BY <1>2, <1>3, <1>4, <1>6, <1>7, <1>8 DEF Fits

(* What a pointer or a function contains, with no record between. *)
LEMMA PartFits ==
  ASSUME IInv, phase = "print", stack # <<>>, Top.types # <<>>, Top.style \in {"abi", "json"},
         NEW below \in BOOLEAN, NEW types \in Seq(CTypes), Mentioned(types) \subseteq Known,
         Top.style = "abi" => \A u \in Range(types) : AbiFollows[u] \subseteq AbiFollows[PrintedType],
         Top.style = "abi" /\ ~below =>
           /\ \A j \in DOMAIN stack : stack[j].key = NoKey
           /\ \A u \in Range(types) : DirectDescriptor[u]
  PROVE  Fits(Frame(Top.style, NoKey, below, types))
  <1> DEFINE f == [style |-> Top.style, key |-> NoKey, below |-> below, types |-> types]
  <1>1. f \in Frames
    BY DEF Frames
  <1>2. ASSUME NEW j \in DOMAIN stack, stack[j].key # NoKey
        PROVE  \A u \in Range(types) : Follows(Top.style, u) \subseteq Inside[Top.style][stack[j].key]
    <2>1. Top.style = "abi" /\ Follows(Top.style, PrintedType) \subseteq Inside[Top.style][stack[j].key]
      BY <1>2, TypeFacts
    <2> QED BY <2>1 DEF Follows
  <1>3. /\ f.style = Top.style /\ f.key = NoKey /\ f.below = below /\ f.types = types
        /\ Frame(Top.style, NoKey, below, types) = f
    BY DEF Frame
  <1> HIDE DEF f
  <1> QED BY <1>1, <1>2, <1>3 DEF Fits

LEMMA ContainedFits ==
  ASSUME IInv, phase = "print", stack # <<>>, Top.types # <<>>
  PROVE  \/ Contained(Top.style, PrintedType, Beneath) = <<>>
         \/ \E f : Contained(Top.style, PrintedType, Beneath) = <<f>> /\ Fits(f)
  <1> DEFINE t == PrintedType
             contained == Contained(Top.style, t, Beneath)
  <1>1. /\ t \in CTypes /\ Mentions[t] \subseteq Known /\ TypeOK /\ header \in Headers
        /\ Top.style \in {"schema", "abi", "json"} /\ Top.below \in BOOLEAN
    BY TopFacts, PrintingFacts
  <1>2. Beneath \in BOOLEAN /\ (Top.below => Beneath)
    BY <1>1 DEF Beneath
  <1>3. CASE Kind(t) = "record" /\ Top.style # "json"
    <2>1. contained = <<RecordFrame(Top.style, t.key, Beneath)>>
      <3>1. CASE Top.style = "schema"
        BY <1>3, <3>1 DEF Contained, SchemaFrames
      <3>2. CASE Top.style = "abi"
        BY <1>3, <3>2 DEF Contained, AbiFrames, HasPointee
      <3> QED BY <1>1, <1>3, <3>1, <3>2
    <2>2. t.key \in Keys
      BY <1>1, <1>3, Kinds, KnownNames
    <2>3. t.key \in Follows(Top.style, t)
      BY <1>1, <1>3, Kinds, AbiFollowsDef DEF Follows, SchemaFollows
    <2>4. Beneath \/ ~Top.below
      BY <1>2
    <2>5. Fits(RecordFrame(Top.style, t.key, Beneath))
      BY <1>1, <1>2, <1>3, <2>2, <2>3, <2>4, RecordFits
    <2> QED BY <2>1, <2>5
  <1>4. CASE Top.style = "schema" /\ Kind(t) = "pointer" /\ Kind(t.to) = "record"
    <2>1. contained = <<RecordFrame(Top.style, t.to.key, Beneath)>>
      BY <1>4 DEF Contained, SchemaFrames
    <2>2. t.k = "pointer" /\ t.to \in CTypes /\ t.to.k = "record" /\ Contents(t) = <<t.to>>
      BY <1>1, <1>4, Kinds
    <2>3. t.to.key \in Keys
      <3>1. Mentions[t] = Mentions[t.to]
        BY <1>1, <2>2, MentionsOf, MentionedParts
      <3> QED BY <1>1, <2>2, <3>1, KnownNames
    <2>4. t.to.key \in Follows(Top.style, t)
      BY <1>4, <2>2 DEF Follows, SchemaFollows
    <2>5. Beneath
      BY <1>4 DEF Beneath
    <2>6. Fits(RecordFrame(Top.style, t.to.key, Beneath))
      BY <1>2, <1>4, <2>3, <2>4, <2>5, RecordFits
    <2> QED BY <2>1, <2>6
  <1>5. CASE Top.style \in {"abi", "json"} /\ HasPointee(t)
    <2>1. Kind(t) = "pointer" /\ t.k = "pointer" /\ t.to \in CTypes /\ Contents(t) = <<t.to>>
      BY <1>1, <1>5, Kinds
    <2>2. contained = <<Frame(Top.style, NoKey, Beneath, <<t.to>>)>>
      BY <1>5, <2>1 DEF Contained, AbiFrames, JsonFrames
    <2>3. Range(<<t.to>>) = {t.to} /\ <<t.to>> \in Seq(CTypes)
      BY <2>1 DEF Range
    <2>4. Mentioned(<<t.to>>) \subseteq Known
      BY <1>1, <2>1, MentionsOf
    <2>5. AbiFollows[t.to] \subseteq AbiFollows[t]
      BY <1>1, <2>1, <2>3, AbiFollowsDef
    <2>6. ASSUME Top.style = "abi", ~Beneath
          PROVE  (\A j \in DOMAIN stack : stack[j].key = NoKey) /\ DirectDescriptor[t.to]
      <3>1. ~Top.below /\ Open = {} /\ Kind(t.to) = "function"
        BY <1>2, <2>1, <2>6 DEF Beneath
      <3>2. \A j \in DOMAIN stack : stack[j].key = NoKey
        BY <3>1 DEF Open
      <3>3. DirectDescriptor[t]
        BY <2>6, <3>1, <3>2, TypeFacts, TopFacts
      <3> QED BY <1>1, <2>1, <3>1, <3>2, <3>3, DirectDescriptorDef
    <2>7. Fits(Frame(Top.style, NoKey, Beneath, <<t.to>>))
      BY <1>2, <1>5, <2>3, <2>4, <2>5, <2>6, PartFits
    <2> QED BY <2>2, <2>7
  <1>6. CASE Top.style \in {"abi", "json"} /\ Kind(t) = "function"
    <2>1. t.k = "function" /\ Contents(t) = t.types /\ ~HasPointee(t)
      BY <1>1, <1>6, Kinds
    <2>2. contained = <<Frame(Top.style, NoKey, Beneath, t.types)>>
      BY <1>6, <2>1 DEF Contained, AbiFrames, JsonFrames
    <2>3. t.types \in Seq(CTypes)
      BY <1>1, <2>1, CTypesAssumption
    <2>4. Mentioned(t.types) \subseteq Known
      BY <1>1, <2>1, MentionsOf
    <2>5. \A u \in Range(t.types) : AbiFollows[u] \subseteq AbiFollows[t]
      BY <1>1, <2>1, AbiFollowsDef
    <2>6. ASSUME Top.style = "abi", ~Beneath
          PROVE  (\A j \in DOMAIN stack : stack[j].key = NoKey) /\ \A u \in Range(t.types) : DirectDescriptor[u]
      <3>1. ~Top.below
        BY <1>2, <2>6
      <3>2. ~FieldFits(t)
        BY <1>6 DEF FieldFits, Direct
      <3>3. (\A j \in DOMAIN stack : stack[j].key = NoKey) /\ DirectDescriptor[t]
        BY <2>6, <3>1, <3>2, TypeFacts
      <3>4. \A i \in DOMAIN t.types : DirectDescriptor[t.types[i]]
        BY <1>1, <1>6, <3>3, DirectDescriptorDef
      <3> QED BY <3>3, <3>4 DEF Range
    <2>7. Fits(Frame(Top.style, NoKey, Beneath, t.types))
      BY <1>2, <1>6, <2>3, <2>4, <2>5, <2>6, PartFits
    <2> QED BY <2>2, <2>7
  <1>7. CASE /\ ~(Kind(t) = "record" /\ Top.style # "json")
             /\ ~(Top.style = "schema" /\ Kind(t) = "pointer" /\ Kind(t.to) = "record")
             /\ ~(Top.style \in {"abi", "json"} /\ HasPointee(t))
             /\ ~(Top.style \in {"abi", "json"} /\ Kind(t) = "function")
    BY <1>1, <1>7 DEF Contained, SchemaFrames, AbiFrames, JsonFrames
  <1> QED BY <1>3, <1>4, <1>5, <1>6, <1>7

(* What is on the stack stays as good with one type less on top. *)
Rest == Frame(Top.style, Top.key, Top.below, Tail(Top.types))
IsRest(s) == \A i \in 1 .. Len(stack) : s[i] = IF i = Len(stack) THEN Rest ELSE stack[i]

LEMMA RestFacts ==
  ASSUME IInv, phase = "print", stack # <<>>, Top.types # <<>>
  PROVE  /\ Rest.style = Top.style /\ Rest.key = Top.key /\ Rest.below = Top.below
         /\ Rest.types = Tail(Top.types) /\ Rest \in Frames
  BY TopFacts DEF Rest, Frame, Frames

LEMMA BelowTop ==
  ASSUME NEW n \in Nat \ {0}, NEW i \in 1 .. n, i # n
  PROVE  i \in Nat \ {0} /\ \A j \in 1 .. i : j \in 1 .. n /\ j # n
  OBVIOUS

LEMMA RestFollows ==
  ASSUME IInv, phase = "print", stack # <<>>, Top.types # <<>>, NEW s, IsRest(s)
  PROVE  \A i \in 1 .. Len(stack) : FrameFollows(s, i)
  <1>1. /\ Rest.style = Top.style /\ Rest.key = Top.key /\ Rest.below = Top.below
        /\ Rest.types = Tail(Top.types)
    BY RestFacts
  <1>2. Len(stack) \in Nat \ {0} /\ DOMAIN stack = 1 .. Len(stack) /\ Top = stack[Len(stack)]
    BY TopFacts, PrintingFacts
  <1>3. /\ Range(Tail(Top.types)) \subseteq Range(Top.types) /\ FrameFollows(stack, Len(stack))
        /\ Mentioned(Tail(Top.types)) \subseteq Known
    BY TopFacts
  <1>4. 1 \in 1 .. Len(stack) /\ Len(stack) \in 1 .. Len(stack)
    BY <1>2
  <1>5. ASSUME NEW i \in 1 .. Len(stack), i # Len(stack) PROVE FrameFollows(s, i)
    <2>1. i \in Nat \ {0} /\ \A j \in 1 .. i : j \in 1 .. Len(stack) /\ j # Len(stack)
      BY <1>2, <1>5, BelowTop
    <2>2. \A j \in 1 .. i : s[j] = stack[j]
      BY <2>1 DEF IsRest
    <2>3. FrameFollows(stack, i)
      BY <1>2, <1>5, PrintingFacts
    <2> QED BY <2>1, <2>2, <2>3, FramePrefix
  <1>6. \A i \in 1 .. Len(stack) : s[i].style = stack[i].style /\ s[i].key = stack[i].key
    BY <1>1, <1>2 DEF IsRest
  <1>7. s[Len(stack)] = Rest
    BY <1>4 DEF IsRest
  <1>8. AcceptedByValue(s, Len(stack))
    <2>1. AcceptedByValue(stack, Len(stack))
      BY <1>3 DEF FrameFollows
    <2> QED BY <1>1, <1>2, <1>3, <1>6, <1>7, <2>1 DEF AcceptedByValue
  <1>9. InsideOpen(s, Len(stack))
    <2>1. InsideOpen(stack, Len(stack))
      BY <1>3 DEF FrameFollows
    <2> QED BY <1>1, <1>2, <1>3, <1>6, <1>7, <2>1 DEF InsideOpen
  <1>10. s[Len(stack)].style = Top.style /\ s[1].style = Top.style /\ s[Len(stack)].key = Top.key
    <2>1. stack[1].style = Top.style
      BY <1>2, <1>4, TypeFacts
    <2> QED BY <1>1, <1>4, <1>6, <1>7, <2>1
  <1>11. (Top.style = "json" <=> mode = "json") /\ (Top.style = "json" => Top.key = NoKey)
    BY TypeFacts
  <1>12. Mentioned(s[Len(stack)].types) \subseteq Known
    BY <1>1, <1>3, <1>7
  <1>13. FrameFollows(s, Len(stack))
    BY <1>8, <1>9, <1>10, <1>11, <1>12 DEF FrameFollows
  <1> QED BY <1>5, <1>13

(* So is what the type contains, on top of it. *)
LEMMA FittingFollows ==
  ASSUME IInv, phase = "print", stack # <<>>, Top.types # <<>>, NEW f, Fits(f),
         NEW s, s[Len(stack) + 1] = f,
         \A i \in 1 .. Len(stack) : s[i].style = stack[i].style /\ s[i].key = stack[i].key
  PROVE  FrameFollows(s, Len(stack) + 1)
  <1> DEFINE n == Len(stack)
  <1>1. n \in Nat \ {0} /\ DOMAIN stack = 1 .. n /\ f \in Frames
    BY TopFacts, PrintingFacts DEF Fits
  <1>2. \A j \in 1 .. n + 1 : j = n + 1 \/ (j \in 1 .. n /\ j < n + 1)
    BY <1>1
  <1>3. AcceptedByValue(s, n + 1)
    BY <1>1, <1>2 DEF AcceptedByValue, Fits
  <1>4. InsideOpen(s, n + 1)
    <2>1. ASSUME NEW j \in 1 .. n + 1, s[j].key # NoKey
          PROVE  /\ \A t \in Range(f.types) : Follows(f.style, t) \subseteq Inside[f.style][s[j].key]
                 /\ j < n + 1 /\ f.key # NoKey => f.key \in Inside[f.style][s[j].key]
      <3>1. CASE j = n + 1
        BY <1>1, <2>1, <3>1 DEF Fits
      <3>2. CASE j \in 1 .. n /\ j < n + 1
        BY <1>1, <2>1, <3>2 DEF Fits
      <3> QED BY <1>2, <3>1, <3>2
    <2> QED BY <2>1 DEF InsideOpen
  <1>5. /\ s[n + 1].style = s[1].style
        /\ s[n + 1].style = "json" <=> mode = "json"
        /\ s[n + 1].style = "json" => s[n + 1].key = NoKey
        /\ Mentioned(s[n + 1].types) \subseteq Known
    <2>1. 1 \in 1 .. n
      BY <1>1
    <2>2. s[1].style = Top.style
      BY <1>1, <2>1, TypeFacts
    <2> QED BY <2>2, TypeFacts DEF Fits
  <1> QED BY <1>3, <1>4, <1>5 DEF FrameFollows

LEMMA PrintTypeKeeps ==
  ASSUME IInv, PrintType
  PROVE  IInv'
  <1> DEFINE base == Append(Front(stack), Rest)
             contained == Contained(Top.style, PrintedType, Beneath)
  <1>1. /\ phase = "print" /\ phase' = "print" /\ stack # <<>> /\ Top.types # <<>>
        /\ stack' = base \o contained
        /\ printed' = printed \cup Written(Top.style, PrintedType, Top.below)
        /\ UNCHANGED <<header, mode, next, building, table, exported, aliases, functions, output>>
    BY DEF PrintType, tables, Rest
  <1>2. stack \in Seq(Frames) /\ stack # <<>> /\ Len(stack) \in Nat \ {0}
    BY <1>1, PrintingFacts, TopFacts
  <1>3. Rest \in Frames
    BY <1>1, RestFacts
  <1>4. /\ base \in Seq(Frames) /\ Len(base) = Len(stack)
        /\ \A i \in 1 .. Len(stack) : base[i] = IF i = Len(stack) THEN Rest ELSE stack[i]
    BY <1>1, <1>2, <1>3, Replaced
  <1>5. stack' \in Seq(Frames) /\ \A i \in DOMAIN stack' : FrameFollows(stack', i)
    <2>1. CASE contained = <<>>
      <3> HIDE DEF base, contained
      <3>1. stack' = base /\ DOMAIN stack' = 1 .. Len(stack)
        BY <1>1, <1>4, <2>1
      <3>2. \A i \in 1 .. Len(stack) : FrameFollows(base, i)
        BY <1>1, <1>4, RestFollows DEF IsRest
      <3> QED BY <1>4, <3>1, <3>2
    <2>2. ASSUME NEW f, contained = <<f>>, Fits(f)
          PROVE  stack' \in Seq(Frames) /\ \A i \in DOMAIN stack' : FrameFollows(stack', i)
      <3>1. f \in Frames
        BY <2>2 DEF Fits
      <3>2. /\ base \o <<f>> \in Seq(Frames) /\ Len(base \o <<f>>) = Len(stack) + 1
            /\ \A i \in 1 .. Len(stack) + 1 :
                 (base \o <<f>>)[i] = IF i = Len(stack) + 1 THEN f ELSE IF i = Len(stack) THEN Rest ELSE stack[i]
        BY <1>2, <1>3, <3>1, PushedOnto
      <3>3. stack' = base \o <<f>>
        BY <1>1, <2>2
      <3> HIDE DEF base, contained
      <3>4. DOMAIN stack' = 1 .. Len(stack) + 1 /\ stack'[Len(stack) + 1] = f
        BY <1>2, <3>2, <3>3
      <3>5. \A i \in 1 .. Len(stack) : stack'[i] = IF i = Len(stack) THEN Rest ELSE stack[i]
        BY <1>2, <3>2, <3>3
      <3>6. \A i \in 1 .. Len(stack) : FrameFollows(stack', i)
        BY <1>1, <3>5, RestFollows DEF IsRest
      <3>7. \A i \in 1 .. Len(stack) : stack'[i].style = stack[i].style /\ stack'[i].key = stack[i].key
        <4>1. Rest.style = Top.style /\ Rest.key = Top.key /\ Top = stack[Len(stack)]
          BY <1>1, TopFacts, RestFacts
        <4> QED BY <3>5, <4>1
      <3>8. FrameFollows(stack', Len(stack) + 1)
        BY <1>1, <2>2, <3>4, <3>7, FittingFollows
      <3>9. \A i \in 1 .. Len(stack) + 1 : i = Len(stack) + 1 \/ i \in 1 .. Len(stack)
        BY <1>2
      <3> QED BY <3>2, <3>3, <3>4, <3>6, <3>8, <3>9
    <2> QED BY <1>1, <2>1, <2>2, ContainedFits
  <1>6. \A r \in printed' : (r.to = "null" /\ r.below) \/ IsReference(r)
    BY <1>1, PrintingFacts, WrittenFollows
  <1>7. \A part \in output' : CanBePrinted(part)
    BY <1>1, PrintingFacts
  <1> QED BY <1>1, <1>5, <1>6, <1>7, PrintingFacts, PrintingKeeps DEF Printing

-----------------------------------------------------------------------------
(* The inductive invariant *)

LEMMA InitFollows ==
  ASSUME Init
  PROVE  IInv
  <1>1. /\ header \in Headers /\ phase = "parse" /\ next = 1 /\ building = <<>>
        /\ table = [records |-> <<>>, enums |-> {}]
        /\ exported = {} /\ aliases = {} /\ functions = <<>>
        /\ output = {} /\ stack = <<>> /\ printed = {}
    BY DEF Init
  <1>2. Keys = {} /\ DOMAIN functions = {} /\ DOMAIN stack = {} /\ DOMAIN building = {}
    BY <1>1 DEF Keys
  <1>3. TypeOK
    <2>1. table.records = [key \in Keys |-> table.records[key]]
      BY <1>1, <1>2
    <2>2. IsFiniteSet(Keys)
      BY <1>2, FS_EmptySet
    <2> QED BY <1>1, <1>2, <2>1, <2>2 DEF TypeOK
  <1>4. EntriesFollow
    BY <1>2 DEF EntriesFollow
  <1>5. NamesFollow
    <2>1. \A i \in DOMAIN Decls : ~(i < next)
      <3>1. Decls \in Seq(Range(Decls))
        BY <1>1, HeadersAssumption DEF IsHeader, Decls
      <3> QED BY <1>1, <3>1
    <2> QED BY <1>1, <1>2, <2>1 DEF NamesFollow
  <1>6. ExportsFollow
    <2>1. \A i \in DOMAIN Decls : ~(i < next)
      <3>1. Decls \in Seq(Range(Decls))
        BY <1>1, HeadersAssumption DEF IsHeader, Decls
      <3> QED BY <1>1, <3>1
    <2> QED BY <1>1, <2>1 DEF ExportsFollow
  <1>7. PrintedFollow
    BY <1>1 DEF PrintedFollow, Printing
  <1>8. FramesFollow
    BY <1>2 DEF FramesFollow
  <1> QED BY <1>3, <1>4, <1>5, <1>6, <1>7, <1>8 DEF IInv

LEMMA StepKeeps ==
  ASSUME IInv, [Next]_wrapvars
  PROVE  IInv'
  <1>1. CASE BindgenStep
    <2>1. CASE Parse
      BY <2>1, ParseKeeps
    <2>2. CASE SkipOther
      BY <2>2, SkipOtherKeeps
    <2>3. CASE Visit
      BY <2>3, VisitKeeps
    <2>4. CASE BuildType
      BY <2>4, BuildTypeKeeps
    <2>5. CASE BuildRecord
      BY <2>5, BuildRecordKeeps
    <2>6. CASE EndRecord
      BY <2>6, EndRecordKeeps
    <2>7. CASE CollectFunction
      BY <2>7, CollectFunctionKeeps
    <2>8. CASE CollectRecord
      BY <2>8, CollectRecordKeeps
    <2>9. CASE CollectEnum
      BY <2>9, CollectRecordKeeps
    <2>10. CASE CollectTypedef
      BY <2>10, CollectTypedefKeeps
    <2>11. CASE BeginOutput
      BY <2>11, BeginOutputKeeps
    <2>12. CASE NextPart
      BY <2>12, NextPartKeeps
    <2>13. CASE PrintType
      BY <2>13, PrintTypeKeeps
    <2>14. CASE EndFrame
      BY <2>14, EndFrameKeeps
    <2>15. CASE Overflow
      BY <2>15, OverflowKeeps
    <2>16. CASE WriteOutput
      BY <2>16, OverflowKeeps
    <2> QED BY <1>1, <2>1, <2>2, <2>3, <2>4, <2>5, <2>6, <2>7, <2>8, <2>9, <2>10, <2>11, <2>12,
               <2>13, <2>14, <2>15, <2>16 DEF BindgenStep
  <1>2. CASE UNCHANGED bindvars
    BY <1>2, StutterKeeps
  <1>3. WrapperStep => UNCHANGED bindvars
    BY DEF WrapperStep, Same, Load, BindRequired, ReturnFunctions, CloseLibrary, CallRich, PassAsIs,
           PrepareRecord, PrepareThrows, CallNative, FreePrepared
  <1>4. UNCHANGED wrapvars => UNCHANGED bindvars
    BY DEF wrapvars
  <1> QED BY <1>1, <1>2, <1>3, <1>4 DEF Next

(* Through collecting and printing, the tables follow the header, what is    *)
(* printed follows the tables, and what is being printed was accepted or is  *)
(* behind a pointer.                                                       *)
THEOREM BindgenInvariant == Spec => []IInv
  <1>1. WrapInit => IInv
    BY InitFollows DEF WrapInit
  <1>2. IInv /\ [Next]_wrapvars => IInv'
    BY StepKeeps
  <1> QED BY <1>1, <1>2, PTL DEF Spec

(* Records that name one another are whole once the visit that met the       *)
(* first of them is over.                                                  *)
THEOREM TablesAreWhole == Spec => []TablesWhole
  <1>1. IInv => TablesWhole
    <2> SUFFICES ASSUME IInv, phase # "build", NEW key \in Keys
                 PROVE  /\ table.records[key].complete => Len(Fields(key)) = Len(Body(key).fields)
                        /\ \A i \in DOMAIN Fields(key) : Mentions[Fields(key)[i].type] \subseteq Known
      BY DEF TablesWhole
    <2>1. building = <<>>
      BY DEF IInv, NamesFollow
    <2>2. /\ Fields(key) = FieldsOf(key) /\ (table.records[key].complete <=> IsDefinition(key))
          /\ Mentioned(FieldTypes(key)) \subseteq Known
      BY <2>1, EntryFacts
    <2>3. table.records[key].complete => Len(Fields(key)) = Len(Body(key).fields)
      BY <2>2 DEF FieldsOf
    <2>4. ASSUME NEW i \in DOMAIN Fields(key) PROVE Mentions[Fields(key)[i].type] \subseteq Known
      <3>1. Fields(key)[i].type \in Range(FieldTypes(key))
        BY DEF FieldTypes, Range
      <3> QED BY <2>2, <3>1 DEF Mentioned
    <2> QED BY <2>3, <2>4
  <1> QED BY <1>1, BindgenInvariant, PTL

(* Where the output of a wrapper has null for a type, it is behind a pointer. *)
THEOREM NullsAreBehindPointers == Spec => []NullsBehindPointers
  <1>1. IInv => NullsBehindPointers
    BY DEF IInv, PrintedFollow, IsReference, NullsBehindPointers
  <1> QED BY <1>1, BindgenInvariant, PTL

-----------------------------------------------------------------------------
(* Overflows *)

(* More records are open than there are: one of them is open twice.         *)
LEMMA OpenTwice ==
  ASSUME IInv, Overflow
  PROVE  mode # "json" /\ \E key \in DOMAIN header.body : InsideItself(key)
  <1>1. phase = "print" /\ Cardinality(Open) > Cardinality(Keys)
    BY DEF Overflow, StackIsGone
  <1>2. /\ TypeOK /\ stack \in Seq(Frames) /\ DOMAIN stack = 1 .. Len(stack) /\ Len(stack) \in Nat
        /\ \A i \in DOMAIN stack : FrameFollows(stack, i)
    BY <1>1, PrintingFacts
  <1>3. IsFiniteSet(Keys) /\ Keys \subseteq DOMAIN header.body
    BY <1>2 DEF TypeOK
  <1>4. IsFiniteSet(Open)
    <2>1. IsFiniteSet(1 .. Len(stack))
      BY <1>2, FS_Interval
    <2>2. Open \in SUBSET (1 .. Len(stack))
      BY <1>2 DEF Open
    <2> QED BY <2>1, <2>2, FS_Subset
  <1>5. \A i \in Open : i \in DOMAIN stack /\ stack[i].key # NoKey /\ stack[i].key \in Keys
    <2>1. \A i \in DOMAIN stack : stack[i] \in Frames
      BY <1>2
    <2> QED BY <2>1 DEF Open, Frames
  <1>6. PICK i \in Open, j \in Open : i # j /\ stack[i].key = stack[j].key
    <2> DEFINE f == [i \in Open |-> stack[i].key]
    <2>1. f \in [Open -> Keys]
      BY <1>5
    <2>2. Cardinality(Keys) < Cardinality(Open)
      <3>1. Cardinality(Keys) \in Nat /\ Cardinality(Open) \in Nat
        BY <1>3, <1>4, FS_CardinalityType
      <3> QED BY <1>1, <3>1
    <2> HIDE DEF f
    <2>3. PICK i \in Open, j \in Open : i # j /\ f[i] = f[j]
      BY <1>3, <1>4, <2>1, <2>2, FS_PigeonHole
    <2> QED BY <2>3 DEF f
  <1>7. ASSUME NEW k \in Open, NEW m \in Open, k < m, stack[k].key = stack[m].key
        PROVE  mode # "json" /\ \E key \in DOMAIN header.body : InsideItself(key)
    <2>1. FrameFollows(stack, m) /\ k \in 1 .. m /\ stack[m] \in Frames
      BY <1>2, <1>5, <1>7
    <2>2. stack[m].style \in {"schema", "abi"} /\ mode # "json"
      BY <1>5, <2>1 DEF FrameFollows, Frames
    <2>3. stack[m].key \in Inside[stack[m].style][stack[k].key]
      BY <1>5, <1>7, <2>1 DEF FrameFollows, InsideOpen
    <2>4. InsideItself(stack[m].key)
      BY <1>7, <2>2, <2>3 DEF InsideItself
    <2> QED BY <1>3, <1>5, <2>2, <2>4
  <1>8. i < j \/ j < i
    BY <1>2, <1>5, <1>6
  <1> QED BY <1>6, <1>7, <1>8

LEMMA HeaderStays ==
  ASSUME [Next]_wrapvars
  PROVE  /\ UNCHANGED <<header, mode>>
         /\ phase' = "overflowed" => phase = "overflowed" \/ Overflow
  <1>1. CASE BindgenStep
    BY <1>1 DEF BindgenStep, Parse, SkipOther, Visit, BuildType, BuildRecord, EndRecord, Visited,
                CollectFunction, CollectRecord, CollectEnum, CollectTypedef, BeginOutput, NextPart,
                PrintType, EndFrame, WriteOutput, Overflow
  <1>2. WrapperStep => UNCHANGED bindvars
    BY DEF WrapperStep, Same, Load, BindRequired, ReturnFunctions, CloseLibrary, CallRich, PassAsIs,
           PrepareRecord, PrepareThrows, CallNative, FreePrepared
  <1>3. UNCHANGED wrapvars => UNCHANGED bindvars
    BY DEF wrapvars
  <1>4. UNCHANGED bindvars => UNCHANGED <<header, mode, phase>>
    BY DEF bindvars
  <1> QED BY <1>1, <1>2, <1>3, <1>4 DEF Next

(* Printing runs out of stack only if a record is inside itself, and never   *)
(* when it prints JSON.                                                    *)
THEOREM OverflowsAreInside == Spec => []OverflowsOnlyInside
  <1>1. WrapInit => IInv /\ OverflowsOnlyInside
    <2>1. WrapInit => phase = "parse"
      BY DEF WrapInit, Init
    <2> QED BY <2>1, InitFollows DEF WrapInit, OverflowsOnlyInside
  <1>2. IInv /\ OverflowsOnlyInside /\ [Next]_wrapvars => (IInv /\ OverflowsOnlyInside)'
    <2> SUFFICES ASSUME IInv, OverflowsOnlyInside, [Next]_wrapvars, phase' = "overflowed"
                 PROVE  OverflowsOnlyInside'
      BY StepKeeps DEF OverflowsOnlyInside
    <2>1. UNCHANGED <<header, mode>> /\ (phase = "overflowed" \/ Overflow)
      BY HeaderStays
    <2>2. mode # "json" /\ \E key \in DOMAIN header.body : InsideItself(key)
      BY <2>1, OpenTwice DEF OverflowsOnlyInside
    <2>3. \A key : InsideItself(key)' <=> InsideItself(key)
      <3>1. Inside' = Inside
        BY <2>1, SameInside
      <3> QED BY <3>1 DEF InsideItself
    <2> QED BY <2>1, <2>2, <2>3 DEF OverflowsOnlyInside
  <1> QED BY <1>1, <1>2, PTL DEF Spec

-----------------------------------------------------------------------------
(* References *)

(* What names a type holds the name; there is a first name if there is any. *)
LEMMA NamesHeld ==
  ASSUME IInv, NEW key \in DOMAIN header.tag
  PROVE  /\ \A name \in NamesOf(key) : key \in HoldersOf(name)
         /\ Preferred(key) # NoName => Preferred(key) \in NamesOf(key)
  <1>1. header \in Headers /\ \A a \in aliases : \E d \in Range(Decls) : Aliased(a, d)
    BY DEF IInv, TypeOK, ExportsFollow, Aliased
  <1>2. ASSUME NEW name \in NamesOf(key) PROVE name \in Nat /\ key \in HoldersOf(name)
    <2>1. CASE name = Tag(key)
      BY <1>1, <2>1, HeaderFacts DEF HoldersOf
    <2>2. ASSUME NEW a \in aliases, a[1] = key, a[2] = name PROVE name \in Nat /\ key \in HoldersOf(name)
      <3>1. PICK d \in Range(Decls) : Aliased(a, d)
        BY <1>1
      <3>2. d.type.key = key /\ d.alias = name /\ d.what = "typedef" /\ d.type.k \in {"record", "enum"}
        BY <2>2, <3>1 DEF Aliased
      <3> QED BY <1>1, <3>2, HeaderFacts DEF HoldersOf
    <2> QED BY <2>1, <2>2 DEF NamesOf
  <1>3. ASSUME NamesOf(key) # {} PROVE Preferred(key) \in NamesOf(key)
    <2>1. NamesOf(key) \in SUBSET Nat
      BY <1>2
    <2>2. \E n \in NamesOf(key) : \A m \in NamesOf(key) : n <= m
      BY <1>3, <2>1, LeastNatural
    <2>3. Min(NamesOf(key)) \in NamesOf(key)
      BY <2>2 DEF Min
    <2> QED BY <1>3, <2>3 DEF Preferred
  <1> QED BY <1>2, <1>3 DEF Preferred

(* A table has under a name only what holds the name. *)
LEMMA TabledHolds ==
  ASSUME IInv, NEW p \in PrintedRecords \cup PrintedEnums
  PROVE  p[2] \in HoldersOf(p[1])
  <1>1. PICK key \in exported : \E n \in NamesOf(key) : p = <<n, key>>
    BY DEF PrintedRecords, PrintedEnums, Named
  <1>2. key \in DOMAIN header.tag
    BY DEF IInv, ExportsFollow
  <1> QED BY <1>1, <1>2, NamesHeld

(* What a declaration that has been visited names is exported. *)
LEMMA NamedIsExported ==
  ASSUME IInv, phase \in Printing, NEW key, NamedInTarget(key)
  PROVE  key \in exported
  <1>1. header \in Headers /\ next > Len(Decls) /\ next \in Nat
    BY DEF IInv, TypeOK, PrintedFollow
  <1>2. PICK i \in DOMAIN Decls : Decls[i].target /\ Exports(Decls[i], key)
    BY DEF NamedInTarget, Range
  <1>3. i < next
    <2>1. Decls \in Seq(Range(Decls))
      BY <1>1, HeaderFacts
    <2> QED BY <1>1, <2>1
  <1>4. key \in DOMAIN header.tag
    BY <1>1, <1>2, HeaderFacts, NeededNames DEF Exports
  <1> QED BY <1>2, <1>3, <1>4 DEF IInv, ExportsFollow

(* What a wrapper finds under a name is what the function takes, if an input *)
(* header itself names the type and no other type has the name.             *)
THEOREM ReferencesAreResolved == Spec => []ReferencesResolve
  <1>1. IInv => ReferencesResolve
    <2> SUFFICES ASSUME IInv, phase = "done", NEW r \in printed,
                        r.to \in {"record", "enum"}, NamedInTarget(r.key), ~Shared(r.name)
                 PROVE  {p[2] : p \in {q \in PrintedRecords \cup PrintedEnums : q[1] = r.name}} = {r.key}
      BY DEF ReferencesResolve
    <2>1. r.key \in exported /\ r.key \in DOMAIN header.tag
      BY NamedIsExported DEF IInv, ExportsFollow, Printing
    <2>2. IsReference(r)
      BY DEF IInv, PrintedFollow
    <2>3. r.name \in NamesOf(r.key) /\ r.key \in HoldersOf(r.name)
      BY <2>1, <2>2, NamesHeld DEF IsReference
    <2>4. <<r.name, r.key>> \in PrintedRecords \cup PrintedEnums
      <3>1. CASE r.key \in SchemaRecords[{}]
        BY <2>1, <2>3, <3>1 DEF PrintedRecords, Named
      <3>2. CASE r.key \in table.enums
        BY <2>1, <2>3, <3>2 DEF PrintedEnums, Named
      <3> QED BY <2>2, <3>1, <3>2 DEF IsReference
    <2>5. ASSUME NEW q \in PrintedRecords \cup PrintedEnums, q[1] = r.name PROVE q[2] = r.key
      <3>1. q[2] \in HoldersOf(r.name)
        BY <2>5, TabledHolds
      <3> QED BY <2>3, <3>1 DEF Shared
    <2> QED BY <2>4, <2>5
  <1> QED BY <1>1, BindgenInvariant, PTL

-----------------------------------------------------------------------------
(* The blocks of a call *)

(* The blocks are those the call in progress holds. *)
BlocksFollow ==
  /\ call = [fn |-> call.fn, at |-> call.at, held |-> call.held, step |-> call.step]
  /\ blocks = call.held
  /\ call.step = "none" => call.held = {}

LEMMA BlocksKept ==
  ASSUME BlocksFollow, [Next]_wrapvars
  PROVE  BlocksFollow'
  <1> USE DEF BlocksFollow
  <1>1. CASE UNCHANGED <<call, blocks>>
    BY <1>1
  <1>2. ASSUME NEW f \in RichFunctions, CallRich(f) PROVE BlocksFollow'
    BY <1>2 DEF CallRich, NoCall
  <1>3. CASE PassAsIs
    BY <1>3 DEF PassAsIs, Preparing
  <1>4. CASE PrepareRecord
    BY <1>4 DEF PrepareRecord, Preparing
  <1>5. CASE PrepareThrows
    BY <1>5 DEF PrepareThrows, NoCall
  <1>6. CASE CallNative
    BY <1>6 DEF CallNative
  <1>7. CASE FreePrepared
    BY <1>7 DEF FreePrepared, Freed, NoCall
  <1>8. CASE Load \/ BindRequired \/ ReturnFunctions \/ CloseLibrary
    BY <1>1, <1>8 DEF Load, BindRequired, ReturnFunctions, CloseLibrary
  <1>9. CASE BindgenStep /\ UNCHANGED <<library, unbound, usable, call, blocks, lost, faults>>
    BY <1>1, <1>9
  <1>10. CASE UNCHANGED wrapvars
    BY <1>1, <1>10 DEF wrapvars
  <1> QED BY <1>2, <1>3, <1>4, <1>5, <1>6, <1>7, <1>8, <1>9, <1>10 DEF Next, WrapperStep

(* By the time the wrapper of a function returns, every block it made for an *)
(* argument is freed, those of a preparation that threw left out.           *)
THEOREM PreparedIsFreed == Spec => []PreparedAreFreed
  <1>1. WrapInit => BlocksFollow
    BY DEF WrapInit, BlocksFollow, NoCall
  <1>2. BlocksFollow /\ [Next]_wrapvars => BlocksFollow'
    BY BlocksKept
  <1>3. BlocksFollow => PreparedAreFreed
    BY DEF BlocksFollow, PreparedAreFreed, NoCall
  <1> QED BY <1>1, <1>2, <1>3, PTL DEF Spec

-----------------------------------------------------------------------------
(* Sizes *)

LEMMA GreatestOf ==
  ASSUME NEW n \in Nat, NEW f \in [1 .. n -> Nat], NEW c \in Nat,
         NEW V, V = {c} \cup {f[i] : i \in 1 .. n}
  PROVE  Max(V) \in Nat /\ Max(V) \in V /\ \A v \in V : v <= Max(V)
  <1> DEFINE Upper(m, x) == x \in V /\ c <= x /\ \A i \in 1 .. n : i <= m => f[i] <= x
             N == {m \in Nat : \E x \in Nat : Upper(m, x)}
  <1>1. 0 \in N
    <2>1. Upper(0, c)
      OBVIOUS
    <2> QED BY <2>1
  <1>2. ASSUME NEW m \in N PROVE m + 1 \in N
    <2>1. PICK x \in Nat : Upper(m, x)
      OBVIOUS
    <2>2. CASE m + 1 \notin 1 .. n
      <3>1. Upper(m + 1, x)
        BY <2>1, <2>2
      <3> QED BY <3>1
    <2>3. CASE m + 1 \in 1 .. n
      <3> DEFINE y == IF x <= f[m + 1] THEN f[m + 1] ELSE x
      <3>1. y \in Nat /\ y \in V /\ x <= y /\ f[m + 1] <= y
        BY <2>1, <2>3
      <3> HIDE DEF y
      <3>2. c <= y
        BY <2>1, <3>1
      <3>3. ASSUME NEW i \in 1 .. n, i <= m + 1 PROVE f[i] <= y
        <4>1. i = m + 1 \/ i <= m
          BY <3>3
        <4>2. i <= m => f[i] <= x
          BY <2>1
        <4> QED BY <3>1, <4>1, <4>2
      <3>4. Upper(m + 1, y)
        BY <3>1, <3>2, <3>3
      <3> QED BY <3>1, <3>4
    <2> QED BY <2>2, <2>3
  <1>3. N \in SUBSET Nat
    OBVIOUS
  <1> HIDE DEF N
  <1>4. n \in N
    BY <1>1, <1>2, <1>3, SetInduction
  <1>5. PICK x \in Nat : Upper(n, x)
    BY <1>4 DEF N
  <1>6. \A v \in V : v <= x
    BY <1>5
  <1>7. \E m \in V : \A v \in V : m >= v
    BY <1>5, <1>6
  <1>8. Max(V) \in V /\ \A v \in V : Max(V) >= v
    BY <1>7, Zenon DEF Max
  <1>9. V \subseteq Nat
    OBVIOUS
  <1> QED BY <1>8, <1>9

LEMMA StartsAreNat ==
  ASSUME NEW n \in Nat, NEW sizes \in [1 .. n -> Nat]
  PROVE  Starts(sizes) \in [1 .. n -> Nat]
  <1> DEFINE S == 1 .. n
             Body_(i, g) == IF i = 1 THEN 0 ELSE g[i - 1] + sizes[i - 1]
             D == [i \in S |-> [g \in [S -> Nat] |-> Body_(i, g)]]
             depth == [i \in S |-> i]
  <1>1. depth \in [S -> Nat] /\ Nat # {}
    OBVIOUS
  <1>2. ASSUME NEW i \in S, NEW g \in [S -> Nat] PROVE Body_(i, g) \in Nat
    <2>1. i = 1 \/ i - 1 \in S
      OBVIOUS
    <2> QED BY <2>1
  <1>3. ASSUME NEW i \in S, NEW g \in [S -> Nat], NEW h \in [S -> Nat], \A j \in S : depth[j] < depth[i] => g[j] = h[j]
        PROVE  Body_(i, g) = Body_(i, h)
    <2>1. i = 1 \/ (i - 1 \in S /\ depth[i - 1] < depth[i])
      OBVIOUS
    <2> QED BY <1>3, <2>1
  <1> HIDE DEF depth, S, Body_
  <1>4. IsRecursive(S, Nat, depth, D)
    BY <1>1, <1>2, <1>3 DEF IsRecursive
  <1>5. \A i \in S : \A g \in [S -> Nat] : D[i][g] = Body_(i, g)
    OBVIOUS
  <1> HIDE DEF D
  <1>6. PICK f \in [S -> Nat] : \A i \in S : f[i] = D[i][f]
    BY <1>4, Recursion
  <1>7. f = [i \in S |-> Body_(i, f)]
    BY <1>5, <1>6
  <1>8. Starts(sizes) = [i \in S |-> Body_(i, Starts(sizes))]
    <2>1. DOMAIN sizes = S
      BY DEF S
    <2>2. Starts(sizes) = CHOOSE g : g = [i \in S |-> Body_(i, g)]
      BY <2>1, Zenon DEF Starts, Body_
    <2> QED BY <1>7, <2>2, Zenon
  <1> DEFINE start == Starts(sizes)
  <1>9. \A i \in S : start[i] = IF i = 1 THEN 0 ELSE start[i - 1] + sizes[i - 1]
    BY <1>8 DEF Body_
  <1>10. DOMAIN start = S /\ start = [i \in S |-> start[i]]
    BY <1>8
  <1> HIDE DEF start
  <1>11. \A i \in S : start[i] \in Nat
    <2> DEFINE N == {m \in Nat : m \in S => start[m] \in Nat}
    <2>1. 0 \in N
      BY DEF S
    <2>2. ASSUME NEW m \in N PROVE m + 1 \in N
      <3> SUFFICES ASSUME m + 1 \in S PROVE start[m + 1] \in Nat
        OBVIOUS
      <3>1. CASE m = 0
        BY <1>9, <3>1
      <3>2. CASE m # 0
        <4>1. m \in S /\ m + 1 # 1 /\ m + 1 - 1 = m
          BY <3>2 DEF S
        <4>2. sizes[m] \in Nat /\ start[m] \in Nat
          BY <4>1 DEF S
        <4>3. start[m + 1] = start[m] + sizes[m]
          BY <1>9, <4>1
        <4> QED BY <4>2, <4>3
      <3> QED BY <3>1, <3>2
    <2>3. N \in SUBSET Nat
      OBVIOUS
    <2> HIDE DEF N
    <2>4. N = Nat
      BY <2>1, <2>2, <2>3, SetInduction
    <2> QED BY <2>4 DEF N, S
  <1>12. start \in [S -> Nat]
    BY <1>10, <1>11
  <1> QED BY <1>12 DEF S, start

(* What a record holds by value has a lower rank.                           *)
FieldType(key, i) == Fields(key)[i].type
HoldsAt(key, i) == Kind(FieldType(key, i)) = "record"
Layered(rank) ==
  /\ rank \in [Keys -> Nat]
  /\ \A key \in Keys :
       /\ Len(Fields(key)) \in Nat /\ DOMAIN Fields(key) = 1 .. Len(Fields(key))
       /\ \A i \in DOMAIN Fields(key) :
            /\ Kind(FieldType(key, i)) = "array" => FieldType(key, i).count \in Nat
            /\ HoldsAt(key, i) => FieldType(key, i).key \in Keys /\ rank[FieldType(key, i).key] < rank[key]
            /\ ToRecord(FieldType(key, i)) => FieldType(key, i).to.key \in Keys

LEMMA RecordLayers ==
  ASSUME IInv, building = <<>>
  PROVE  \E rank : Layered(rank)
  <1>1. TypeOK /\ header \in Headers /\ IsHeader(header) /\ Keys \subseteq DOMAIN header.body
    BY HeadersAssumption DEF IInv, TypeOK
  <1>2. PICK rank \in [DOMAIN header.body -> 0 .. Cardinality(DOMAIN header.body)] :
          \A key \in DOMAIN header.body : \A field \in Range(header.body[key].fields) :
            field.type.k = "record" => rank[field.type.key] < rank[key]
    BY <1>1, Zenon DEF IsHeader
  <1>3. Cardinality(DOMAIN header.body) \in Nat
    <2>1. IsFiniteSet(DOMAIN header.body)
      BY <1>1, Zenon DEF IsHeader
    <2> QED BY <2>1, FS_CardinalityType
  <1> DEFINE depth == [key \in Keys |-> rank[key]]
  <1>4. depth \in [Keys -> Nat]
    BY <1>1, <1>2, <1>3
  <1>5. ASSUME NEW key \in Keys
        PROVE  /\ Len(Fields(key)) \in Nat /\ DOMAIN Fields(key) = 1 .. Len(Fields(key))
               /\ \A i \in DOMAIN Fields(key) :
                    /\ Kind(FieldType(key, i)) = "array" => FieldType(key, i).count \in Nat
                    /\ HoldsAt(key, i) =>
                         FieldType(key, i).key \in Keys /\ depth[FieldType(key, i).key] < depth[key]
                    /\ ToRecord(FieldType(key, i)) => FieldType(key, i).to.key \in Keys
    <2>1. /\ key \in DOMAIN header.body /\ Fields(key) = FieldsOf(key)
          /\ FieldTypes(key) \in Seq(CTypes) /\ Mentioned(FieldTypes(key)) \subseteq Known
      BY EntryFacts
    <2>2. FieldsOf(key) \in Seq([flaw : STRING, type : CTypes])
      BY <1>1, <2>1, HeaderFacts
    <2>3. Len(Fields(key)) \in Nat /\ DOMAIN Fields(key) = 1 .. Len(Fields(key))
      BY <2>1, <2>2
    <2>4. ASSUME NEW i \in DOMAIN Fields(key)
          PROVE  /\ Kind(FieldType(key, i)) = "array" => FieldType(key, i).count \in Nat
                 /\ HoldsAt(key, i) =>
                      FieldType(key, i).key \in Keys /\ depth[FieldType(key, i).key] < depth[key]
                 /\ ToRecord(FieldType(key, i)) => FieldType(key, i).to.key \in Keys
      <3> DEFINE t == FieldType(key, i)
      <3>1. t \in CTypes /\ Mentions[t] \subseteq Known
        <4>1. FieldTypes(key)[i] = t /\ i \in DOMAIN FieldTypes(key)
          BY DEF FieldTypes, FieldType
        <4>2. t \in CTypes /\ t \in Range(FieldTypes(key))
          BY <2>1, <4>1 DEF Range
        <4> QED BY <2>1, <4>2 DEF Mentioned
      <3>2. Kind(t) = "array" => t.count \in Nat
        BY <3>1, CTypesAssumption
      <3>3. HoldsAt(key, i) => t.key \in Keys /\ t.k = "record"
        BY <1>1, <3>1, Kinds, KnownNames DEF HoldsAt
      <3>4. ASSUME HoldsAt(key, i) PROVE depth[t.key] < depth[key]
        <4>1. Fields(key)[i] \in Range(Body(key).fields)
          BY <2>1 DEF FieldsOf, Range
        <4>2. rank[t.key] < rank[key]
          BY <1>2, <2>1, <3>3, <3>4, <4>1 DEF FieldType, Body
        <4> QED BY <3>3, <3>4, <4>2
      <3>5. ASSUME ToRecord(t) PROVE t.to.key \in Keys
        <4>1. t.to \in CTypes /\ t.to.k = "record" /\ Contents(t) = <<t.to>> /\ t.k = "pointer"
          BY <3>1, <3>5, Kinds DEF ToRecord
        <4>2. Mentions[t] = Mentions[t.to]
          BY <3>1, <4>1, MentionsOf, MentionedParts
        <4> QED BY <1>1, <3>1, <4>1, <4>2, KnownNames
      <3> QED BY <3>2, <3>3, <3>4, <3>5
    <2> QED BY <2>3, <2>4
  <1> HIDE DEF depth
  <1>6. Layered(depth)
    BY <1>4, <1>5 DEF Layered
  <1> QED BY <1>6

LEMMA RecordInduction ==
  ASSUME NEW rank, Layered(rank), NEW P \in SUBSET Keys,
         \A key \in Keys : (\A i \in DOMAIN Fields(key) : HoldsAt(key, i) => FieldType(key, i).key \in P) => key \in P
  PROVE  P = Keys
  <1> DEFINE N == {n \in Nat : \A key \in Keys : rank[key] < n => key \in P}
  <1>1. rank \in [Keys -> Nat]
    BY DEF Layered
  <1>2. 0 \in N
    BY <1>1
  <1>3. ASSUME NEW n \in N PROVE n + 1 \in N
    <2>1. ASSUME NEW key \in Keys, rank[key] < n + 1 PROVE key \in P
      <3>1. ASSUME NEW i \in DOMAIN Fields(key), HoldsAt(key, i) PROVE FieldType(key, i).key \in P
        <4>1. FieldType(key, i).key \in Keys /\ rank[FieldType(key, i).key] < rank[key]
          BY <3>1 DEF Layered
        <4>2. rank[FieldType(key, i).key] < n
          BY <1>1, <2>1, <4>1
        <4> QED BY <4>1, <4>2
      <3> QED BY <3>1
    <2> QED BY <2>1
  <1>4. N \in SUBSET Nat
    OBVIOUS
  <1> HIDE DEF N
  <1>5. N = Nat
    BY <1>2, <1>3, <1>4, SetInduction
  <1>6. ASSUME NEW key \in Keys PROVE key \in P
    <2>1. rank[key] + 1 \in Nat /\ rank[key] < rank[key] + 1
      BY <1>1
    <2> QED BY <1>5, <2>1 DEF N
  <1> QED BY <1>6

(* A recursion that asks g only about what the record holds.                 *)
IsRecordRecursion(T, D) ==
  /\ T # {} /\ D \in [Keys -> [[Keys -> T] -> T]]
  /\ \A key \in Keys : \A g, h \in [Keys -> T] :
       (\A i \in DOMAIN Fields(key) : HoldsAt(key, i) => g[FieldType(key, i).key] = h[FieldType(key, i).key])
         => D[key][g] = D[key][h]

LEMMA RecordRecursion ==
  ASSUME NEW rank, Layered(rank), NEW T, NEW D, IsRecordRecursion(T, D)
  PROVE  \E f \in [Keys -> T] : \A key \in Keys : f[key] = D[key][f]
  <1>1. rank \in [Keys -> Nat]
    BY DEF Layered
  <1>2. ASSUME NEW key \in Keys, NEW g \in [Keys -> T], NEW h \in [Keys -> T],
               \A k \in Keys : rank[k] < rank[key] => g[k] = h[k]
        PROVE  D[key][g] = D[key][h]
    <2>1. \A i \in DOMAIN Fields(key) : HoldsAt(key, i) => g[FieldType(key, i).key] = h[FieldType(key, i).key]
      BY <1>2 DEF Layered
    <2> QED BY <2>1 DEF IsRecordRecursion
  <1>3. IsRecursive(Keys, T, rank, D)
    BY <1>1, <1>2 DEF IsRecursive, IsRecordRecursion
  <1> QED BY <1>3, Recursion

(* The words of the fields, where those of what the record holds are known.  *)
Agree(g, h, key) ==
  \A i \in DOMAIN Fields(key) : HoldsAt(key, i) => g[FieldType(key, i).key] = h[FieldType(key, i).key]
AreNat(g, key) == \A i \in DOMAIN Fields(key) : HoldsAt(key, i) => g[FieldType(key, i).key] \in Nat

LEMMA SizesAgree ==
  ASSUME NEW key, NEW g, NEW h, Agree(g, h, key)
  PROVE  Sizes(g, key) = Sizes(h, key) /\ \A i : Offset(g, key, i) = Offset(h, key, i)
  <1>1. ASSUME NEW i \in DOMAIN Fields(key)
        PROVE  FieldWords(g, Fields(key)[i].type) = FieldWords(h, Fields(key)[i].type)
    <2>1. CASE HoldsAt(key, i)
      BY <2>1 DEF HoldsAt, FieldType, FieldWords, Agree
    <2>2. CASE ~HoldsAt(key, i)
      BY <2>2 DEF HoldsAt, FieldType, FieldWords
    <2> QED BY <2>1, <2>2
  <1>2. Sizes(g, key) = Sizes(h, key)
    BY <1>1 DEF Sizes
  <1> QED BY <1>2, Zenon DEF Offset

LEMMA SizesAreNat ==
  ASSUME NEW rank, Layered(rank), NEW key \in Keys, NEW g, AreNat(g, key)
  PROVE  /\ Sizes(g, key) \in [1 .. Len(Fields(key)) -> Nat]
         /\ \A i \in 1 .. Len(Fields(key)) :
              /\ Offset(g, key, i) \in Nat
              /\ Sizes(g, key)[i] = FieldWords(g, FieldType(key, i))
              /\ FieldWords(g, FieldType(key, i)) \in Nat
  <1>1. Len(Fields(key)) \in Nat /\ DOMAIN Fields(key) = 1 .. Len(Fields(key))
    BY DEF Layered
  <1>2. ASSUME NEW i \in 1 .. Len(Fields(key)) PROVE FieldWords(g, Fields(key)[i].type) \in Nat
    <2>1. Kind(FieldType(key, i)) = "array" => FieldType(key, i).count \in Nat
      BY <1>1 DEF Layered
    <2>2. Kind(FieldType(key, i)) = "record" => g[FieldType(key, i).key] \in Nat
      BY <1>1 DEF AreNat, HoldsAt
    <2> QED BY <2>1, <2>2 DEF FieldWords, FieldType
  <1>3. Sizes(g, key) = [i \in 1 .. Len(Fields(key)) |-> FieldWords(g, Fields(key)[i].type)]
    BY <1>1 DEF Sizes
  <1>4. Sizes(g, key) \in [1 .. Len(Fields(key)) -> Nat]
    BY <1>2, <1>3
  <1>5. Starts(Sizes(g, key)) \in [1 .. Len(Fields(key)) -> Nat]
    BY <1>1, <1>4, StartsAreNat
  <1>6. ASSUME NEW i \in 1 .. Len(Fields(key)) PROVE Offset(g, key, i) \in Nat
    BY <1>5 DEF Offset
  <1>7. ASSUME NEW i \in 1 .. Len(Fields(key)) PROVE Sizes(g, key)[i] = FieldWords(g, FieldType(key, i))
    BY <1>3 DEF FieldType
  <1> QED BY <1>2, <1>4, <1>6, <1>7 DEF FieldType

LEMMA RecordWordsDef ==
  ASSUME NEW rank, Layered(rank)
  PROVE  /\ RecordWords \in [Keys -> Nat]
         /\ \A key \in Keys : \A i \in DOMAIN Fields(key) :
              Offset(RecordWords, key, i) + FieldWords(RecordWords, FieldType(key, i)) <= RecordWords[key]
  <1> DEFINE Ends(key, g) == {0} \cup {Offset(g, key, i) + Sizes(g, key)[i] : i \in DOMAIN Fields(key)}
             Body_(key, g) == Max(Ends(key, g))
             D == [key \in Keys |-> [g \in [Keys -> Nat] |-> Body_(key, g)]]
  <1>1. ASSUME NEW key \in Keys, NEW g, AreNat(g, key)
        PROVE  Body_(key, g) \in Nat /\ \A v \in Ends(key, g) : v <= Body_(key, g)
    <2> DEFINE n == Len(Fields(key))
               f == [i \in 1 .. n |-> Offset(g, key, i) + Sizes(g, key)[i]]
    <2>1. n \in Nat /\ DOMAIN Fields(key) = 1 .. n
      BY DEF Layered
    <2>2. f \in [1 .. n -> Nat]
      BY <1>1, SizesAreNat
    <2>3. Ends(key, g) = {0} \cup {f[i] : i \in 1 .. n}
      BY <2>1
    <2> HIDE DEF f, n, Ends
    <2> QED BY <2>1, <2>2, <2>3, GreatestOf
  <1>2. ASSUME NEW key \in Keys, NEW g, NEW h, Agree(g, h, key) PROVE Body_(key, g) = Body_(key, h)
    <2>1. Ends(key, g) = Ends(key, h)
      BY <1>2, SizesAgree
    <2> QED BY <2>1
  <1>3. ASSUME NEW key \in Keys, NEW g \in [Keys -> Nat] PROVE AreNat(g, key)
    BY DEF AreNat, Layered
  <1> HIDE DEF Body_
  <1>4. IsRecordRecursion(Nat, D)
    BY <1>1, <1>2, <1>3 DEF IsRecordRecursion, Agree
  <1>5. \A key \in Keys : \A g \in [Keys -> Nat] : D[key][g] = Body_(key, g)
    OBVIOUS
  <1> HIDE DEF D
  <1>6. PICK f \in [Keys -> Nat] : \A key \in Keys : f[key] = D[key][f]
    BY <1>4, RecordRecursion
  <1>7. f = [key \in Keys |-> Body_(key, f)]
    BY <1>5, <1>6
  <1>8. RecordWords = [key \in Keys |-> Body_(key, RecordWords)]
    <2>1. RecordWords = CHOOSE g : g = [key \in Keys |-> Body_(key, g)]
      BY Zenon DEF RecordWords, Body_, Ends
    <2> QED BY <1>7, <2>1, Zenon
  <1>9. RecordWords = f
    <2> DEFINE P == {key \in Keys : RecordWords[key] = f[key]}
    <2>1. ASSUME NEW key \in Keys, \A i \in DOMAIN Fields(key) : HoldsAt(key, i) => FieldType(key, i).key \in P
          PROVE  key \in P
      <3>1. Agree(RecordWords, f, key)
        BY <2>1 DEF Agree
      <3> QED BY <1>2, <1>7, <1>8, <3>1
    <2>2. P \in SUBSET Keys
      OBVIOUS
    <2> HIDE DEF P
    <2>3. P = Keys
      BY <2>1, <2>2, RecordInduction
    <2> QED BY <1>7, <1>8, <2>3 DEF P
  <1>10. RecordWords \in [Keys -> Nat]
    BY <1>6, <1>9
  <1>11. ASSUME NEW key \in Keys, NEW i \in DOMAIN Fields(key)
         PROVE  Offset(RecordWords, key, i) + FieldWords(RecordWords, FieldType(key, i)) <= RecordWords[key]
    <2>1. AreNat(RecordWords, key)
      BY <1>3, <1>10
    <2>2. RecordWords[key] = Body_(key, RecordWords)
      BY <1>8
    <2>3. Sizes(RecordWords, key)[i] = FieldWords(RecordWords, FieldType(key, i))
      BY <2>1, SizesAreNat DEF Layered
    <2> QED BY <1>1, <2>1, <2>2, <2>3
  <1> QED BY <1>10, <1>11

LEMMA RecordTouchedDef ==
  ASSUME NEW rank, Layered(rank), NEW longer \in Nat
  PROVE  /\ RecordTouched(longer) \in [Keys -> Nat]
         /\ \A key \in Keys :
              (\A i \in DOMAIN Fields(key) :
                 Touched(longer, RecordTouched(longer), FieldType(key, i)) <= FieldWords(RecordWords, FieldType(key, i)))
                => RecordTouched(longer)[key] <= RecordWords[key]
         /\ \A key \in Keys :
              RecordTouched(longer)[key] =
                Max({RecordWords[key]}
                      \cup {Offset(RecordWords, key, i) + Touched(longer, RecordTouched(longer), Fields(key)[i].type) :
                            i \in DOMAIN Fields(key)})
  <1> DEFINE Ends(key, g) ==
               {RecordWords[key]}
                 \cup {Offset(RecordWords, key, i) + Touched(longer, g, Fields(key)[i].type) : i \in DOMAIN Fields(key)}
             Body_(key, g) == Max(Ends(key, g))
             D == [key \in Keys |-> [g \in [Keys -> Nat] |-> Body_(key, g)]]
  <1>1. RecordWords \in [Keys -> Nat] /\ \A key \in Keys : AreNat(RecordWords, key)
    BY RecordWordsDef DEF AreNat, Layered
  <1>2. ASSUME NEW key \in Keys, NEW g, AreNat(g, key), NEW i \in DOMAIN Fields(key)
        PROVE  Touched(longer, g, FieldType(key, i)) \in Nat /\ Offset(RecordWords, key, i) \in Nat
    <2> DEFINE t == FieldType(key, i)
    <2>1. FieldWords(RecordWords, t) \in Nat /\ Offset(RecordWords, key, i) \in Nat
      <3>1. i \in 1 .. Len(Fields(key))
        BY DEF Layered
      <3> QED BY <1>1, <3>1, SizesAreNat
    <2>2. Kind(t) = "record" => g[t.key] \in Nat
      BY <1>2 DEF AreNat, HoldsAt
    <2>3. ToRecord(t) => RecordWords[t.to.key] \in Nat /\ Kind(t) = "pointer"
      BY <1>1 DEF Layered, ToRecord
    <2> QED BY <2>1, <2>2, <2>3 DEF Touched, NodeTouched, LuaTouched, FieldTouched
  <1>3. ASSUME NEW key \in Keys, NEW g, AreNat(g, key)
        PROVE  Body_(key, g) \in Nat /\ Body_(key, g) \in Ends(key, g)
    <2> DEFINE n == Len(Fields(key))
               f == [i \in 1 .. n |-> Offset(RecordWords, key, i) + Touched(longer, g, Fields(key)[i].type)]
    <2>1. n \in Nat /\ DOMAIN Fields(key) = 1 .. n
      BY DEF Layered
    <2>2. f \in [1 .. n -> Nat]
      BY <1>2, <1>3, <2>1 DEF FieldType
    <2>3. Ends(key, g) = {RecordWords[key]} \cup {f[i] : i \in 1 .. n}
      BY <2>1
    <2>4. RecordWords[key] \in Nat
      BY <1>1
    <2> HIDE DEF f, n, Ends
    <2> QED BY <2>1, <2>2, <2>3, <2>4, GreatestOf
  <1>4. ASSUME NEW key \in Keys, NEW g, NEW h, Agree(g, h, key) PROVE Body_(key, g) = Body_(key, h)
    <2>1. ASSUME NEW i \in DOMAIN Fields(key) PROVE Touched(longer, g, Fields(key)[i].type) = Touched(longer, h, Fields(key)[i].type)
      <3>1. CASE HoldsAt(key, i)
        BY <1>4, <3>1 DEF Agree, HoldsAt, FieldType, Touched, NodeTouched, LuaTouched, FieldTouched, ToRecord
      <3>2. CASE ~HoldsAt(key, i)
        BY <3>2 DEF HoldsAt, FieldType, Touched, NodeTouched, LuaTouched, FieldTouched
      <3> QED BY <3>1, <3>2
    <2>2. Ends(key, g) = Ends(key, h)
      BY <2>1
    <2> QED BY <2>2
  <1>5. ASSUME NEW key \in Keys, NEW g \in [Keys -> Nat] PROVE AreNat(g, key)
    BY DEF AreNat, Layered
  <1> HIDE DEF Body_
  <1>6. IsRecordRecursion(Nat, D)
    BY <1>3, <1>4, <1>5 DEF IsRecordRecursion, Agree
  <1>7. \A key \in Keys : \A g \in [Keys -> Nat] : D[key][g] = Body_(key, g)
    OBVIOUS
  <1> HIDE DEF D
  <1>8. PICK f \in [Keys -> Nat] : \A key \in Keys : f[key] = D[key][f]
    BY <1>6, RecordRecursion
  <1>9. f = [key \in Keys |-> Body_(key, f)]
    BY <1>7, <1>8
  <1>10. RecordTouched(longer) = [key \in Keys |-> Body_(key, RecordTouched(longer))]
    <2>1. RecordTouched(longer) = CHOOSE g : g = [key \in Keys |-> Body_(key, g)]
      BY Zenon DEF RecordTouched, Body_, Ends
    <2> QED BY <1>9, <2>1, Zenon
  <1>11. RecordTouched(longer) = f
    <2> DEFINE P == {key \in Keys : RecordTouched(longer)[key] = f[key]}
    <2>1. ASSUME NEW key \in Keys, \A i \in DOMAIN Fields(key) : HoldsAt(key, i) => FieldType(key, i).key \in P
          PROVE  key \in P
      <3>1. Agree(RecordTouched(longer), f, key)
        BY <2>1 DEF Agree
      <3> QED BY <1>4, <1>9, <1>10, <3>1
    <2>2. P \in SUBSET Keys
      OBVIOUS
    <2> HIDE DEF P
    <2>3. P = Keys
      BY <2>1, <2>2, RecordInduction
    <2> QED BY <1>9, <1>10, <2>3 DEF P
  <1>12. RecordTouched(longer) \in [Keys -> Nat]
    BY <1>8, <1>11
  <1>13. ASSUME NEW key \in Keys,
                \A i \in DOMAIN Fields(key) :
                  Touched(longer, RecordTouched(longer), FieldType(key, i)) <= FieldWords(RecordWords, FieldType(key, i))
         PROVE  RecordTouched(longer)[key] <= RecordWords[key]
    <2>1. AreNat(RecordTouched(longer), key)
      BY <1>5, <1>12
    <2>2. RecordTouched(longer)[key] \in Ends(key, RecordTouched(longer))
      BY <1>3, <1>10, <2>1
    <2>3. ASSUME NEW i \in DOMAIN Fields(key)
          PROVE  Offset(RecordWords, key, i) + Touched(longer, RecordTouched(longer), Fields(key)[i].type) <= RecordWords[key]
      <3> DEFINE t == FieldType(key, i)
      <3>1. Touched(longer, RecordTouched(longer), t) \in Nat /\ Offset(RecordWords, key, i) \in Nat
        BY <1>2, <2>1
      <3>2. FieldWords(RecordWords, t) \in Nat
        <4>1. i \in 1 .. Len(Fields(key))
          BY DEF Layered
        <4> QED BY <1>1, <4>1, SizesAreNat
      <3>3. Offset(RecordWords, key, i) + FieldWords(RecordWords, t) <= RecordWords[key]
        BY RecordWordsDef
      <3>4. Touched(longer, RecordTouched(longer), t) <= FieldWords(RecordWords, t) /\ RecordWords[key] \in Nat /\ Fields(key)[i].type = t
        BY <1>1, <1>13 DEF FieldType
      <3> HIDE DEF t
      <3> QED BY <3>1, <3>2, <3>3, <3>4
    <2>4. RecordWords[key] \in Nat
      BY <1>1
    <2> QED BY <2>2, <2>3, <2>4
  <1>14. \A key \in Keys : RecordTouched(longer)[key] = Max(Ends(key, RecordTouched(longer)))
    BY <1>10 DEF Body_
  <1> QED BY <1>12, <1>13, <1>14

LEMMA HasPointerDef ==
  ASSUME NEW rank, Layered(rank)
  PROVE  /\ HasPointer \in [Keys -> BOOLEAN]
         /\ \A key \in Keys : ~HasPointer[key] => \A i \in DOMAIN Fields(key) :
              /\ ~(ToRecord(FieldType(key, i)) /\ Compiles[FieldType(key, i).to.key])
              /\ HoldsAt(key, i) => ~HasPointer[FieldType(key, i).key]
  <1> DEFINE Body_(key, g) ==
               \E i \in DOMAIN Fields(key) :
                 LET t == Fields(key)[i].type
                 IN (ToRecord(t) /\ Compiles[t.to.key]) \/ (Kind(t) = "record" /\ g[t.key])
             D == [key \in Keys |-> [g \in [Keys -> BOOLEAN] |-> Body_(key, g)]]
  <1>1. ASSUME NEW key \in Keys, NEW g PROVE Body_(key, g) \in BOOLEAN
    OBVIOUS
  <1>2. ASSUME NEW key \in Keys, NEW g, NEW h, Agree(g, h, key) PROVE Body_(key, g) = Body_(key, h)
    <2>1. ASSUME NEW i \in DOMAIN Fields(key), Kind(Fields(key)[i].type) = "record"
          PROVE  g[Fields(key)[i].type.key] = h[Fields(key)[i].type.key]
      BY <1>2, <2>1 DEF Agree, HoldsAt, FieldType
    <2>2. Body_(key, g) <=> Body_(key, h)
      BY <2>1, Zenon
    <2> HIDE DEF Body_
    <2> QED BY <1>1, <2>2
  <1> HIDE DEF Body_
  <1>3. IsRecordRecursion(BOOLEAN, D)
    BY <1>1, <1>2 DEF IsRecordRecursion, Agree
  <1>4. \A key \in Keys : \A g \in [Keys -> BOOLEAN] : D[key][g] = Body_(key, g)
    OBVIOUS
  <1> HIDE DEF D
  <1>5. PICK f \in [Keys -> BOOLEAN] : \A key \in Keys : f[key] = D[key][f]
    BY <1>3, RecordRecursion
  <1>6. f = [key \in Keys |-> Body_(key, f)]
    BY <1>4, <1>5
  <1>7. HasPointer = [key \in Keys |-> Body_(key, HasPointer)]
    <2>1. HasPointer = CHOOSE g : g = [key \in Keys |-> Body_(key, g)]
      BY Zenon DEF HasPointer, Body_
    <2> QED BY <1>6, <2>1, Zenon
  <1>8. HasPointer \in [Keys -> BOOLEAN]
    BY <1>1, <1>7
  <1>9. ASSUME NEW key \in Keys, ~HasPointer[key], NEW i \in DOMAIN Fields(key)
        PROVE  /\ ~(ToRecord(FieldType(key, i)) /\ Compiles[FieldType(key, i).to.key])
               /\ HoldsAt(key, i) => ~HasPointer[FieldType(key, i).key]
    <2>1. HasPointer[key] = Body_(key, HasPointer)
      BY <1>7
    <2>2. ~Body_(key, HasPointer)
      BY <1>9, <2>1
    <2> QED BY <2>2, Zenon DEF Body_, FieldType, HoldsAt
  <1> QED BY <1>8, <1>9

LEMMA HasArrayDef ==
  ASSUME NEW rank, Layered(rank)
  PROVE  /\ HasArray \in [Keys -> BOOLEAN]
         /\ \A key \in Keys : ~HasArray[key] => \A i \in DOMAIN Fields(key) :
              /\ Kind(FieldType(key, i)) # "array"
              /\ HoldsAt(key, i) => ~HasArray[FieldType(key, i).key]
  <1> DEFINE Body_(key, g) ==
               \E i \in DOMAIN Fields(key) :
                 LET t == Fields(key)[i].type IN Kind(t) = "array" \/ (Kind(t) = "record" /\ g[t.key])
             D == [key \in Keys |-> [g \in [Keys -> BOOLEAN] |-> Body_(key, g)]]
  <1>1. ASSUME NEW key \in Keys, NEW g PROVE Body_(key, g) \in BOOLEAN
    OBVIOUS
  <1>2. ASSUME NEW key \in Keys, NEW g, NEW h, Agree(g, h, key) PROVE Body_(key, g) = Body_(key, h)
    <2>1. ASSUME NEW i \in DOMAIN Fields(key), Kind(Fields(key)[i].type) = "record"
          PROVE  g[Fields(key)[i].type.key] = h[Fields(key)[i].type.key]
      BY <1>2, <2>1 DEF Agree, HoldsAt, FieldType
    <2>2. Body_(key, g) <=> Body_(key, h)
      BY <2>1, Zenon
    <2> HIDE DEF Body_
    <2> QED BY <1>1, <2>2
  <1> HIDE DEF Body_
  <1>3. IsRecordRecursion(BOOLEAN, D)
    BY <1>1, <1>2 DEF IsRecordRecursion, Agree
  <1>4. \A key \in Keys : \A g \in [Keys -> BOOLEAN] : D[key][g] = Body_(key, g)
    OBVIOUS
  <1> HIDE DEF D
  <1>5. PICK f \in [Keys -> BOOLEAN] : \A key \in Keys : f[key] = D[key][f]
    BY <1>3, RecordRecursion
  <1>6. f = [key \in Keys |-> Body_(key, f)]
    BY <1>4, <1>5
  <1>7. HasArray = [key \in Keys |-> Body_(key, HasArray)]
    <2>1. HasArray = CHOOSE g : g = [key \in Keys |-> Body_(key, g)]
      BY Zenon DEF HasArray, Body_
    <2> QED BY <1>6, <2>1, Zenon
  <1>8. HasArray \in [Keys -> BOOLEAN]
    BY <1>1, <1>7
  <1>9. ASSUME NEW key \in Keys, ~HasArray[key], NEW i \in DOMAIN Fields(key)
        PROVE  /\ Kind(FieldType(key, i)) # "array"
               /\ HoldsAt(key, i) => ~HasArray[FieldType(key, i).key]
    <2>1. HasArray[key] = Body_(key, HasArray)
      BY <1>7
    <2>2. ~Body_(key, HasArray)
      BY <1>9, <2>1
    <2> QED BY <2>2, Zenon DEF Body_, FieldType, HoldsAt
  <1> QED BY <1>8, <1>9

-----------------------------------------------------------------------------
(* Copies *)

(* A copy goes no further than the record, unless the wrapper is for Node    *)
(* and the record, or one in it, has a pointer to a record.                *)
LEMMA TouchedInside ==
  ASSUME NEW rank, Layered(rank), NEW key \in Keys, mode # "node" \/ ~HasPointer[key]
  PROVE  RecordTouched(0)[key] <= RecordWords[key]
  <1> DEFINE P == {k \in Keys : mode # "node" \/ ~HasPointer[k] => RecordTouched(0)[k] <= RecordWords[k]}
  <1>1. ASSUME NEW k \in Keys, \A i \in DOMAIN Fields(k) : HoldsAt(k, i) => FieldType(k, i).key \in P
        PROVE  k \in P
    <2> SUFFICES ASSUME mode # "node" \/ ~HasPointer[k] PROVE RecordTouched(0)[k] <= RecordWords[k]
      OBVIOUS
    <2>1. ASSUME NEW i \in DOMAIN Fields(k)
          PROVE  Touched(0, RecordTouched(0), FieldType(k, i)) <= FieldWords(RecordWords, FieldType(k, i))
      <3> DEFINE t == FieldType(k, i)
      <3>1. FieldWords(RecordWords, t) \in Nat
        <4>1. i \in 1 .. Len(Fields(k)) /\ AreNat(RecordWords, k)
          BY RecordWordsDef DEF Layered, AreNat
        <4> QED BY <4>1, SizesAreNat
      <3>2. mode = "node" => ~(ToRecord(t) /\ Compiles[t.to.key])
        BY HasPointerDef
      <3>3. CASE HoldsAt(k, i)
        <4>1. t.key \in P /\ (mode # "node" \/ ~HasPointer[t.key])
          BY <1>1, <3>3, HasPointerDef
        <4>2. RecordTouched(0)[t.key] <= RecordWords[t.key] /\ Kind(t) = "record"
          BY <3>3, <4>1 DEF HoldsAt
        <4>3. Touched(0, RecordTouched(0), t) = RecordTouched(0)[t.key]
          BY <4>2 DEF Touched, NodeTouched, LuaTouched, FieldTouched, ToRecord
        <4>4. FieldWords(RecordWords, t) = RecordWords[t.key]
          BY <4>2 DEF FieldWords
        <4> QED BY <4>2, <4>3, <4>4
      <3>4. CASE ~HoldsAt(k, i)
        <4>1. Touched(0, RecordTouched(0), t) = FieldWords(RecordWords, t)
          BY <3>1, <3>2, <3>4 DEF Touched, NodeTouched, LuaTouched, FieldTouched, HoldsAt
        <4> QED BY <3>1, <4>1
      <3> QED BY <3>3, <3>4
    <2> QED BY <2>1, RecordTouchedDef
  <1>2. P \in SUBSET Keys
    OBVIOUS
  <1> HIDE DEF P
  <1>3. P = Keys
    BY <1>1, <1>2, RecordInduction
  <1> QED BY <1>3 DEF P

(* And nothing without an array is overrun, however long the arrays are.    *)
LEMMA TouchedAlike ==
  ASSUME NEW rank, Layered(rank), NEW longer \in Nat, NEW key \in Keys, ~HasArray[key]
  PROVE  RecordTouched(longer)[key] = RecordTouched(0)[key]
  <1> DEFINE P == {k \in Keys : ~HasArray[k] => RecordTouched(longer)[k] = RecordTouched(0)[k]}
  <1>1. ASSUME NEW k \in Keys, \A i \in DOMAIN Fields(k) : HoldsAt(k, i) => FieldType(k, i).key \in P
        PROVE  k \in P
    <2> SUFFICES ASSUME ~HasArray[k] PROVE RecordTouched(longer)[k] = RecordTouched(0)[k]
      OBVIOUS
    <2> DEFINE n(l, i) == Touched(l, RecordTouched(l), Fields(k)[i].type)
    <2>1. ASSUME NEW i \in DOMAIN Fields(k)
          PROVE  n(longer, i) = n(0, i)
      <3> DEFINE t == FieldType(k, i)
      <3>1. Kind(t) # "array" /\ (HoldsAt(k, i) => ~HasArray[t.key]) /\ Fields(k)[i].type = t
        BY HasArrayDef DEF FieldType
      <3>2. FieldTouched(longer, t) = FieldTouched(0, t)
        BY <3>1 DEF FieldTouched
      <3>3. CASE HoldsAt(k, i)
        <4>1. RecordTouched(longer)[t.key] = RecordTouched(0)[t.key] /\ Kind(t) = "record"
          BY <1>1, <3>1, <3>3 DEF HoldsAt
        <4>2. \A l : Touched(l, RecordTouched(l), t) = RecordTouched(l)[t.key]
          BY <4>1 DEF Touched, NodeTouched, LuaTouched, ToRecord
        <4> QED BY <3>1, <4>1, <4>2
      <3>4. CASE ~HoldsAt(k, i)
        BY <3>1, <3>2, <3>4 DEF Touched, NodeTouched, LuaTouched, HoldsAt
      <3> QED BY <3>3, <3>4
    <2> DEFINE ends(l) == {RecordWords[k]} \cup {Offset(RecordWords, k, i) + n(l, i) : i \in DOMAIN Fields(k)}
    <2>2. RecordTouched(longer)[k] = Max(ends(longer)) /\ RecordTouched(0)[k] = Max(ends(0))
      BY RecordTouchedDef
    <2> HIDE DEF n
    <2>3. ends(longer) = ends(0)
      BY <2>1
    <2> QED BY <2>2, <2>3
  <1>2. P \in SUBSET Keys
    OBVIOUS
  <1> HIDE DEF P
  <1>3. P = Keys
    BY <1>1, <1>2, RecordInduction
  <1> QED BY <1>3 DEF P

LEMMA FaultyCopies ==
  ASSUME IInv, building = <<>>, NEW key \in Keys, NEW longer \in Nat
  PROVE  /\ CopyFaults(longer, key) \ {"overrun"} # {} => mode = "node" /\ HasPointer[key]
         /\ "overrun" \in CopyFaults(longer, key) => longer # 0 /\ HasArray[key]
  <1>1. PICK rank : Layered(rank)
    BY RecordLayers
  <1>2. RecordTouched(0)[key] \in Nat /\ RecordWords[key] \in Nat
    BY <1>1, RecordTouchedDef, RecordWordsDef
  <1>3. ASSUME CopyFaults(longer, key) \ {"overrun"} # {}
        PROVE  RecordTouched(0)[key] > RecordWords[key] \/ (mode = "node" /\ HasPointer[key])
    BY <1>3 DEF CopyFaults
  <1>4. mode # "node" \/ ~HasPointer[key] => RecordTouched(0)[key] <= RecordWords[key]
    BY <1>1, TouchedInside
  <1>5. ASSUME "overrun" \in CopyFaults(longer, key) PROVE longer # 0 /\ HasArray[key]
    <2>1. RecordTouched(longer)[key] > RecordTouched(0)[key]
      BY <1>5 DEF CopyFaults
    <2>2. RecordTouched(longer)[key] # RecordTouched(0)[key]
      BY <1>2, <2>1
    <2>3. longer # 0
      BY <2>2
    <2>4. HasArray[key]
      BY <1>1, <2>2, TouchedAlike
    <2> QED BY <2>3, <2>4
  <1> QED BY <1>2, <1>3, <1>4, <1>5

CompilesOf(records) ==
  CHOOSE f : f = [key \in DOMAIN records |->
    \A i \in DOMAIN records[key].fields :
      LET t == records[key].fields[i].type
      IN Kind(t) # "unsupported" /\ (Kind(t) = "record" => f[t.key])]

PointersOf(records, compiles) ==
  CHOOSE f : f = [key \in DOMAIN records |->
    \E i \in DOMAIN records[key].fields :
      LET t == records[key].fields[i].type
      IN (ToRecord(t) /\ compiles[t.to.key]) \/ (Kind(t) = "record" /\ f[t.key])]

ArraysOf(records) ==
  CHOOSE f : f = [key \in DOMAIN records |->
    \E i \in DOMAIN records[key].fields :
      LET t == records[key].fields[i].type IN Kind(t) = "array" \/ (Kind(t) = "record" /\ f[t.key])]

LEMMA SamePointers ==
  ASSUME UNCHANGED <<header, mode, table, exported, aliases, functions>>
  PROVE  HasPointer' = HasPointer /\ HasArray' = HasArray /\ RichFunctions' = RichFunctions
  <1>1. Compiles = CompilesOf(table.records) /\ Compiles' = CompilesOf(table'.records)
    BY Zenon DEF Compiles, CompilesOf, Keys, Fields
  <1>2. Compiles' = Compiles
    BY <1>1, Zenon
  <1>3. /\ HasPointer = PointersOf(table.records, Compiles)
        /\ HasPointer' = PointersOf(table'.records, Compiles')
    BY Zenon DEF HasPointer, PointersOf, Keys, Fields
  <1>4. HasPointer' = HasPointer
    BY <1>2, <1>3, Zenon
  <1>5. HasArray = ArraysOf(table.records) /\ HasArray' = ArraysOf(table'.records)
    BY Zenon DEF HasArray, ArraysOf, Keys, Fields
  <1>6. HasArray' = HasArray
    BY <1>5, Zenon
  <1> QED BY <1>4, <1>6, SamePrinting

(* The wrapper is used only once it is written, and a function returns       *)
(* something.                                                              *)
CallsFollow ==
  /\ \A f \in DOMAIN functions : functions[f].types # <<>>
  /\ library # "none" => phase = "done"
  /\ usable => library # "none"
  /\ call.step # "none" =>
       /\ phase = "done" /\ call.fn \in RichFunctions
       /\ call.at \in Nat \ {0, 1}
  /\ faults # {} => phase = "done"

LEMMA HeaderTypes ==
  ASSUME header \in Headers, NEW d \in Range(Decls), d.what = "function", d.external
  PROVE  d.types \in Seq(CTypes)
  <1>1. IsHeader(header)
    BY HeadersAssumption
  <1>2. Needs(d) \in Seq(CTypes)
    BY <1>1, Zenon DEF IsHeader, Decls
  <1>3. Needs(d) = d.types
    BY DEF Needs
  <1> QED BY <1>2, <1>3

LEMMA FunctionsReturn ==
  ASSUME IInv, [Next]_wrapvars, \A f \in DOMAIN functions : functions[f].types # <<>>
  PROVE  \A f \in DOMAIN functions' : functions'[f].types # <<>>
  <1>1. CASE CollectFunction
    <2> DEFINE d == Decls[next]
    <2>1. d \in Range(Decls) /\ d.what = "function" /\ header \in Headers
      BY <1>1, VisitedFacts DEF CollectFunction
    <2>2. d.types # <<>>
      <3>1. IsHeader(header)
        BY <2>1, HeadersAssumption
      <3> QED BY <2>1, <3>1, Zenon DEF IsHeader, Decls
    <2>3. CASE ~d.external
      BY <1>1, <2>3 DEF CollectFunction
    <2>4. CASE d.external
      <3>1. PICK fn : fn.types = Signature(d.types) /\ functions' = With(functions, d.key, fn)
        <4>1. functions' = With(functions, d.key,
                 [types |-> Signature(d.types), variadic |-> d.variadic,
                  supported |-> \A t \in Range(Signature(d.types)) : Kind(t) \in Direct])
          BY <1>1, <2>4 DEF CollectFunction
        <4>2. \A a, b, c : [types |-> a, variadic |-> b, supported |-> c].types = a
          OBVIOUS
        <4> QED BY <4>1, <4>2, Zenon
      <3>2. d.types \in Seq(CTypes)
        BY <2>1, <2>4, HeaderTypes
      <3>3. Signature(d.types) # <<>>
        BY <2>2, <3>2, SignatureFacts
      <3> QED BY <3>1, <3>3 DEF With
    <2> QED BY <2>3, <2>4
  <1>2. CASE BindgenStep /\ ~CollectFunction
    <2>1. functions' = functions
      BY <1>2 DEF BindgenStep, Parse, SkipOther, Visit, BuildType, BuildRecord, EndRecord, tables,
                  CollectRecord, CollectEnum, CollectTypedef, BeginOutput, NextPart,
                  PrintType, EndFrame, WriteOutput, Overflow
    <2> QED BY <2>1
  <1>3. WrapperStep => UNCHANGED bindvars
    BY DEF WrapperStep, Same, Load, BindRequired, ReturnFunctions, CloseLibrary, CallRich, PassAsIs,
           PrepareRecord, PrepareThrows, CallNative, FreePrepared
  <1>4. UNCHANGED wrapvars => UNCHANGED bindvars
    BY DEF wrapvars
  <1>5. UNCHANGED bindvars => functions' = functions
    BY DEF bindvars, tables
  <1> QED BY <1>1, <1>2, <1>3, <1>4, <1>5 DEF Next

(* What may be wrong with copies.                                           *)
Explained(what) ==
  /\ what \ {"overrun"} # {} =>
       /\ mode = "node"
       /\ \E f \in RichFunctions : \E t \in Range(functions[f].types) :
            Kind(t) = "record" /\ HasPointer[t.key]
  /\ "overrun" \in what =>
       \E f \in RichFunctions : \E t \in Range(Tail(functions[f].types)) :
         Kind(t) = "record" /\ HasArray[t.key]

(* A record the call in progress takes or returns.                          *)
LEMMA CopiedRecords ==
  ASSUME IInv, CallsFollow, CopiesStayInside, call.step # "none",
         NEW i \in DOMAIN Types, Kind(Types[i]) = "record", NEW longer \in Nat, longer = 0 \/ i # 1,
         NEW more \in SUBSET CopyFaults(longer, Types[i].key)
  PROVE  Explained(faults \cup more)
  <1>1. call.fn \in RichFunctions /\ phase = "done" /\ TypeOK /\ building = <<>>
    BY DEF CallsFollow, IInv, NamesFollow
  <1>2. Types[i] \in Range(functions[call.fn].types)
    BY DEF Types, Range
  <1>3. Types[i].key \in SchemaRecords[{}]
    BY <1>1, <1>2, RichFacts
  <1>4. Types[i].key \in Keys
    <2>1. {} \in SUBSET Keys
      OBVIOUS
    <2> QED BY <1>1, <1>3, <2>1, Accepted
  <1>5. /\ more \ {"overrun"} # {} => mode = "node" /\ HasPointer[Types[i].key]
        /\ "overrun" \in more => i # 1 /\ HasArray[Types[i].key]
    BY <1>1, <1>4, FaultyCopies
  <1>6. ASSUME i # 1 PROVE Types[i] \in Range(Tail(functions[call.fn].types))
    <2>1. Types \in Seq(CTypes) /\ Types = functions[call.fn].types
      BY <1>1, RichFacts DEF Types
    <2>2. i \in 1 .. Len(Types) /\ Len(Types) \in Nat /\ Types # <<>>
      BY <2>1
    <2>3. i - 1 \in DOMAIN Tail(Types) /\ Tail(Types)[i - 1] = Types[i]
      BY <1>6, <2>1, <2>2
    <2> QED BY <2>1, <2>3 DEF Range
  <1>7. Explained(faults)
    BY DEF CopiesStayInside, Explained
  <1>8. ASSUME (faults \cup more) \ {"overrun"} # {}
        PROVE  /\ mode = "node"
               /\ \E f \in RichFunctions : \E t \in Range(functions[f].types) :
                    Kind(t) = "record" /\ HasPointer[t.key]
    <2>1. faults \ {"overrun"} # {} \/ more \ {"overrun"} # {}
      BY <1>8
    <2> QED BY <1>1, <1>2, <1>5, <1>7, <2>1 DEF Explained
  <1>9. ASSUME "overrun" \in faults \cup more
        PROVE  \E f \in RichFunctions : \E t \in Range(Tail(functions[f].types)) :
                 Kind(t) = "record" /\ HasArray[t.key]
    BY <1>1, <1>5, <1>6, <1>7, <1>9 DEF Explained
  <1> QED BY <1>8, <1>9 DEF Explained

LEMMA CallsKept ==
  ASSUME IInv, BlocksFollow, CallsFollow, CopiesStayInside, [Next]_wrapvars
  PROVE  CallsFollow' /\ CopiesStayInside'
  <1>1. \A f \in DOMAIN functions' : functions'[f].types # <<>>
    BY FunctionsReturn DEF CallsFollow
  <1>2. CASE BindgenStep /\ UNCHANGED <<library, unbound, usable, call, blocks, lost, faults>>
    <2>1. phase # "done"
      BY <1>2 DEF BindgenStep, Parse, SkipOther, Visit, BuildType, BuildRecord, EndRecord, Visited, BuildingType,
                  CollectFunction, CollectRecord, CollectEnum, CollectTypedef, BeginOutput, NextPart,
                  PrintType, EndFrame, WriteOutput, Overflow
    <2> QED BY <1>1, <1>2, <2>1 DEF CallsFollow, CopiesStayInside
  <1>3. ASSUME UNCHANGED bindvars
        PROVE  /\ UNCHANGED <<header, mode, phase, table, exported, aliases, functions>>
               /\ HasPointer' = HasPointer /\ HasArray' = HasArray /\ RichFunctions' = RichFunctions
    <2>1. UNCHANGED <<header, mode, phase, table, exported, aliases, functions>>
      BY <1>3 DEF bindvars, tables
    <2> QED BY <2>1, SamePointers
  <1>4. CASE UNCHANGED bindvars /\ UNCHANGED <<library, usable, call, faults>>
    BY <1>1, <1>3, <1>4 DEF CallsFollow, CopiesStayInside
  <1>5. CASE Load \/ BindRequired \/ ReturnFunctions \/ CloseLibrary
    <2>1. UNCHANGED bindvars /\ UNCHANGED <<call, faults>>
      BY <1>5 DEF Load, BindRequired, ReturnFunctions, CloseLibrary, Same
    <2>2. (library' # "none" => phase = "done") /\ (usable' => library' # "none")
      BY <1>5 DEF Load, BindRequired, ReturnFunctions, CloseLibrary, CallsFollow
    <2> QED BY <1>1, <1>3, <2>1, <2>2 DEF CallsFollow, CopiesStayInside
  <1>6. ASSUME NEW f \in RichFunctions, CallRich(f) PROVE CallsFollow' /\ CopiesStayInside'
    <2>1. UNCHANGED bindvars /\ UNCHANGED <<library, usable, faults>> /\ usable
      BY <1>6 DEF CallRich, Same
    <2>2. call'.fn = f /\ call'.at = 2
      BY <1>6 DEF CallRich
    <2> QED BY <1>1, <1>3, <2>1, <2>2 DEF CallsFollow, CopiesStayInside
  <1>7. CASE PassAsIs
    <2>1. UNCHANGED bindvars /\ UNCHANGED <<library, usable, faults>> /\ call.step # "none"
      BY <1>7 DEF PassAsIs, Preparing, Same
    <2>2. call'.fn = call.fn /\ call'.at = call.at + 1
      BY <1>7 DEF PassAsIs, BlocksFollow
    <2> QED BY <1>1, <1>3, <2>1, <2>2 DEF CallsFollow, CopiesStayInside
  <1>8. CASE PrepareRecord
    <2>1. UNCHANGED bindvars /\ UNCHANGED <<library, usable>> /\ call.step # "none"
      BY <1>8 DEF PrepareRecord, Preparing, Same
    <2>2. call'.fn = call.fn /\ call'.at = call.at + 1
      BY <1>8 DEF PrepareRecord, BlocksFollow
    <2>3. PICK longer \in Nat : \E more \in SUBSET CopyFaults(longer, Types[call.at].key) : faults' = faults \cup more
      <3>1. PICK longer \in Longer :
              faults' = faults \cup {} \/ faults' = faults \cup CopyFaults(longer, Types[call.at].key)
        BY <1>8 DEF PrepareRecord, Current
      <3>2. longer \in Nat
        BY LongerAssumption
      <3> QED BY <3>1, <3>2
    <2>4. call.at \in DOMAIN Types /\ Kind(Types[call.at]) = "record" /\ call.at # 1
      <3>1. call.at \in Nat \ {0, 1} /\ call.fn \in RichFunctions /\ TypeOK
        BY <2>1 DEF CallsFollow, IInv
      <3>2. Types \in Seq(CTypes)
        BY <3>1, RichFacts DEF Types
      <3>3. call.at <= Len(Types) /\ Kind(Types[call.at]) = "record"
        BY <1>8 DEF PrepareRecord, Preparing, Current
      <3> QED BY <3>1, <3>2, <3>3
    <2>5. Explained(faults')
      BY <2>1, <2>3, <2>4, CopiedRecords
    <2>6. CopiesStayInside'
      BY <1>3, <2>1, <2>5 DEF CopiesStayInside, Explained
    <2> QED BY <1>1, <1>3, <2>1, <2>2, <2>6 DEF CallsFollow
  <1>9. CASE PrepareThrows \/ FreePrepared
    <2>1. UNCHANGED bindvars /\ UNCHANGED <<library, usable, faults>>
      BY <1>9 DEF PrepareThrows, FreePrepared, Same
    <2>2. call'.step = "none"
      BY <1>9 DEF PrepareThrows, FreePrepared, NoCall
    <2> QED BY <1>1, <1>3, <2>1, <2>2 DEF CallsFollow, CopiesStayInside
  <1>10. CASE CallNative
    <2>1. UNCHANGED bindvars /\ UNCHANGED <<library, usable>> /\ call.step # "none"
      BY <1>10 DEF CallNative, Same
    <2>2. call'.fn = call.fn /\ call'.at = call.at
      BY <1>10 DEF CallNative, BlocksFollow
    <2>3. faults' = faults \/ (Kind(Types[1]) = "record" /\ faults' = faults \cup CopyFaults(0, Types[1].key))
      BY <1>10 DEF CallNative
    <2>4. 1 \in DOMAIN Types
      <3>1. call.fn \in RichFunctions /\ TypeOK
        BY <2>1 DEF CallsFollow, IInv
      <3>2. Types \in Seq(CTypes) /\ Types # <<>>
        BY <3>1, RichFacts DEF Types, CallsFollow
      <3> QED BY <3>2
    <2>5. CopiesStayInside'
      <3>1. CASE faults' = faults
        BY <1>3, <2>1, <3>1 DEF CopiesStayInside
      <3>2. CASE Kind(Types[1]) = "record" /\ faults' = faults \cup CopyFaults(0, Types[1].key)
        <4>1. Explained(faults')
          BY <2>1, <2>4, <3>2, CopiedRecords
        <4> QED BY <1>3, <2>1, <4>1 DEF CopiesStayInside, Explained
      <3> QED BY <2>3, <3>1, <3>2
    <2> QED BY <1>1, <1>3, <2>1, <2>2, <2>5 DEF CallsFollow
  <1>11. CASE UNCHANGED wrapvars
    <2>1. UNCHANGED bindvars /\ UNCHANGED <<library, usable, call, faults>>
      BY <1>11 DEF wrapvars
    <2> QED BY <1>4, <2>1
  <1> QED BY <1>2, <1>5, <1>6, <1>7, <1>8, <1>9, <1>10, <1>11 DEF Next, WrapperStep

(* Copying a record to or from its wrapper's object stays inside the record, *)
(* and stores what it is given, unless the wrapper is for Node and the       *)
(* record has a pointer to a record.  Only an argument with an array can be  *)
(* overrun, by an array longer than its field.                             *)
THEOREM CopiesAreInside == Spec => []CopiesStayInside
  <1>1. WrapInit => IInv /\ BlocksFollow /\ CallsFollow /\ CopiesStayInside
    BY InitFollows DEF WrapInit, Init, BlocksFollow, CallsFollow, CopiesStayInside, NoCall
  <1>2. IInv /\ BlocksFollow /\ CallsFollow /\ CopiesStayInside /\ [Next]_wrapvars
          => (IInv /\ BlocksFollow /\ CallsFollow /\ CopiesStayInside)'
    BY StepKeeps, CallsKept, BlocksKept
  <1> QED BY <1>1, <1>2, PTL DEF Spec
=============================================================================
