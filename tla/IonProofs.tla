----------------------------- MODULE IonProofs ------------------------------
(***************************************************************************)
(* Proofs about Ion, for any finite numbers of processes, threads and      *)
(* objects, when each process has one thread and no area is split: the     *)
(* counts are exact, nothing freed is used, areas and files pin what they  *)
(* reach, everything is given back, and every step is one of BufferLife.   *)
(*                                                                         *)
(* The parts: how often steps are in the stacks, and how a step changes    *)
(* that; how one changed object changes the sets that refer to objects;    *)
(* the invariant; one lemma per action that it is kept; what follows.      *)
(***************************************************************************)
EXTENDS Ion, FiniteSetTheorems, FunctionTheorems, SequenceTheorems, TLAPS

(* Where steps of a set are in the stacks w, and how many. *)
PlacesIn(w, S) == {x \in UNION {{t} \X DOMAIN w[t] : t \in Threads} : w[x[1]][x[2]] \in S}
CountIn(w, S)  == Cardinality(PlacesIn(w, S))

AllStacks == [Threads -> Seq(Steps)]

One(s, S) == IF s \in S THEN 1 ELSE 0

(* The stacks v are w with step a on top of thread t's. *)
IsPush(w, v, t, a) ==
  /\ Len(v[t]) = Len(w[t]) + 1 /\ v[t][1] = a
  /\ \A i \in 1 .. Len(w[t]) : v[t][i + 1] = w[t][i]
  /\ \A u \in Threads \ {t} : v[u] = w[u]

-----------------------------------------------------------------------------
(* A place is a thread and a position in its stack. *)
LEMMA PlaceIs ==
  ASSUME NEW w \in AllStacks, NEW S, NEW x
  PROVE  x \in PlacesIn(w, S)
           <=> \E t \in Threads : \E i \in 1 .. Len(w[t]) : x = <<t, i>> /\ w[t][i] \in S
<1> USE DEF AllStacks
<1>1. \A t \in Threads : DOMAIN w[t] = 1 .. Len(w[t])
  BY LenProperties
<1>2. ASSUME x \in PlacesIn(w, S)
      PROVE  \E t \in Threads : \E i \in 1 .. Len(w[t]) : x = <<t, i>> /\ w[t][i] \in S
  <2>1. PICK t \in Threads : x \in {t} \X DOMAIN w[t]
    BY <1>2 DEF PlacesIn
  <2>2. w[x[1]][x[2]] \in S
    BY <1>2 DEF PlacesIn
  <2>3. PICK i \in DOMAIN w[t] : x = <<t, i>>
    BY <2>1
  <2>4. w[t][i] \in S
    BY <2>2, <2>3
  <2> QED BY <1>1, <2>3, <2>4
<1>3. ASSUME NEW t \in Threads, NEW i \in 1 .. Len(w[t]), x = <<t, i>>, w[t][i] \in S
      PROVE  x \in PlacesIn(w, S)
  <2>1. x \in {t} \X DOMAIN w[t]
    BY <1>1, <1>3
  <2>2. w[x[1]][x[2]] \in S
    BY <1>3
  <2> QED BY <2>1, <2>2 DEF PlacesIn
<1> QED BY <1>2, <1>3

(* The stacks are finite, and a count is zero when there is no such step. *)
LEMMA CountFacts ==
  ASSUME NEW w \in AllStacks, NEW S
  PROVE  /\ IsFiniteSet(PlacesIn(w, S))
         /\ CountIn(w, S) \in Nat
         /\ CountIn(w, S) = 0 <=> \A t \in Threads : \A i \in 1 .. Len(w[t]) : w[t][i] \notin S
<1> USE DEF AllStacks
<1>1. \A t \in Threads : IsFiniteSet({t} \X DOMAIN w[t])
  <2> TAKE t \in Threads
  <2>1. DOMAIN w[t] = 1 .. Len(w[t]) /\ Len(w[t]) \in Nat
    BY LenProperties
  <2>2. IsFiniteSet(DOMAIN w[t])
    BY <2>1, FS_Interval
  <2>3. IsFiniteSet({t})
    BY FS_Singleton
  <2> QED BY <2>2, <2>3, FS_Product
<1> DEFINE F == {{t} \X DOMAIN w[t] : t \in Threads}
<1>2. IsFiniteSet(F)
  <2>1. IsFiniteSet(Threads)
    BY ThreadAssumption
  <2> DEFINE g == [t \in Threads |-> {t} \X DOMAIN w[t]]
  <2>2. g \in Surjection(Threads, F)
    <3>1. g \in [Threads -> F]
      OBVIOUS
    <3>2. \A y \in F : \E t \in Threads : g[t] = y
      OBVIOUS
    <3> QED BY <3>1, <3>2, Fun_IsSurj
  <2> QED BY <2>1, <2>2, FS_Surjection
<1>3. IsFiniteSet(UNION F)
  <2>1. \A T \in F : IsFiniteSet(T)
    BY <1>1
  <2> QED BY <1>2, <2>1, FS_UNION
<1>4. IsFiniteSet(PlacesIn(w, S))
  <2>1. PlacesIn(w, S) \in SUBSET UNION F
    BY DEF PlacesIn
  <2> QED BY <1>3, <2>1, FS_Subset
<1>5. CountIn(w, S) \in Nat /\ (CountIn(w, S) = 0 <=> PlacesIn(w, S) = {})
  BY <1>4, FS_CardinalityType, FS_EmptySet DEF CountIn
<1>6. PlacesIn(w, S) = {} <=> \A t \in Threads : \A i \in 1 .. Len(w[t]) : w[t][i] \notin S
  <2>1. ASSUME PlacesIn(w, S) = {}, NEW t \in Threads, NEW i \in 1 .. Len(w[t]), w[t][i] \in S
        PROVE  FALSE
    <3>1. <<t, i>> \in PlacesIn(w, S)
      BY <2>1, PlaceIs
    <3> QED BY <2>1, <3>1
  <2>2. ASSUME \A t \in Threads : \A i \in 1 .. Len(w[t]) : w[t][i] \notin S,
               NEW x \in PlacesIn(w, S)
        PROVE  FALSE
    BY <2>2, PlaceIs
  <2> QED BY <2>1, <2>2
<1> QED BY <1>4, <1>5, <1>6

(* A stack that gets a step on top. *)
LEMMA PushStack ==
  ASSUME NEW s \in Seq(Steps), NEW a \in Steps
  PROVE  /\ <<a>> \o s \in Seq(Steps)
         /\ Len(<<a>> \o s) = Len(s) + 1
         /\ (<<a>> \o s)[1] = a
         /\ \A i \in 1 .. Len(s) : (<<a>> \o s)[i + 1] = s[i]
<1> HIDE DEF Steps
<1>1. <<a>> \in Seq(Steps) /\ Len(<<a>>) = 1 /\ <<a>>[1] = a
  OBVIOUS
<1>2. Len(s) \in Nat
  BY LenProperties
<1>3. /\ <<a>> \o s \in Seq(Steps)
      /\ Len(<<a>> \o s) = 1 + Len(s)
      /\ \A i \in 1 .. 1 + Len(s) : (<<a>> \o s)[i] = IF i <= 1 THEN <<a>>[i] ELSE s[i - 1]
  BY <1>1, ConcatProperties
<1> QED BY <1>1, <1>2, <1>3

(* It is counted once more, if it counts, and all others as before. *)
LEMMA PushCounts ==
  ASSUME NEW w \in AllStacks, NEW v \in AllStacks,
         NEW t \in Threads, NEW a \in Steps, NEW S,
         IsPush(w, v, t, a)
  PROVE  CountIn(v, S) = CountIn(w, S) + One(a, S)
<1> USE DEF AllStacks
<1> DEFINE P == PlacesIn(w, S)
           Q == PlacesIn(v, S)
           top == <<t, 1>>
           shift == [x \in P |-> IF x[1] = t THEN <<t, x[2] + 1>> ELSE x]
<1>1. /\ Len(v[t]) = Len(w[t]) + 1 /\ v[t][1] = a
      /\ \A i \in 1 .. Len(w[t]) : v[t][i + 1] = w[t][i]
      /\ Len(w[t]) \in Nat
  BY LenProperties DEF IsPush
<1>2. \A u \in Threads \ {t} : v[u] = w[u]
  BY DEF IsPush
<1>3. IsFiniteSet(P) /\ IsFiniteSet(Q)
  BY CountFacts
<1>4. \A x \in P : \E u \in Threads : \E i \in 1 .. Len(w[u]) : x = <<u, i>> /\ w[u][i] \in S
  BY PlaceIs
<1>5. shift \in [P -> Q \ {top}]
  <2> SUFFICES ASSUME NEW x \in P
               PROVE  (IF x[1] = t THEN <<t, x[2] + 1>> ELSE x) \in Q \ {top}
    OBVIOUS
  <2>1a. PICK u \in Threads : \E i \in 1 .. Len(w[u]) : x = <<u, i>> /\ w[u][i] \in S
    BY <1>4
  <2>1. PICK i \in 1 .. Len(w[u]) : x = <<u, i>> /\ w[u][i] \in S
    BY <2>1a
  <2>2. CASE u = t
    <3>1. i + 1 \in 1 .. Len(v[t]) /\ v[t][i + 1] \in S
      BY <1>1, <2>1, <2>2
    <3>2. <<t, i + 1>> \in Q
      BY <3>1, PlaceIs
    <3>3. <<t, i + 1>> # top
      BY <1>1, <2>1, <2>2
    <3> QED BY <2>1, <2>2, <3>2, <3>3
  <2>3. CASE u # t
    <3>1. x \in Q
      BY <1>2, <2>1, <2>3, PlaceIs
    <3> QED BY <2>1, <2>3, <3>1
  <2> QED BY <2>2, <2>3
<1>6. \A x, y \in P : shift[x] = shift[y] => x = y
  <2> SUFFICES ASSUME NEW x \in P, NEW y \in P, shift[x] = shift[y] PROVE x = y
    OBVIOUS
  <2>1a. PICK u \in Threads : \E i \in 1 .. Len(w[u]) : x = <<u, i>>
    BY <1>4
  <2>1. PICK i \in 1 .. Len(w[u]) : x = <<u, i>>
    BY <2>1a
  <2>2a. PICK z \in Threads : \E j \in 1 .. Len(w[z]) : y = <<z, j>>
    BY <1>4
  <2>2. PICK j \in 1 .. Len(w[z]) : y = <<z, j>>
    BY <2>2a
  <2>3. /\ shift[x] = IF u = t THEN <<t, i + 1>> ELSE <<u, i>>
        /\ shift[y] = IF z = t THEN <<t, j + 1>> ELSE <<z, j>>
    BY <2>1, <2>2
  <2>4. Len(w[u]) \in Nat /\ Len(w[z]) \in Nat
    BY LenProperties
  <2>5. i \in Int /\ j \in Int
    BY <2>1, <2>2, <2>4
  <2> QED BY <2>1, <2>2, <2>3, <2>5
<1>7. \A y \in Q \ {top} : \E x \in P : shift[x] = y
  <2> SUFFICES ASSUME NEW y \in Q, y # top PROVE \E x \in P : shift[x] = y
    OBVIOUS
  <2>1a. PICK u \in Threads : \E i \in 1 .. Len(v[u]) : y = <<u, i>> /\ v[u][i] \in S
    BY PlaceIs
  <2>1. PICK i \in 1 .. Len(v[u]) : y = <<u, i>> /\ v[u][i] \in S
    BY <2>1a
  <2>2. CASE u = t
    <3>1. i \in 2 .. Len(w[t]) + 1
      BY <1>1, <2>1, <2>2
    <3>2. i - 1 \in 1 .. Len(w[t]) /\ (i - 1) + 1 = i
      BY <1>1, <3>1
    <3>3. w[t][i - 1] \in S
      <4>1. v[t][(i - 1) + 1] = w[t][i - 1]
        BY <1>1, <3>2
      <4> QED BY <2>1, <2>2, <3>2, <4>1
    <3>4. <<t, i - 1>> \in P
      BY <3>2, <3>3, PlaceIs
    <3>5. shift[<<t, i - 1>>] = <<t, (i - 1) + 1>>
      BY <3>4
    <3> QED BY <2>1, <2>2, <3>2, <3>4, <3>5
  <2>3. CASE u # t
    <3>1. y \in P
      <4>1. v[u] = w[u]
        BY <1>2, <2>3
      <4>2. i \in 1 .. Len(w[u]) /\ w[u][i] \in S
        BY <2>1, <4>1
      <4> QED BY <2>1, <4>2, PlaceIs
    <3>2. shift[y] = y
      BY <2>1, <2>3, <3>1
    <3> QED BY <3>1, <3>2
  <2> QED BY <2>2, <2>3
<1>8. Cardinality(Q \ {top}) = Cardinality(P)
  <2> HIDE DEF shift, P, Q, top
  <2>1. shift \in Bijection(P, Q \ {top})
    BY <1>5, <1>6, <1>7, Fun_IsBij
  <2>2. ExistsBijection(P, Q \ {top})
    BY <2>1 DEF ExistsBijection
  <2> QED BY <1>3, <2>2, FS_Bijection
<1>9. top \in Q <=> a \in S
  <2>1. ASSUME a \in S PROVE top \in Q
    <3>1. 1 \in 1 .. Len(v[t]) /\ v[t][1] \in S
      BY <1>1, <2>1
    <3> QED BY <3>1, PlaceIs
  <2>2. ASSUME top \in Q PROVE a \in S
    <3>1a. PICK u \in Threads : \E i \in 1 .. Len(v[u]) : top = <<u, i>> /\ v[u][i] \in S
      BY <2>2, PlaceIs
    <3>1. PICK i \in 1 .. Len(v[u]) : top = <<u, i>> /\ v[u][i] \in S
      BY <3>1a
    <3> QED BY <1>1, <3>1
  <2> QED BY <2>1, <2>2
<1>10. Cardinality(Q \ {top}) = IF top \in Q THEN Cardinality(Q) - 1 ELSE Cardinality(Q)
  BY <1>3, FS_RemoveElement
<1>11. Cardinality(Q) \in Nat /\ Cardinality(P) \in Nat
  BY <1>3, FS_CardinalityType
<1>12. Cardinality(Q) = Cardinality(P) + One(a, S)
  <2> HIDE DEF P, Q, top
  <2>1. CASE a \in S
    BY <1>8, <1>9, <1>10, <1>11, <2>1 DEF One
  <2>2. CASE a \notin S
    BY <1>8, <1>9, <1>10, <1>11, <2>2 DEF One
  <2> QED BY <2>1, <2>2
<1> QED BY <1>12 DEF CountIn
(* The stacks w with step a on top of thread t's, or the top step gone. *)
Push(w, t, a) == [w EXCEPT ![t] = <<a>> \o @]
Pop(w, t)     == [w EXCEPT ![t] = Tail(@)]

(* The stacks v are w with k steps on top of thread t's. *)
Above(w, v, t, k) ==
  /\ Len(v[t]) = Len(w[t]) + k
  /\ \A i \in 1 .. Len(w[t]) : v[t][i + k] = w[t][i]
  /\ \A u \in Threads \ {t} : v[u] = w[u]

(* A stack of the set of all stacks. *)
LEMMA StackOf ==
  ASSUME NEW w \in AllStacks, NEW t \in Threads
  PROVE  w[t] \in Seq(Steps) /\ Len(w[t]) \in Nat
  BY LenProperties DEF AllStacks

(* A step pushed. *)
LEMMA PushIs ==
  ASSUME NEW w \in AllStacks, NEW t \in Threads, NEW a \in Steps
  PROVE  Push(w, t, a) \in AllStacks /\ IsPush(w, Push(w, t, a), t, a)
<1> DEFINE v == Push(w, t, a)
<1>1. /\ w[t] \in Seq(Steps) /\ Len(w[t]) \in Nat
      /\ <<a>> \o w[t] \in Seq(Steps) /\ Len(<<a>> \o w[t]) = Len(w[t]) + 1
      /\ (<<a>> \o w[t])[1] = a
      /\ \A i \in 1 .. Len(w[t]) : (<<a>> \o w[t])[i + 1] = w[t][i]
  BY StackOf, PushStack
<1>2. /\ v \in AllStacks /\ v[t] = <<a>> \o w[t]
      /\ \A u \in Threads \ {t} : v[u] = w[u]
  BY <1>1 DEF AllStacks, Push
<1>3. IsPush(w, v, t, a)
  BY <1>1, <1>2 DEF IsPush
<1> QED BY <1>2, <1>3

(* One, two, three steps more are counted as such. *)
LEMMA AddOne ==
  ASSUME NEW w \in AllStacks, NEW v \in AllStacks, NEW t \in Threads,
         NEW a \in Steps, Above(w, v, t, 1), v[t][1] = a, NEW S
  PROVE  CountIn(v, S) = CountIn(w, S) + One(a, S)
<1>1. IsPush(w, v, t, a)
  BY DEF Above, IsPush
<1> QED BY <1>1, PushCounts

(* Two steps on top of a stack are counted once each. *)
LEMMA AddTwo ==
  ASSUME NEW w \in AllStacks, NEW v \in AllStacks, NEW t \in Threads,
         NEW a \in Steps, NEW b \in Steps, Above(w, v, t, 2), v[t][1] = a, v[t][2] = b, NEW S
  PROVE  CountIn(v, S) = CountIn(w, S) + One(a, S) + One(b, S)
<1> DEFINE m == Push(w, t, b)
<1>1. m \in AllStacks /\ IsPush(w, m, t, b)
  BY PushIs
<1> HIDE DEF m
<1>2. Len(w[t]) \in Nat
  BY StackOf
<1>3. Len(m[t]) = Len(w[t]) + 1 /\ m[t][1] = b
      /\ \A i \in 1 .. Len(w[t]) : m[t][i + 1] = w[t][i]
  BY <1>1 DEF IsPush
<1>4. \A u \in Threads \ {t} : m[u] = v[u]
  BY <1>1 DEF IsPush, Above
<1>5. ASSUME NEW i \in 1 .. Len(m[t]) PROVE v[t][i + 1] = m[t][i]
  <2>1. CASE i = 1
    BY <2>1, <1>3
  <2>2. CASE i # 1
    <3>1. i - 1 \in 1 .. Len(w[t]) /\ (i - 1) + 1 = i /\ (i - 1) + 2 = i + 1
      BY <2>2, <1>2, <1>3
    <3>2. v[t][(i - 1) + 2] = w[t][i - 1]
      BY <3>1 DEF Above
    <3>3. m[t][(i - 1) + 1] = w[t][i - 1]
      BY <3>1, <1>3
    <3> QED BY <3>1, <3>2, <3>3
  <2> QED BY <2>1, <2>2
<1>6. Len(v[t]) = Len(m[t]) + 1
  BY <1>2, <1>3 DEF Above
<1>7. IsPush(m, v, t, a)
  BY <1>4, <1>5, <1>6 DEF IsPush
<1>8. CountIn(v, S) = CountIn(m, S) + One(a, S)
  BY <1>1, <1>7, PushCounts
<1>9. CountIn(m, S) = CountIn(w, S) + One(b, S)
  BY <1>1, PushCounts
<1>10. CountIn(w, S) \in Nat /\ One(a, S) \in Nat /\ One(b, S) \in Nat
  BY CountFacts DEF One
<1> QED BY <1>8, <1>9, <1>10

(* So are three. *)
LEMMA AddThree ==
  ASSUME NEW w \in AllStacks, NEW v \in AllStacks, NEW t \in Threads,
         NEW a \in Steps, NEW b \in Steps, NEW c \in Steps,
         Above(w, v, t, 3), v[t][1] = a, v[t][2] = b, v[t][3] = c, NEW S
  PROVE  CountIn(v, S) = CountIn(w, S) + One(a, S) + One(b, S) + One(c, S)
<1> DEFINE m == Push(w, t, c)
<1>1. m \in AllStacks /\ IsPush(w, m, t, c)
  BY PushIs
<1> HIDE DEF m
<1>2. Len(w[t]) \in Nat
  BY StackOf
<1>3. Len(m[t]) = Len(w[t]) + 1 /\ m[t][1] = c
      /\ \A i \in 1 .. Len(w[t]) : m[t][i + 1] = w[t][i]
  BY <1>1 DEF IsPush
<1>4. \A u \in Threads \ {t} : v[u] = m[u]
  BY <1>1 DEF IsPush, Above
<1>5. ASSUME NEW i \in 1 .. Len(m[t]) PROVE v[t][i + 2] = m[t][i]
  <2>1. CASE i = 1
    BY <2>1, <1>3
  <2>2. CASE i # 1
    <3>1. i - 1 \in 1 .. Len(w[t]) /\ (i - 1) + 1 = i /\ (i - 1) + 3 = i + 2
      BY <2>2, <1>2, <1>3
    <3>2. v[t][(i - 1) + 3] = w[t][i - 1]
      BY <3>1 DEF Above
    <3>3. m[t][(i - 1) + 1] = w[t][i - 1]
      BY <3>1, <1>3
    <3> QED BY <3>1, <3>2, <3>3
  <2> QED BY <2>1, <2>2
<1>6. Len(v[t]) = Len(m[t]) + 2
  BY <1>2, <1>3 DEF Above
<1>7. Above(m, v, t, 2)
  BY <1>4, <1>5, <1>6 DEF Above
<1>8. CountIn(v, S) = CountIn(m, S) + One(a, S) + One(b, S)
  BY <1>1, <1>7, AddTwo
<1>9. CountIn(m, S) = CountIn(w, S) + One(c, S)
  BY <1>1, PushCounts
<1>10. CountIn(w, S) \in Nat /\ One(a, S) \in Nat /\ One(b, S) \in Nat /\ One(c, S) \in Nat
  BY CountFacts DEF One
<1> QED BY <1>8, <1>9, <1>10

(* Taking the step on top away. *)
LEMMA PopIs ==
  ASSUME NEW w \in AllStacks, NEW t \in Threads, w[t] # <<>>
  PROVE  /\ Pop(w, t) \in AllStacks
         /\ Pop(w, t)[t] = Tail(w[t])
         /\ Above(Pop(w, t), w, t, 1)
         /\ w[t][1] = Head(w[t]) /\ Head(w[t]) \in Steps
         /\ \A S : CountIn(Pop(w, t), S) = CountIn(w, S) - One(Head(w[t]), S)
<1> DEFINE v == Pop(w, t)
           a == Head(w[t])
<1>1. w[t] \in Seq(Steps) /\ Len(w[t]) \in Nat
  BY StackOf
<1>2. /\ a \in Steps /\ Tail(w[t]) \in Seq(Steps)
      /\ Len(Tail(w[t])) = Len(w[t]) - 1
      /\ \A i \in 1 .. Len(Tail(w[t])) : Tail(w[t])[i] = w[t][i + 1]
      /\ a = w[t][1]
  <2> HIDE DEF Steps
  <2> QED BY <1>1, HeadTailProperties
<1>3. v \in AllStacks /\ v[t] = Tail(w[t]) /\ \A u \in Threads \ {t} : v[u] = w[u]
  BY <1>2 DEF AllStacks, Pop
<1>4. Above(v, w, t, 1)
  <2> HIDE DEF a, v
  <2> QED BY <1>1, <1>2, <1>3 DEF Above
<1>5. ASSUME NEW S PROVE CountIn(v, S) = CountIn(w, S) - One(a, S)
  <2> HIDE DEF v, a
  <2>1. CountIn(w, S) = CountIn(v, S) + One(a, S)
    BY <1>2, <1>3, <1>4, AddOne
  <2>2. CountIn(v, S) \in Nat /\ CountIn(w, S) \in Nat /\ One(a, S) \in Nat
    BY <1>3, CountFacts DEF One
  <2> QED BY <2>1, <2>2
<1> QED BY <1>2, <1>3, <1>4, <1>5

(* A stack with one, two, three steps before the rest. *)
LEMMA Prefix1 ==
  ASSUME NEW s \in Seq(Steps), NEW a \in Steps
  PROVE  /\ <<a>> \o s \in Seq(Steps) /\ Len(<<a>> \o s) = Len(s) + 1
         /\ (<<a>> \o s)[1] = a
         /\ \A i \in 1 .. Len(s) : (<<a>> \o s)[i + 1] = s[i]
  BY PushStack

(* Two steps are put before the rest. *)
LEMMA Prefix2 ==
  ASSUME NEW s \in Seq(Steps), NEW a \in Steps, NEW b \in Steps
  PROVE  /\ <<a, b>> \o s \in Seq(Steps) /\ Len(<<a, b>> \o s) = Len(s) + 2
         /\ (<<a, b>> \o s)[1] = a /\ (<<a, b>> \o s)[2] = b
         /\ \A i \in 1 .. Len(s) : (<<a, b>> \o s)[i + 2] = s[i]
<1> HIDE DEF Steps
<1>1. <<a, b>> \in Seq(Steps) /\ Len(<<a, b>>) = 2 /\ <<a, b>>[1] = a /\ <<a, b>>[2] = b
  OBVIOUS
<1>2. Len(s) \in Nat
  BY LenProperties
<1>3. /\ <<a, b>> \o s \in Seq(Steps)
      /\ Len(<<a, b>> \o s) = 2 + Len(s)
      /\ \A i \in 1 .. 2 + Len(s) : (<<a, b>> \o s)[i] = IF i <= 2 THEN <<a, b>>[i] ELSE s[i - 2]
  BY <1>1, ConcatProperties
<1> QED BY <1>1, <1>2, <1>3

(* Three steps are put before the rest. *)
LEMMA Prefix3 ==
  ASSUME NEW s \in Seq(Steps), NEW a \in Steps, NEW b \in Steps, NEW c \in Steps
  PROVE  /\ <<a, b, c>> \o s \in Seq(Steps) /\ Len(<<a, b, c>> \o s) = Len(s) + 3
         /\ (<<a, b, c>> \o s)[1] = a /\ (<<a, b, c>> \o s)[2] = b
         /\ (<<a, b, c>> \o s)[3] = c
         /\ \A i \in 1 .. Len(s) : (<<a, b, c>> \o s)[i + 3] = s[i]
<1> HIDE DEF Steps
<1>1. /\ <<a, b, c>> \in Seq(Steps) /\ Len(<<a, b, c>>) = 3
      /\ <<a, b, c>>[1] = a /\ <<a, b, c>>[2] = b /\ <<a, b, c>>[3] = c
  OBVIOUS
<1>2. Len(s) \in Nat
  BY LenProperties
<1>3. /\ <<a, b, c>> \o s \in Seq(Steps)
      /\ Len(<<a, b, c>> \o s) = 3 + Len(s)
      /\ \A i \in 1 .. 3 + Len(s) :
           (<<a, b, c>> \o s)[i] = IF i <= 3 THEN <<a, b, c>>[i] ELSE s[i - 3]
  BY <1>1, ConcatProperties
<1> QED BY <1>1, <1>2, <1>3
-----------------------------------------------------------------------------
(* What Then and Call do to the stacks and to the counts. *)

Stacks == work \in AllStacks

(* Thread t has k steps in place of the n it had on top. *)
Replaced(t, n, k) ==
  /\ Len(work'[t]) = Len(work[t]) - n + k
  /\ \A i \in 1 .. Len(work[t]) - n : work'[t][i + k] = work[t][i + n]
  /\ \A u \in Threads \ {t} : work'[u] = work[u]

(* A pending step is counted where Ion counts it. *)
LEMMA PendingIs ==
  ASSUME NEW S
  PROVE  Pending(S) = CountIn(work, S) /\ Pending(S)' = CountIn(work', S)
  BY DEF Pending, Places, CountIn, PlacesIn

(* There is no such step exactly when none is counted. *)
LEMMA PendingFacts ==
  ASSUME Stacks, NEW S
  PROVE  /\ Pending(S) \in Nat
         /\ Pending(S) = 0 <=>
              \A t \in Threads : \A i \in 1 .. Len(work[t]) : work[t][i] \notin S
  BY CountFacts, PendingIs DEF Stacks

(* The same of the stacks after a step. *)
LEMMA PendingFactsNext ==
  ASSUME Stacks', NEW S
  PROVE  /\ Pending(S)' \in Nat
         /\ Pending(S)' = 0 <=>
              \A t \in Threads : \A i \in 1 .. Len(work'[t]) : work'[t][i] \notin S
<1>1. work' \in AllStacks
  BY DEF Stacks, AllStacks
<1> QED BY <1>1, CountFacts, PendingIs

(* The step on top. *)
LEMMA TopStep ==
  ASSUME Stacks, NEW t \in Threads, work[t] # <<>>
  PROVE  /\ Arg(t) \in Steps /\ Arg(t) = work[t][1]
         /\ Len(work[t]) \in Nat /\ 1 \in 1 .. Len(work[t])
         /\ \A S : Arg(t) \in S => Pending(S) # 0
<1>1. work[t] \in Seq(Steps)
  BY StackOf DEF Stacks
<1>2. Arg(t) \in Steps /\ Arg(t) = work[t][1] /\ Len(work[t]) \in Nat /\ Len(work[t]) # 0
  <2> HIDE DEF Steps
  <2> QED BY <1>1, HeadTailProperties, LenProperties, EmptySeq DEF Arg
<1>3. 1 \in 1 .. Len(work[t])
  BY <1>2
<1>4. ASSUME NEW S, Arg(t) \in S PROVE Pending(S) # 0
  BY <1>2, <1>3, <1>4, PendingFacts
<1> QED BY <1>2, <1>3, <1>4

(* The stacks below the step on top. *)
LEMMA Below ==
  ASSUME Stacks, NEW t \in Threads, work[t] # <<>>
  PROVE  /\ Pop(work, t) \in AllStacks
         /\ Tail(work[t]) \in Seq(Steps)
         /\ Pop(work, t)[t] = Tail(work[t])
         /\ Len(Tail(work[t])) = Len(work[t]) - 1 /\ Len(work[t]) \in Nat \ {0}
         /\ \A i \in 1 .. Len(work[t]) - 1 : Tail(work[t])[i] = work[t][i + 1]
         /\ \A u \in Threads \ {t} : Pop(work, t)[u] = work[u]
         /\ \A S : CountIn(Pop(work, t), S) = Pending(S) - One(Arg(t), S)
<1>1. work[t] \in Seq(Steps) /\ Len(work[t]) \in Nat
  BY StackOf DEF Stacks
<1>2. /\ Tail(work[t]) \in Seq(Steps) /\ Len(Tail(work[t])) = Len(work[t]) - 1
      /\ Len(work[t]) # 0
      /\ \A i \in 1 .. Len(Tail(work[t])) : Tail(work[t])[i] = work[t][i + 1]
  <2> HIDE DEF Steps
  <2> QED BY <1>1, HeadTailProperties, EmptySeq
<1>3. /\ Pop(work, t) \in AllStacks /\ Pop(work, t)[t] = Tail(work[t])
      /\ Above(Pop(work, t), work, t, 1)
      /\ \A S : CountIn(Pop(work, t), S) = CountIn(work, S) - One(Head(work[t]), S)
  BY PopIs DEF Stacks
<1>4. \A u \in Threads \ {t} : Pop(work, t)[u] = work[u]
  BY <1>3 DEF Above
<1>5. \A S : CountIn(Pop(work, t), S) = Pending(S) - One(Arg(t), S)
  BY <1>3, PendingIs DEF Arg
<1> QED BY <1>1, <1>2, <1>3, <1>4, <1>5

(* Thread t's stack is a new one. *)
LEMMA NewStack ==
  ASSUME Stacks, NEW t \in Threads, NEW s \in Seq(Steps), work' = [work EXCEPT ![t] = s]
  PROVE  /\ Stacks' /\ work' \in AllStacks /\ work'[t] = s
         /\ \A u \in Threads \ {t} : work'[u] = work[u]
  BY DEF Stacks, AllStacks

(* A step ends and none replaces it. *)
LEMMA Then0 ==
  ASSUME Stacks, NEW t \in Threads, work[t] # <<>>, Then(t, <<>>)
  PROVE  /\ Stacks' /\ Replaced(t, 1, 0)
         /\ \A S : Pending(S)' = Pending(S) - One(Arg(t), S)
<1>1. <<>> \o Tail(work[t]) = Tail(work[t])
  <2> HIDE DEF Steps
  <2> QED BY Below, ConcatEmptySeq
<1>2. work' = Pop(work, t)
  BY <1>1 DEF Then, Pop, Stacks
<1>3. \A S : Pending(S)' = Pending(S) - One(Arg(t), S)
  BY <1>2, Below, PendingIs
<1>4. Replaced(t, 1, 0)
  <2>1. Len(work'[t]) = Len(work[t]) - 1 + 0
    <3>1. Len(work'[t]) = Len(Tail(work[t]))
      BY <1>2, Below
    <3>2. Len(Tail(work[t])) = Len(work[t]) - 1 /\ Len(work[t]) \in Nat
      BY Below
    <3> QED BY <3>1, <3>2
  <2>2. ASSUME NEW i \in 1 .. Len(work[t]) - 1 PROVE work'[t][i + 0] = work[t][i + 1]
    <3>1. i + 0 = i
      BY Below
    <3>2. Tail(work[t])[i] = work[t][i + 1]
      BY Below
    <3> QED BY <1>2, <3>1, <3>2, Below
  <2>3. \A u \in Threads \ {t} : work'[u] = work[u]
    BY <1>2, Below
  <2> QED BY <2>1, <2>2, <2>3 DEF Replaced
<1>5. Stacks'
  BY <1>2, Below DEF Stacks, AllStacks
<1> QED BY <1>3, <1>4, <1>5

(* One step replaces it. *)
LEMMA Then1 ==
  ASSUME Stacks, NEW t \in Threads, work[t] # <<>>, NEW a \in Steps, Then(t, <<a>>)
  PROVE  /\ Stacks' /\ Replaced(t, 1, 1) /\ work'[t][1] = a
         /\ \A S : Pending(S)' = Pending(S) - One(Arg(t), S) + One(a, S)
<1> DEFINE s == <<a>> \o Tail(work[t])
<1>1. /\ s \in Seq(Steps) /\ Len(s) = Len(work[t]) /\ s[1] = a
      /\ \A i \in 1 .. Len(work[t]) - 1 : s[i + 1] = Tail(work[t])[i]
  <2>1. /\ s \in Seq(Steps) /\ Len(s) = Len(Tail(work[t])) + 1 /\ s[1] = a
        /\ \A i \in 1 .. Len(Tail(work[t])) : s[i + 1] = Tail(work[t])[i]
    BY Below, Prefix1
  <2> QED BY <2>1, Below
<1>2. Stacks' /\ work' \in AllStacks /\ work'[t] = s /\ \A u \in Threads \ {t} : work'[u] = work[u]
  BY <1>1, NewStack DEF Then
<1> HIDE DEF s
<1>3. Above(Pop(work, t), work', t, 1)
  <2>1. Len(s) = Len(Tail(work[t])) + 1
    BY <1>1, Below
  <2>2. \A i \in 1 .. Len(Tail(work[t])) : s[i + 1] = Tail(work[t])[i]
    BY <1>1, Below
  <2>3. \A u \in Threads \ {t} : work'[u] = Pop(work, t)[u]
    BY <1>2, Below
  <2>4. Pop(work, t)[t] = Tail(work[t])
    BY Below
  <2> QED BY <1>2, <2>1, <2>2, <2>3, <2>4 DEF Above
<1>4. work'[t][1] = a
  BY <1>1, <1>2
<1>5. ASSUME NEW S PROVE Pending(S)' = Pending(S) - One(Arg(t), S) + One(a, S)
  <2>1. CountIn(work', S) = CountIn(Pop(work, t), S) + One(a, S)
    BY <1>2, <1>3, <1>4, Below, AddOne
  <2> QED BY <2>1, Below, PendingIs
<1>6. Replaced(t, 1, 1)
  BY <1>1, <1>2, Below DEF Replaced
<1> QED BY <1>2, <1>4, <1>5, <1>6

(* Two steps replace it. *)
LEMMA Then2 ==
  ASSUME Stacks, NEW t \in Threads, work[t] # <<>>, NEW a \in Steps, NEW b \in Steps,
         Then(t, <<a, b>>)
  PROVE  /\ Stacks' /\ Replaced(t, 1, 2) /\ work'[t][1] = a /\ work'[t][2] = b
         /\ \A S : Pending(S)' = Pending(S) - One(Arg(t), S) + One(a, S) + One(b, S)
<1> DEFINE s == <<a, b>> \o Tail(work[t])
<1>1. /\ s \in Seq(Steps) /\ Len(s) = Len(work[t]) + 1 /\ s[1] = a /\ s[2] = b
      /\ \A i \in 1 .. Len(work[t]) - 1 : s[i + 2] = Tail(work[t])[i]
  <2>1. /\ s \in Seq(Steps) /\ Len(s) = Len(Tail(work[t])) + 2 /\ s[1] = a /\ s[2] = b
        /\ \A i \in 1 .. Len(Tail(work[t])) : s[i + 2] = Tail(work[t])[i]
    BY Below, Prefix2
  <2> QED BY <2>1, Below
<1>2. Stacks' /\ work' \in AllStacks /\ work'[t] = s /\ \A u \in Threads \ {t} : work'[u] = work[u]
  BY <1>1, NewStack DEF Then
<1> HIDE DEF s
<1>3. Above(Pop(work, t), work', t, 2)
  <2>1. Len(s) = Len(Tail(work[t])) + 2
    BY <1>1, Below
  <2>2. \A i \in 1 .. Len(Tail(work[t])) : s[i + 2] = Tail(work[t])[i]
    BY <1>1, Below
  <2>3. \A u \in Threads \ {t} : work'[u] = Pop(work, t)[u]
    BY <1>2, Below
  <2>4. Pop(work, t)[t] = Tail(work[t])
    BY Below
  <2> QED BY <1>2, <2>1, <2>2, <2>3, <2>4 DEF Above
<1>4. work'[t][1] = a /\ work'[t][2] = b
  BY <1>1, <1>2
<1>5. ASSUME NEW S PROVE Pending(S)' = Pending(S) - One(Arg(t), S) + One(a, S) + One(b, S)
  <2>1. CountIn(work', S) = CountIn(Pop(work, t), S) + One(a, S) + One(b, S)
    BY <1>2, <1>3, <1>4, Below, AddTwo
  <2> QED BY <2>1, Below, PendingIs
<1>6. Replaced(t, 1, 2)
  BY <1>1, <1>2, Below DEF Replaced
<1> QED BY <1>2, <1>4, <1>5, <1>6

(* Three steps replace it. *)
LEMMA Then3 ==
  ASSUME Stacks, NEW t \in Threads, work[t] # <<>>,
         NEW a \in Steps, NEW b \in Steps, NEW c \in Steps, Then(t, <<a, b, c>>)
  PROVE  /\ Stacks' /\ Replaced(t, 1, 3)
         /\ work'[t][1] = a /\ work'[t][2] = b /\ work'[t][3] = c
         /\ \A S : Pending(S)' = Pending(S) - One(Arg(t), S) + One(a, S) + One(b, S) + One(c, S)
<1> DEFINE s == <<a, b, c>> \o Tail(work[t])
<1>1. /\ s \in Seq(Steps) /\ Len(s) = Len(work[t]) + 2 /\ s[1] = a /\ s[2] = b /\ s[3] = c
      /\ \A i \in 1 .. Len(work[t]) - 1 : s[i + 3] = Tail(work[t])[i]
  <2>1. /\ s \in Seq(Steps) /\ Len(s) = Len(Tail(work[t])) + 3
        /\ s[1] = a /\ s[2] = b /\ s[3] = c
        /\ \A i \in 1 .. Len(Tail(work[t])) : s[i + 3] = Tail(work[t])[i]
    BY Below, Prefix3
  <2> QED BY <2>1, Below
<1>2. Stacks' /\ work' \in AllStacks /\ work'[t] = s /\ \A u \in Threads \ {t} : work'[u] = work[u]
  BY <1>1, NewStack DEF Then
<1> HIDE DEF s
<1>3. Above(Pop(work, t), work', t, 3)
  <2>1. Len(s) = Len(Tail(work[t])) + 3
    BY <1>1, Below
  <2>2. \A i \in 1 .. Len(Tail(work[t])) : s[i + 3] = Tail(work[t])[i]
    BY <1>1, Below
  <2>3. \A u \in Threads \ {t} : work'[u] = Pop(work, t)[u]
    BY <1>2, Below
  <2>4. Pop(work, t)[t] = Tail(work[t])
    BY Below
  <2> QED BY <1>2, <2>1, <2>2, <2>3, <2>4 DEF Above
<1>4. work'[t][1] = a /\ work'[t][2] = b /\ work'[t][3] = c
  BY <1>1, <1>2
<1>5. ASSUME NEW S
      PROVE  Pending(S)' = Pending(S) - One(Arg(t), S) + One(a, S) + One(b, S) + One(c, S)
  <2>1. CountIn(work', S) = CountIn(Pop(work, t), S) + One(a, S) + One(b, S) + One(c, S)
    BY <1>2, <1>3, <1>4, Below, AddThree
  <2> QED BY <2>1, Below, PendingIs
<1>6. Replaced(t, 1, 3)
  BY <1>1, <1>2, Below DEF Replaced
<1> QED BY <1>2, <1>4, <1>5, <1>6

(* A call begins with no step, or ends at once. *)
LEMMA Call0 ==
  ASSUME Stacks, NEW t \in Threads, Call(t, <<>>)
  PROVE  work[t] = <<>> /\ work' = work
  BY DEF Stacks, AllStacks, Call

(* A call begins with one step. *)
LEMMA Call1 ==
  ASSUME Stacks, NEW t \in Threads, NEW a \in Steps, Call(t, <<a>>)
  PROVE  /\ work[t] = <<>> /\ Stacks' /\ Replaced(t, 0, 1) /\ work'[t] = <<a>>
         /\ \A S : Pending(S)' = Pending(S) + One(a, S)
<1> HIDE DEF Steps
<1>1. <<a>> \in Seq(Steps) /\ Len(<<a>>) = 1 /\ <<a>>[1] = a
  OBVIOUS
<1>2. work[t] = <<>> /\ Len(work[t]) = 0
  BY DEF Call
<1>3. Stacks' /\ work' \in AllStacks /\ work'[t] = <<a>> /\ \A u \in Threads \ {t} : work'[u] = work[u]
  BY <1>1, NewStack DEF Call
<1>4. Above(work, work', t, 1)
  BY <1>1, <1>2, <1>3 DEF Above
<1>5. ASSUME NEW S PROVE Pending(S)' = Pending(S) + One(a, S)
  BY <1>1, <1>3, <1>4, AddOne, PendingIs DEF Stacks
<1>6. Replaced(t, 0, 1)
  BY <1>1, <1>2, <1>3 DEF Replaced
<1> QED BY <1>2, <1>3, <1>5, <1>6

(* With two. *)
LEMMA Call2 ==
  ASSUME Stacks, NEW t \in Threads, NEW a \in Steps, NEW b \in Steps, Call(t, <<a, b>>)
  PROVE  /\ work[t] = <<>> /\ Stacks' /\ Replaced(t, 0, 2) /\ work'[t] = <<a, b>>
         /\ \A S : Pending(S)' = Pending(S) + One(a, S) + One(b, S)
<1> HIDE DEF Steps
<1>1. <<a, b>> \in Seq(Steps) /\ Len(<<a, b>>) = 2 /\ <<a, b>>[1] = a /\ <<a, b>>[2] = b
  OBVIOUS
<1>2. work[t] = <<>> /\ Len(work[t]) = 0
  BY DEF Call
<1>3. Stacks' /\ work' \in AllStacks /\ work'[t] = <<a, b>> /\ \A u \in Threads \ {t} : work'[u] = work[u]
  BY <1>1, NewStack DEF Call
<1>4. Above(work, work', t, 2)
  BY <1>1, <1>2, <1>3 DEF Above
<1>5. ASSUME NEW S PROVE Pending(S)' = Pending(S) + One(a, S) + One(b, S)
  BY <1>1, <1>3, <1>4, AddTwo, PendingIs DEF Stacks
<1>6. Replaced(t, 0, 2)
  BY <1>1, <1>2, <1>3 DEF Replaced
<1> QED BY <1>2, <1>3, <1>5, <1>6

(* With three. *)
LEMMA Call3 ==
  ASSUME Stacks, NEW t \in Threads, NEW a \in Steps, NEW b \in Steps, NEW c \in Steps,
         Call(t, <<a, b, c>>)
  PROVE  /\ work[t] = <<>> /\ Stacks' /\ Replaced(t, 0, 3) /\ work'[t] = <<a, b, c>>
         /\ \A S : Pending(S)' = Pending(S) + One(a, S) + One(b, S) + One(c, S)
<1> HIDE DEF Steps
<1>1. /\ <<a, b, c>> \in Seq(Steps) /\ Len(<<a, b, c>>) = 3
      /\ <<a, b, c>>[1] = a /\ <<a, b, c>>[2] = b /\ <<a, b, c>>[3] = c
  OBVIOUS
<1>2. work[t] = <<>> /\ Len(work[t]) = 0
  BY DEF Call
<1>3. /\ Stacks' /\ work' \in AllStacks /\ work'[t] = <<a, b, c>>
      /\ \A u \in Threads \ {t} : work'[u] = work[u]
  BY <1>1, NewStack DEF Call
<1>4. Above(work, work', t, 3)
  BY <1>1, <1>2, <1>3 DEF Above
<1>5. ASSUME NEW S PROVE Pending(S)' = Pending(S) + One(a, S) + One(b, S) + One(c, S)
  BY <1>1, <1>3, <1>4, AddThree, PendingIs DEF Stacks
<1>6. Replaced(t, 0, 3)
  BY <1>1, <1>2, <1>3 DEF Replaced
<1> QED BY <1>2, <1>3, <1>5, <1>6

(* Every step there is after that was there before, or is one of the new. *)
LEMMA OldOrNew ==
  ASSUME Stacks, Stacks', NEW t \in Threads, NEW n \in {0, 1}, NEW k \in 0 .. 3,
         Replaced(t, n, k),
         NEW u \in Threads, NEW i \in 1 .. Len(work'[u]), u = t => i > k
  PROVE  \E j \in 1 .. Len(work[u]) : work'[u][i] = work[u][j] /\ (u = t => j > n)
<1>1. CASE u # t
  BY <1>1 DEF Replaced
<1>2. CASE u = t
  <2>1. Len(work[t]) \in Nat /\ Len(work'[t]) \in Nat
    BY StackOf DEF Stacks
  <2>2. Len(work'[t]) = Len(work[t]) - n + k
    BY DEF Replaced
  <2>3. i \in Nat /\ i <= Len(work'[t]) /\ i > k
    BY <1>2, <2>1
  <2>4. i - k \in 1 .. Len(work[t]) - n /\ (i - k) + k = i
    BY <2>1, <2>2, <2>3
  <2>5. work'[t][(i - k) + k] = work[t][(i - k) + n]
    BY <2>4 DEF Replaced
  <2>6. (i - k) + n \in 1 .. Len(work[t]) /\ (i - k) + n > n
    BY <2>1, <2>4
  <2> QED BY <1>2, <2>4, <2>5, <2>6
<1> QED BY <1>1, <1>2
-----------------------------------------------------------------------------
(* The steps, by name, and what each refers to. *)

HErase(h)           == [op |-> "herase", h |-> h]
BDestroy(b)         == [op |-> "bdestroy", b |-> b]
CDestroy(c)         == [op |-> "cdestroy", c |-> c]
OpenLookup(r, f)    == [op |-> "openLookup", root |-> r, f |-> f]
MmapLookup(r, f)    == [op |-> "mmapLookup", root |-> r, f |-> f]
InsertStep(c, f)    == [op |-> "insert", c |-> c, f |-> f]
MmapImportStep(c, f) == [op |-> "mmapImport", c |-> c, f |-> f]
MmapMap(c, h, f)    == [op |-> "mmapMap", c |-> c, h |-> h, f |-> f]
FreeStep(c, h)      == [op |-> "free", c |-> c, h |-> h]
ImportStep(c, b)    == [op |-> "import", c |-> c, b |-> b]

(* The steps that hold a reference on a file. *)
FileSteps(f) ==
  {FPut(f)} \cup [op : {"openLookup", "mmapLookup"}, root : Clients \cup {Null}, f : {f}]
  \cup [op : {"insert", "mmapImport"}, c : Clients, f : {f}]
  \cup [op : {"mmapMap"}, c : Clients, h : Handles, f : {f}]

(* 1 or 0, to count with. *)
Bit(P) == IF P THEN 1 ELSE 0
ForBPut(s, b)   == Bit(s.op = "bput" /\ s.b = b)
ForBGone(s, b)  == Bit(s.op = "bdestroy" /\ s.b = b)
ForClient(s, c) == Bit(s.op \in {"cput", "insert", "mmapImport", "mmapMap"} /\ s.c = c)
ForCGone(s, c)  == Bit(s.op = "cdestroy" /\ s.c = c)
ForHandle(s, h) == Bit(s.op \in {"hput", "free", "mmapMap"} /\ s.h = h)
ForHGone(s, h)  == Bit(s.op = "herase" /\ s.h = h)
ForFile(s, f)   ==
  Bit(s.op \in {"fput", "openLookup", "mmapLookup", "insert", "mmapImport", "mmapMap"} /\ s.f = f)

(* Every step has one of the thirteen forms, and every form is a step. *)
LEMMA StepForms ==
  ASSUME NEW s \in Steps
  PROVE  \/ \E h \in Handles : s = HPut(h) \/ s = HErase(h)
         \/ \E b \in Bufs : s = BPut(b) \/ s = BDestroy(b)
         \/ \E c \in Clients : s = CPut(c) \/ s = CDestroy(c)
         \/ \E f \in Files : s = FPut(f)
         \/ \E r \in Clients \cup {Null}, f \in Files : s = OpenLookup(r, f) \/ s = MmapLookup(r, f)
         \/ \E c \in Clients, f \in Files : s = InsertStep(c, f) \/ s = MmapImportStep(c, f)
         \/ \E c \in Clients, h \in Handles, f \in Files : s = MmapMap(c, h, f)
         \/ \E c \in Clients, h \in Handles : s = FreeStep(c, h)
         \/ \E c \in Clients, b \in Bufs : s = ImportStep(c, b)
<1>1. CASE s \in [op : {"hput", "herase"}, h : Handles]
  BY <1>1 DEF HPut, HErase
<1>2. CASE s \in [op : {"bput", "bdestroy"}, b : Bufs]
  BY <1>2 DEF BPut, BDestroy
<1>3. CASE s \in [op : {"cput", "cdestroy"}, c : Clients]
  BY <1>3 DEF CPut, CDestroy
<1>4. CASE s \in [op : {"fput"}, f : Files]
  BY <1>4 DEF FPut
<1>5. CASE s \in [op : {"openLookup", "mmapLookup"}, root : Clients \cup {Null}, f : Files]
  BY <1>5 DEF OpenLookup, MmapLookup
<1>6. CASE s \in [op : {"insert", "mmapImport"}, c : Clients, f : Files]
  BY <1>6 DEF InsertStep, MmapImportStep
<1>7. CASE s \in [op : {"mmapMap"}, c : Clients, h : Handles, f : Files]
  BY <1>7 DEF MmapMap
<1>8. CASE s \in [op : {"free"}, c : Clients, h : Handles]
  BY <1>8 DEF FreeStep
<1>9. CASE s \in [op : {"import"}, c : Clients, b : Bufs]
  BY <1>9 DEF ImportStep
<1> QED BY <1>1, <1>2, <1>3, <1>4, <1>5, <1>6, <1>7, <1>8, <1>9 DEF Steps

(* What the constructors make are steps. *)
LEMMA FormSteps ==
  /\ \A h \in Handles : HPut(h) \in Steps /\ HErase(h) \in Steps
  /\ \A b \in Bufs : BPut(b) \in Steps /\ BDestroy(b) \in Steps
  /\ \A c \in Clients : CPut(c) \in Steps /\ CDestroy(c) \in Steps
  /\ \A f \in Files : FPut(f) \in Steps
  /\ \A r \in Clients \cup {Null}, f \in Files : OpenLookup(r, f) \in Steps /\ MmapLookup(r, f) \in Steps
  /\ \A c \in Clients, f \in Files : InsertStep(c, f) \in Steps /\ MmapImportStep(c, f) \in Steps
  /\ \A c \in Clients, h \in Handles, f \in Files : MmapMap(c, h, f) \in Steps
  /\ \A c \in Clients, h \in Handles : FreeStep(c, h) \in Steps
  /\ \A c \in Clients, b \in Bufs : ImportStep(c, b) \in Steps
<1>1. \A h \in Handles : HPut(h) \in Steps /\ HErase(h) \in Steps
  BY DEF HPut, HErase, Steps
<1>2. \A b \in Bufs : BPut(b) \in Steps /\ BDestroy(b) \in Steps
  BY DEF BPut, BDestroy, Steps
<1>3. \A c \in Clients : CPut(c) \in Steps /\ CDestroy(c) \in Steps
  BY DEF CPut, CDestroy, Steps
<1>4. \A f \in Files : FPut(f) \in Steps
  BY DEF FPut, Steps
<1>5. \A r \in Clients \cup {Null}, f \in Files : OpenLookup(r, f) \in Steps /\ MmapLookup(r, f) \in Steps
  BY DEF OpenLookup, MmapLookup, Steps
<1>6. \A c \in Clients, f \in Files : InsertStep(c, f) \in Steps /\ MmapImportStep(c, f) \in Steps
  BY DEF InsertStep, MmapImportStep, Steps
<1>7. \A c \in Clients, h \in Handles, f \in Files : MmapMap(c, h, f) \in Steps
  BY DEF MmapMap, Steps
<1>8. \A c \in Clients, h \in Handles : FreeStep(c, h) \in Steps
  BY DEF FreeStep, Steps
<1>9. \A c \in Clients, b \in Bufs : ImportStep(c, b) \in Steps
  BY DEF ImportStep, Steps
<1> QED BY <1>1, <1>2, <1>3, <1>4, <1>5, <1>6, <1>7, <1>8, <1>9

(* Which fields a step of each kind has, and their types. *)
LEMMA StepFields ==
  ASSUME NEW s \in Steps
  PROVE  /\ s.op \in {"hput", "herase", "free", "mmapMap"} => s.h \in Handles
         /\ s.op \in {"bput", "bdestroy", "import"} => s.b \in Bufs
         /\ s.op \in {"cput", "cdestroy", "insert", "mmapImport", "mmapMap", "free", "import"}
              => s.c \in Clients
         /\ s.op \in {"fput", "openLookup", "mmapLookup", "insert", "mmapImport", "mmapMap"}
              => s.f \in Files
         /\ s.op \in {"openLookup", "mmapLookup"} => s.root \in Clients \cup {Null}
         /\ s.op \in {"hput", "herase", "bput", "bdestroy", "cput", "cdestroy", "fput", "openLookup",
                      "mmapLookup", "insert", "mmapImport", "mmapMap", "free", "import"}
BY StepForms DEF HPut, HErase, BPut, BDestroy, CPut, CDestroy, FPut, OpenLookup, MmapLookup,
                 InsertStep, MmapImportStep, MmapMap, FreeStep, ImportStep
(* A step by its kind. *)
LEMMA StepOf ==
  ASSUME NEW s \in Steps
  PROVE  /\ s.op = "hput" => s = HPut(s.h)
         /\ s.op = "herase" => s = HErase(s.h)
         /\ s.op = "bput" => s = BPut(s.b)
         /\ s.op = "bdestroy" => s = BDestroy(s.b)
         /\ s.op = "cput" => s = CPut(s.c)
         /\ s.op = "cdestroy" => s = CDestroy(s.c)
         /\ s.op = "fput" => s = FPut(s.f)
         /\ s.op = "openLookup" => s = OpenLookup(s.root, s.f)
         /\ s.op = "mmapLookup" => s = MmapLookup(s.root, s.f)
         /\ s.op = "insert" => s = InsertStep(s.c, s.f)
         /\ s.op = "mmapImport" => s = MmapImportStep(s.c, s.f)
         /\ s.op = "mmapMap" => s = MmapMap(s.c, s.h, s.f)
         /\ s.op = "free" => s = FreeStep(s.c, s.h)
         /\ s.op = "import" => s = ImportStep(s.c, s.b)
BY StepForms DEF HPut, HErase, BPut, BDestroy, CPut, CDestroy, FPut, OpenLookup, MmapLookup,
                 InsertStep, MmapImportStep, MmapMap, FreeStep, ImportStep

(* The sets that Ion counts steps in, by kind and object. *)
LEMMA CountedForBuffer ==
  ASSUME NEW s \in Steps, NEW b \in Bufs
  PROVE  One(s, {BPut(b)}) = ForBPut(s, b) /\ One(s, {BDestroy(b)}) = ForBGone(s, b)
<1>1. s = BPut(b) <=> s.op = "bput" /\ s.b = b
  BY StepOf DEF BPut
<1>2. s = BDestroy(b) <=> s.op = "bdestroy" /\ s.b = b
  BY StepOf DEF BDestroy
<1> QED BY <1>1, <1>2 DEF One, ForBPut, ForBGone, Bit

(* The steps that count for a handle, by their fields. *)
LEMMA CountedForHandle ==
  ASSUME NEW s \in Steps, NEW h \in Handles
  PROVE  One(s, HandleSteps(h)) = ForHandle(s, h) /\ One(s, {HErase(h)}) = ForHGone(s, h)
<1>1. s = HErase(h) <=> s.op = "herase" /\ s.h = h
  BY StepOf DEF HErase
<1>2. s \in HandleSteps(h) => s.op \in {"hput", "free", "mmapMap"} /\ s.h = h
  BY DEF HandleSteps, HPut
<1>3. ASSUME s.op = "hput", s.h = h PROVE s \in HandleSteps(h)
  BY <1>3, StepOf DEF HandleSteps
<1>4. ASSUME s.op = "free", s.h = h PROVE s \in HandleSteps(h)
  BY <1>4, StepOf, StepFields DEF HandleSteps, FreeStep
<1>5. ASSUME s.op = "mmapMap", s.h = h PROVE s \in HandleSteps(h)
  BY <1>5, StepOf, StepFields DEF HandleSteps, MmapMap
<1>6. s \in HandleSteps(h) <=> s.op \in {"hput", "free", "mmapMap"} /\ s.h = h
  BY <1>2, <1>3, <1>4, <1>5
<1> QED BY <1>1, <1>6 DEF One, ForHandle, ForHGone, Bit

(* The steps that count for a client. *)
LEMMA CountedForClient ==
  ASSUME NEW s \in Steps, NEW c \in Clients
  PROVE  One(s, ClientSteps(c)) = ForClient(s, c) /\ One(s, {CDestroy(c)}) = ForCGone(s, c)
<1>1. s = CDestroy(c) <=> s.op = "cdestroy" /\ s.c = c
  BY StepOf DEF CDestroy
<1>2. s \in ClientSteps(c) => s.op \in {"cput", "insert", "mmapImport", "mmapMap"} /\ s.c = c
  BY DEF ClientSteps, CPut
<1>3. ASSUME s.op = "cput", s.c = c PROVE s \in ClientSteps(c)
  BY <1>3, StepOf DEF ClientSteps
<1>4. ASSUME s.op = "insert", s.c = c PROVE s \in ClientSteps(c)
  BY <1>4, StepOf, StepFields DEF ClientSteps, InsertStep
<1>5. ASSUME s.op = "mmapImport", s.c = c PROVE s \in ClientSteps(c)
  BY <1>5, StepOf, StepFields DEF ClientSteps, MmapImportStep
<1>6. ASSUME s.op = "mmapMap", s.c = c PROVE s \in ClientSteps(c)
  BY <1>6, StepOf, StepFields DEF ClientSteps, MmapMap
<1>7. s \in ClientSteps(c) <=> s.op \in {"cput", "insert", "mmapImport", "mmapMap"} /\ s.c = c
  BY <1>2, <1>3, <1>4, <1>5, <1>6
<1> QED BY <1>1, <1>7 DEF One, ForClient, ForCGone, Bit

(* The steps that count for a file. *)
LEMMA CountedForFile ==
  ASSUME NEW s \in Steps, NEW f \in Files
  PROVE  One(s, FileSteps(f)) = ForFile(s, f)
<1>2. s \in FileSteps(f) =>
        s.op \in {"fput", "openLookup", "mmapLookup", "insert", "mmapImport", "mmapMap"} /\ s.f = f
  BY DEF FileSteps, FPut
<1>3. ASSUME s.op = "fput", s.f = f PROVE s \in FileSteps(f)
  BY <1>3, StepOf DEF FileSteps
<1>4. ASSUME s.op = "openLookup", s.f = f PROVE s \in FileSteps(f)
  BY <1>4, StepOf, StepFields DEF FileSteps, OpenLookup
<1>5. ASSUME s.op = "mmapLookup", s.f = f PROVE s \in FileSteps(f)
  BY <1>5, StepOf, StepFields DEF FileSteps, MmapLookup
<1>6. ASSUME s.op = "insert", s.f = f PROVE s \in FileSteps(f)
  BY <1>6, StepOf, StepFields DEF FileSteps, InsertStep
<1>7. ASSUME s.op = "mmapImport", s.f = f PROVE s \in FileSteps(f)
  BY <1>7, StepOf, StepFields DEF FileSteps, MmapImportStep
<1>8. ASSUME s.op = "mmapMap", s.f = f PROVE s \in FileSteps(f)
  BY <1>8, StepOf, StepFields DEF FileSteps, MmapMap
<1>9. s \in FileSteps(f) <=>
        s.op \in {"fput", "openLookup", "mmapLookup", "insert", "mmapImport", "mmapMap"} /\ s.f = f
  BY <1>2, <1>3, <1>4, <1>5, <1>6, <1>7, <1>8
<1> QED BY <1>9 DEF One, ForFile, Bit
-----------------------------------------------------------------------------
(* The counts of pending steps, and how the end of a step changes them. *)

BPuts(b) == Pending({BPut(b)})
BGone(b) == Pending({BDestroy(b)})
CHeld(c) == Pending(ClientSteps(c))
CGone(c) == Pending({CDestroy(c)})
HHeld(h) == Pending(HandleSteps(h))
HGone(h) == Pending({HErase(h)})
FHeld(f) == Pending(FileSteps(f))

(* In place of a step that is not there. *)
Idle == [op |-> "idle"]

(* Step s is gone, and a, b, c have come. *)
Delta(s, a, b, c) ==
  /\ \A x \in Bufs :
       /\ BPuts(x)' = BPuts(x) - ForBPut(s, x) + ForBPut(a, x) + ForBPut(b, x) + ForBPut(c, x)
       /\ BGone(x)' = BGone(x) - ForBGone(s, x) + ForBGone(a, x) + ForBGone(b, x) + ForBGone(c, x)
  /\ \A x \in Clients :
       /\ CHeld(x)' = CHeld(x) - ForClient(s, x) + ForClient(a, x) + ForClient(b, x) + ForClient(c, x)
       /\ CGone(x)' = CGone(x) - ForCGone(s, x) + ForCGone(a, x) + ForCGone(b, x) + ForCGone(c, x)
  /\ \A x \in Handles :
       /\ HHeld(x)' = HHeld(x) - ForHandle(s, x) + ForHandle(a, x) + ForHandle(b, x) + ForHandle(c, x)
       /\ HGone(x)' = HGone(x) - ForHGone(s, x) + ForHGone(a, x) + ForHGone(b, x) + ForHGone(c, x)
  /\ \A x \in Files :
       FHeld(x)' = FHeld(x) - ForFile(s, x) + ForFile(a, x) + ForFile(b, x) + ForFile(c, x)

(* How often step s, or no step, is in a set that Ion counts. *)
Weight(s, S) == IF s = Idle THEN 0 ELSE One(s, S)

(* All of them at once, also when no step is there. *)
LEMMA CountedForAny ==
  ASSUME NEW s \in Steps \cup {Idle}
  PROVE  /\ \A b \in Bufs : /\ Weight(s, {BPut(b)}) = ForBPut(s, b)
                            /\ Weight(s, {BDestroy(b)}) = ForBGone(s, b)
         /\ \A c \in Clients : /\ Weight(s, ClientSteps(c)) = ForClient(s, c)
                               /\ Weight(s, {CDestroy(c)}) = ForCGone(s, c)
         /\ \A h \in Handles : /\ Weight(s, HandleSteps(h)) = ForHandle(s, h)
                               /\ Weight(s, {HErase(h)}) = ForHGone(s, h)
         /\ \A f \in Files : Weight(s, FileSteps(f)) = ForFile(s, f)
<1>1. CASE s = Idle
  <2>1. s.op = "idle"
    BY <1>1 DEF Idle
  <2> QED BY <1>1, <2>1 DEF Weight, ForBPut, ForBGone, ForClient, ForCGone, ForHandle, ForHGone,
                           ForFile, Bit
<1>2. CASE s \in Steps
  <2>1. s # Idle
    <3>1. s.op # "idle"
      BY <1>2, StepFields
    <3> QED BY <3>1 DEF Idle
  <2>2. \A S : Weight(s, S) = One(s, S)
    BY <2>1 DEF Weight
  <2>3. \A b \in Bufs : One(s, {BPut(b)}) = ForBPut(s, b) /\ One(s, {BDestroy(b)}) = ForBGone(s, b)
    BY <1>2, CountedForBuffer
  <2>4. \A c \in Clients : One(s, ClientSteps(c)) = ForClient(s, c) /\ One(s, {CDestroy(c)}) = ForCGone(s, c)
    BY <1>2, CountedForClient
  <2>5. \A h \in Handles : One(s, HandleSteps(h)) = ForHandle(s, h) /\ One(s, {HErase(h)}) = ForHGone(s, h)
    BY <1>2, CountedForHandle
  <2>6. \A f \in Files : One(s, FileSteps(f)) = ForFile(s, f)
    BY <1>2, CountedForFile
  <2> QED BY <2>2, <2>3, <2>4, <2>5, <2>6
<1> QED BY <1>1, <1>2

(* The change of every pending count gives the change of every tally. *)
LEMMA DeltaIs ==
  ASSUME NEW s \in Steps \cup {Idle}, NEW a \in Steps \cup {Idle},
         NEW b \in Steps \cup {Idle}, NEW c \in Steps \cup {Idle},
         \A S : Pending(S)' = Pending(S) - Weight(s, S) + Weight(a, S) + Weight(b, S) + Weight(c, S)
  PROVE  Delta(s, a, b, c)
<1>1. ASSUME NEW x \in Bufs
      PROVE  /\ BPuts(x)' = BPuts(x) - ForBPut(s, x) + ForBPut(a, x) + ForBPut(b, x) + ForBPut(c, x)
             /\ BGone(x)' = BGone(x) - ForBGone(s, x) + ForBGone(a, x) + ForBGone(b, x) + ForBGone(c, x)
  <2>1. BPuts(x)' = BPuts(x) - ForBPut(s, x) + ForBPut(a, x) + ForBPut(b, x) + ForBPut(c, x)
    BY CountedForAny DEF BPuts, BPut
  <2>2. BGone(x)' = BGone(x) - ForBGone(s, x) + ForBGone(a, x) + ForBGone(b, x) + ForBGone(c, x)
    BY CountedForAny DEF BGone, BDestroy
  <2> QED BY <2>1, <2>2
<1>2. ASSUME NEW x \in Clients
      PROVE  /\ CHeld(x)' = CHeld(x) - ForClient(s, x) + ForClient(a, x) + ForClient(b, x) + ForClient(c, x)
             /\ CGone(x)' = CGone(x) - ForCGone(s, x) + ForCGone(a, x) + ForCGone(b, x) + ForCGone(c, x)
  <2>1. CHeld(x)' = CHeld(x) - ForClient(s, x) + ForClient(a, x) + ForClient(b, x) + ForClient(c, x)
    BY CountedForAny DEF CHeld, ClientSteps, CPut
  <2>2. CGone(x)' = CGone(x) - ForCGone(s, x) + ForCGone(a, x) + ForCGone(b, x) + ForCGone(c, x)
    BY CountedForAny DEF CGone, CDestroy
  <2> QED BY <2>1, <2>2
<1>3. ASSUME NEW x \in Handles
      PROVE  /\ HHeld(x)' = HHeld(x) - ForHandle(s, x) + ForHandle(a, x) + ForHandle(b, x) + ForHandle(c, x)
             /\ HGone(x)' = HGone(x) - ForHGone(s, x) + ForHGone(a, x) + ForHGone(b, x) + ForHGone(c, x)
  <2>1. HHeld(x)' = HHeld(x) - ForHandle(s, x) + ForHandle(a, x) + ForHandle(b, x) + ForHandle(c, x)
    BY CountedForAny DEF HHeld, HandleSteps, HPut
  <2>2. HGone(x)' = HGone(x) - ForHGone(s, x) + ForHGone(a, x) + ForHGone(b, x) + ForHGone(c, x)
    BY CountedForAny DEF HGone, HErase
  <2> QED BY <2>1, <2>2
<1>4. ASSUME NEW x \in Files
      PROVE  FHeld(x)' = FHeld(x) - ForFile(s, x) + ForFile(a, x) + ForFile(b, x) + ForFile(c, x)
  BY CountedForAny DEF FHeld, FileSteps, FPut
<1> QED BY <1>1, <1>2, <1>3, <1>4 DEF Delta

(* The weight of a step in a set. *)
LEMMA WeightIs ==
  /\ \A s \in Steps : \A S : Weight(s, S) = One(s, S)
  /\ \A S : Weight(Idle, S) = 0
  /\ \A s, S : Weight(s, S) \in Nat
<1>1. ASSUME NEW s \in Steps, NEW S PROVE Weight(s, S) = One(s, S)
  <2>1. s.op # "idle"
    BY StepFields
  <2>2. s # Idle
    BY <2>1 DEF Idle
  <2> QED BY <2>2 DEF Weight
<1>2. \A S : Weight(Idle, S) = 0
  BY DEF Weight
<1>3. \A s, S : Weight(s, S) \in Nat
  BY DEF Weight, One
<1> QED BY <1>1, <1>2, <1>3

(* What each of Then and Call does to the stacks and the counts. *)
LEMMA EndStep ==
  ASSUME Stacks, NEW t \in Threads, work[t] # <<>>, Then(t, <<>>)
  PROVE  Stacks' /\ Replaced(t, 1, 0) /\ Delta(Arg(t), Idle, Idle, Idle)
<1>1. /\ Stacks' /\ Replaced(t, 1, 0) /\ Arg(t) \in Steps
      /\ \A S : Pending(S)' = Pending(S) - One(Arg(t), S)
  BY Then0, TopStep
<1>2. ASSUME NEW S
      PROVE  Pending(S)' = Pending(S) - Weight(Arg(t), S) + Weight(Idle, S) + Weight(Idle, S) + Weight(Idle, S)
  <2>1. Weight(Arg(t), S) = One(Arg(t), S) /\ Weight(Idle, S) = 0
    BY <1>1, WeightIs
  <2>2. Pending(S)' = Pending(S) - One(Arg(t), S) /\ Pending(S) \in Nat /\ One(Arg(t), S) \in Nat
    BY <1>1, PendingFacts DEF One
  <2> HIDE DEF Idle
  <2> QED BY <2>1, <2>2
<1> QED BY <1>1, <1>2, DeltaIs

(* One step in place of the one on top, and what that changes. *)
LEMMA StepTo1 ==
  ASSUME Stacks, NEW t \in Threads, work[t] # <<>>, NEW a \in Steps, Then(t, <<a>>)
  PROVE  Stacks' /\ Replaced(t, 1, 1) /\ work'[t][1] = a /\ Delta(Arg(t), a, Idle, Idle)
<1>1. /\ Stacks' /\ Replaced(t, 1, 1) /\ Arg(t) \in Steps /\ work'[t][1] = a
      /\ \A S : Pending(S)' = Pending(S) - One(Arg(t), S) + One(a, S)
  BY Then1, TopStep
<1>2. ASSUME NEW S
      PROVE  Pending(S)' = Pending(S) - Weight(Arg(t), S) + Weight(a, S) + Weight(Idle, S) + Weight(Idle, S)
  <2>1. Weight(Arg(t), S) = One(Arg(t), S) /\ Weight(Idle, S) = 0 /\ Weight(a, S) = One(a, S)
    BY <1>1, WeightIs
  <2>2. /\ Pending(S)' = Pending(S) - One(Arg(t), S) + One(a, S)
        /\ Pending(S) \in Nat /\ One(Arg(t), S) \in Nat /\ One(a, S) \in Nat
    BY <1>1, PendingFacts DEF One
  <2> HIDE DEF Idle
  <2> QED BY <2>1, <2>2
<1> QED BY <1>1, <1>2, DeltaIs

(* Two steps in place of the one on top. *)
LEMMA StepTo2 ==
  ASSUME Stacks, NEW t \in Threads, work[t] # <<>>, NEW a \in Steps, NEW b \in Steps,
         Then(t, <<a, b>>)
  PROVE  /\ Stacks' /\ Replaced(t, 1, 2) /\ work'[t][1] = a /\ work'[t][2] = b
         /\ Delta(Arg(t), a, b, Idle)
<1>1. /\ Stacks' /\ Replaced(t, 1, 2) /\ Arg(t) \in Steps /\ work'[t][1] = a /\ work'[t][2] = b
      /\ \A S : Pending(S)' = Pending(S) - One(Arg(t), S) + One(a, S) + One(b, S)
  BY Then2, TopStep
<1>2. ASSUME NEW S
      PROVE  Pending(S)' = Pending(S) - Weight(Arg(t), S) + Weight(a, S) + Weight(b, S) + Weight(Idle, S)
  <2>1. /\ Weight(Arg(t), S) = One(Arg(t), S) /\ Weight(Idle, S) = 0
        /\ Weight(a, S) = One(a, S) /\ Weight(b, S) = One(b, S)
    BY <1>1, WeightIs
  <2>2. /\ Pending(S)' = Pending(S) - One(Arg(t), S) + One(a, S) + One(b, S)
        /\ Pending(S) \in Nat /\ One(Arg(t), S) \in Nat /\ One(a, S) \in Nat /\ One(b, S) \in Nat
    BY <1>1, PendingFacts DEF One
  <2> HIDE DEF Idle
  <2> QED BY <2>1, <2>2
<1> QED BY <1>1, <1>2, DeltaIs

(* Three steps in place of the one on top. *)
LEMMA StepTo3 ==
  ASSUME Stacks, NEW t \in Threads, work[t] # <<>>,
         NEW a \in Steps, NEW b \in Steps, NEW c \in Steps, Then(t, <<a, b, c>>)
  PROVE  /\ Stacks' /\ Replaced(t, 1, 3)
         /\ work'[t][1] = a /\ work'[t][2] = b /\ work'[t][3] = c
         /\ Delta(Arg(t), a, b, c)
<1>1. /\ Stacks' /\ Replaced(t, 1, 3) /\ Arg(t) \in Steps
      /\ work'[t][1] = a /\ work'[t][2] = b /\ work'[t][3] = c
      /\ \A S : Pending(S)' = Pending(S) - One(Arg(t), S) + One(a, S) + One(b, S) + One(c, S)
  BY Then3, TopStep
<1>2. ASSUME NEW S
      PROVE  Pending(S)' = Pending(S) - Weight(Arg(t), S) + Weight(a, S) + Weight(b, S) + Weight(c, S)
  <2>1. /\ Weight(Arg(t), S) = One(Arg(t), S) /\ Weight(c, S) = One(c, S)
        /\ Weight(a, S) = One(a, S) /\ Weight(b, S) = One(b, S)
    BY <1>1, WeightIs
  <2>2. Pending(S)' = Pending(S) - One(Arg(t), S) + One(a, S) + One(b, S) + One(c, S)
    BY <1>1
  <2> QED BY <2>1, <2>2
<1> QED BY <1>1, <1>2, DeltaIs

(* A call of one step leaves no stack. *)
LEMMA CallAndReturn ==
  ASSUME Stacks, NEW t \in Threads, Call(t, <<>>)
  PROVE  work[t] = <<>> /\ work' = work /\ Stacks' /\ Delta(Idle, Idle, Idle, Idle)
<1>1. work[t] = <<>> /\ work' = work /\ Stacks'
  BY Call0 DEF Stacks, AllStacks
<1>2. ASSUME NEW S
      PROVE  Pending(S)' = Pending(S) - Weight(Idle, S) + Weight(Idle, S) + Weight(Idle, S) + Weight(Idle, S)
  <2>1. Pending(S)' = Pending(S) /\ Pending(S) \in Nat
    BY <1>1, PendingIs, PendingFacts
  <2>2. Weight(Idle, S) = 0
    BY WeightIs
  <2> HIDE DEF Idle
  <2> QED BY <2>1, <2>2
<1> QED BY <1>1, <1>2, DeltaIs

(* A call begins with one step. *)
LEMMA CallOf1 ==
  ASSUME Stacks, NEW t \in Threads, NEW a \in Steps, Call(t, <<a>>)
  PROVE  /\ work[t] = <<>> /\ Stacks' /\ Replaced(t, 0, 1) /\ work'[t] = <<a>>
         /\ Delta(Idle, a, Idle, Idle)
<1>1. /\ work[t] = <<>> /\ Stacks' /\ Replaced(t, 0, 1) /\ work'[t] = <<a>>
      /\ \A S : Pending(S)' = Pending(S) + One(a, S)
  BY Call1
<1>2. ASSUME NEW S
      PROVE  Pending(S)' = Pending(S) - Weight(Idle, S) + Weight(a, S) + Weight(Idle, S) + Weight(Idle, S)
  <2>1. Weight(Idle, S) = 0 /\ Weight(a, S) = One(a, S)
    BY WeightIs
  <2>2. Pending(S)' = Pending(S) + One(a, S) /\ Pending(S) \in Nat /\ One(a, S) \in Nat
    BY <1>1, PendingFacts DEF One
  <2> HIDE DEF Idle
  <2> QED BY <2>1, <2>2
<1> QED BY <1>1, <1>2, DeltaIs

(* A call begins with two steps. *)
LEMMA CallOf2 ==
  ASSUME Stacks, NEW t \in Threads, NEW a \in Steps, NEW b \in Steps, Call(t, <<a, b>>)
  PROVE  /\ work[t] = <<>> /\ Stacks' /\ Replaced(t, 0, 2) /\ work'[t] = <<a, b>>
         /\ Delta(Idle, a, b, Idle)
<1>1. /\ work[t] = <<>> /\ Stacks' /\ Replaced(t, 0, 2) /\ work'[t] = <<a, b>>
      /\ \A S : Pending(S)' = Pending(S) + One(a, S) + One(b, S)
  BY Call2
<1>2. ASSUME NEW S
      PROVE  Pending(S)' = Pending(S) - Weight(Idle, S) + Weight(a, S) + Weight(b, S) + Weight(Idle, S)
  <2>1. Weight(Idle, S) = 0 /\ Weight(a, S) = One(a, S) /\ Weight(b, S) = One(b, S)
    BY WeightIs
  <2>2. /\ Pending(S)' = Pending(S) + One(a, S) + One(b, S)
        /\ Pending(S) \in Nat /\ One(a, S) \in Nat /\ One(b, S) \in Nat
    BY <1>1, PendingFacts DEF One
  <2> HIDE DEF Idle
  <2> QED BY <2>1, <2>2
<1> QED BY <1>1, <1>2, DeltaIs

(* A call begins with three steps. *)
LEMMA CallOf3 ==
  ASSUME Stacks, NEW t \in Threads, NEW a \in Steps, NEW b \in Steps, NEW c \in Steps,
         Call(t, <<a, b, c>>)
  PROVE  /\ work[t] = <<>> /\ Stacks' /\ Replaced(t, 0, 3) /\ work'[t] = <<a, b, c>>
         /\ Delta(Idle, a, b, c)
<1>1. /\ work[t] = <<>> /\ Stacks' /\ Replaced(t, 0, 3) /\ work'[t] = <<a, b, c>>
      /\ \A S : Pending(S)' = Pending(S) + One(a, S) + One(b, S) + One(c, S)
  BY Call3
<1>2. ASSUME NEW S
      PROVE  Pending(S)' = Pending(S) - Weight(Idle, S) + Weight(a, S) + Weight(b, S) + Weight(c, S)
  <2>1. /\ Weight(Idle, S) = 0 /\ Weight(a, S) = One(a, S) /\ Weight(b, S) = One(b, S)
        /\ Weight(c, S) = One(c, S)
    BY WeightIs
  <2>2. Pending(S)' = Pending(S) + One(a, S) + One(b, S) + One(c, S) /\ Pending(S) \in Nat
    BY <1>1, PendingFacts
  <2> HIDE DEF Idle
  <2> QED BY <2>1, <2>2
<1> QED BY <1>1, <1>2, DeltaIs
-----------------------------------------------------------------------------
(* The counts of what refers to an object, and how one change to an object *)
(* changes them.                                                           *)

FdHolders(f) == {p \in Procs : f \in fds[p]}
FileAreas(f) == {v \in Vmas : vma[v].file = f}

OnHandles(b) == Cardinality(BufferHandles(b))
OnFiles(b)   == Cardinality(BufferFiles(b))
CFiles(c)    == Cardinality(ClientFiles(c))
CAreas(c)    == Cardinality(ClientAreas(c))
HAreas(h)    == Cardinality(HandleAreas(h))
FFds(f)      == Cardinality(FdHolders(f))
FAreas(f)    == Cardinality(FileAreas(f))

(* All of them are sets of finitely many objects. *)
LEMMA FiniteCounts ==
  /\ \A b \in Bufs : /\ IsFiniteSet(BufferHandles(b)) /\ IsFiniteSet(BufferFiles(b))
                     /\ OnHandles(b) \in Nat /\ OnFiles(b) \in Nat
                     /\ (OnHandles(b) = 0 <=> BufferHandles(b) = {})
                     /\ (OnFiles(b) = 0 <=> BufferFiles(b) = {})
  /\ \A c \in Clients : /\ IsFiniteSet(ClientFiles(c)) /\ IsFiniteSet(ClientAreas(c))
                        /\ CFiles(c) \in Nat /\ CAreas(c) \in Nat
                        /\ (CFiles(c) = 0 <=> ClientFiles(c) = {})
                        /\ (CAreas(c) = 0 <=> ClientAreas(c) = {})
  /\ \A h \in Handles : /\ IsFiniteSet(HandleAreas(h)) /\ HAreas(h) \in Nat
                        /\ (HAreas(h) = 0 <=> HandleAreas(h) = {})
  /\ \A f \in Files : /\ IsFiniteSet(FdHolders(f)) /\ IsFiniteSet(FileAreas(f))
                      /\ FFds(f) \in Nat /\ FAreas(f) \in Nat
                      /\ (FFds(f) = 0 <=> FdHolders(f) = {})
                      /\ (FAreas(f) = 0 <=> FileAreas(f) = {})
<1>1. IsFiniteSet(Handles) /\ IsFiniteSet(Files) /\ IsFiniteSet(Vmas)
  BY BoundAssumption, FS_Interval DEF Handles, Files, Vmas
<1>2. IsFiniteSet(Procs)
  BY ThreadAssumption
<1>3. ASSUME NEW S, IsFiniteSet(S)
      PROVE  Cardinality(S) \in Nat /\ (Cardinality(S) = 0 <=> S = {})
  BY <1>3, FS_CardinalityType, FS_EmptySet
<1>4. ASSUME NEW b \in Bufs PROVE IsFiniteSet(BufferHandles(b)) /\ IsFiniteSet(BufferFiles(b))
  <2>1. BufferHandles(b) \in SUBSET Handles /\ BufferFiles(b) \in SUBSET Files
    BY DEF BufferHandles, BufferFiles
  <2> QED BY <1>1, <2>1, FS_Subset
<1>5. ASSUME NEW c \in Clients PROVE IsFiniteSet(ClientFiles(c)) /\ IsFiniteSet(ClientAreas(c))
  <2>1. ClientFiles(c) \in SUBSET Files /\ ClientAreas(c) \in SUBSET Vmas
    BY DEF ClientFiles, ClientAreas
  <2> QED BY <1>1, <2>1, FS_Subset
<1>6. ASSUME NEW h \in Handles PROVE IsFiniteSet(HandleAreas(h))
  <2>1. HandleAreas(h) \in SUBSET Vmas
    BY DEF HandleAreas
  <2> QED BY <1>1, <2>1, FS_Subset
<1>7. ASSUME NEW f \in Files PROVE IsFiniteSet(FdHolders(f)) /\ IsFiniteSet(FileAreas(f))
  <2>1. FdHolders(f) \in SUBSET Procs /\ FileAreas(f) \in SUBSET Vmas
    BY DEF FdHolders, FileAreas
  <2> QED BY <1>1, <1>2, <2>1, FS_Subset
<1>8. \A b \in Bufs : /\ IsFiniteSet(BufferHandles(b)) /\ IsFiniteSet(BufferFiles(b))
                      /\ OnHandles(b) \in Nat /\ OnFiles(b) \in Nat
                      /\ (OnHandles(b) = 0 <=> BufferHandles(b) = {})
                      /\ (OnFiles(b) = 0 <=> BufferFiles(b) = {})
  BY <1>3, <1>4 DEF OnHandles, OnFiles
<1>9. \A c \in Clients : /\ IsFiniteSet(ClientFiles(c)) /\ IsFiniteSet(ClientAreas(c))
                         /\ CFiles(c) \in Nat /\ CAreas(c) \in Nat
                         /\ (CFiles(c) = 0 <=> ClientFiles(c) = {})
                         /\ (CAreas(c) = 0 <=> ClientAreas(c) = {})
  BY <1>3, <1>5 DEF CFiles, CAreas
<1>10. \A h \in Handles : /\ IsFiniteSet(HandleAreas(h)) /\ HAreas(h) \in Nat
                          /\ (HAreas(h) = 0 <=> HandleAreas(h) = {})
  BY <1>3, <1>6 DEF HAreas
<1>11. \A f \in Files : /\ IsFiniteSet(FdHolders(f)) /\ IsFiniteSet(FileAreas(f))
                        /\ FFds(f) \in Nat /\ FAreas(f) \in Nat
                        /\ (FFds(f) = 0 <=> FdHolders(f) = {})
                        /\ (FAreas(f) = 0 <=> FileAreas(f) = {})
  BY <1>3, <1>7 DEF FFds, FAreas
<1> QED BY <1>8, <1>9, <1>10, <1>11

(* Two finite sets that differ in one element at most. *)
LEMMA OneApart ==
  ASSUME NEW S, NEW T, IsFiniteSet(S), IsFiniteSet(T), NEW x, S \ {x} = T \ {x}
  PROVE  Cardinality(T) = Cardinality(S) - Bit(x \in S) + Bit(x \in T)
<1> DEFINE R == S \ {x}
<1>1. IsFiniteSet(R) /\ x \notin R
  <2>1. R \in SUBSET S
    OBVIOUS
  <2> QED BY <2>1, FS_Subset
<1>2. Cardinality(R) \in Nat /\ Cardinality(R \cup {x}) = Cardinality(R) + 1
  BY <1>1, FS_CardinalityType, FS_AddElement
<1>3. ASSUME NEW Q, Q \ {x} = R PROVE Cardinality(Q) = Cardinality(R) + Bit(x \in Q)
  <2>1. CASE x \in Q
    <3>1. Q = R \cup {x}
      BY <1>3, <2>1
    <3> QED BY <1>2, <2>1, <3>1 DEF Bit
  <2>2. CASE x \notin Q
    <3>1. Q = R
      BY <1>3, <2>2
    <3> QED BY <1>2, <2>2, <3>1 DEF Bit
  <2> QED BY <2>1, <2>2
<1>4. Cardinality(S) = Cardinality(R) + Bit(x \in S) /\ Cardinality(T) = Cardinality(R) + Bit(x \in T)
  BY <1>3
<1>5. Bit(x \in S) \in Nat /\ Bit(x \in T) \in Nat
  BY DEF Bit
<1> HIDE DEF R
<1> QED BY <1>2, <1>4, <1>5

(* What one object adds to the count of another. *)
HandleOn(r, b) == Bit(r.state = "live" /\ r.buf = b)
FileOn(r, b)   == Bit(r.state = "live" /\ r.kind = "share" /\ r.obj = b)
FileOf(r, c)   == Bit(r.state = "live" /\ r.kind = "dev" /\ r.obj = c)

(* One handle changes. *)
LEMMA HandleChanges ==
  ASSUME NEW h \in Handles, \A k \in Handles \ {h} : handle'[k] = handle[k], NEW b \in Bufs
  PROVE  OnHandles(b)' = OnHandles(b) - HandleOn(handle[h], b) + HandleOn(handle'[h], b)
<1>1. IsFiniteSet(BufferHandles(b)) /\ IsFiniteSet(BufferHandles(b)')
  <2>1. BufferHandles(b)' \in SUBSET Handles /\ IsFiniteSet(Handles)
    BY BoundAssumption, FS_Interval DEF BufferHandles, Handles
  <2> QED BY <2>1, FS_Subset, FiniteCounts
<1>2. BufferHandles(b) \ {h} = BufferHandles(b)' \ {h}
  BY DEF BufferHandles
<1>3. Cardinality(BufferHandles(b)') =
        Cardinality(BufferHandles(b)) - Bit(h \in BufferHandles(b)) + Bit(h \in BufferHandles(b)')
  BY <1>1, <1>2, OneApart
<1>4. /\ h \in BufferHandles(b) <=> handle[h].state = "live" /\ handle[h].buf = b
      /\ h \in BufferHandles(b)' <=> handle'[h].state = "live" /\ handle'[h].buf = b
  BY DEF BufferHandles
<1>5. Bit(h \in BufferHandles(b)) = HandleOn(handle[h], b) /\ Bit(h \in BufferHandles(b)') = HandleOn(handle'[h], b)
  BY <1>4 DEF Bit, HandleOn
<1> QED BY <1>3, <1>5 DEF OnHandles

(* One file changes. *)
LEMMA FileChangesBuffers ==
  ASSUME NEW f \in Files, \A g \in Files \ {f} : file'[g] = file[g], NEW b \in Bufs
  PROVE  OnFiles(b)' = OnFiles(b) - FileOn(file[f], b) + FileOn(file'[f], b)
<1>1. IsFiniteSet(BufferFiles(b)) /\ IsFiniteSet(BufferFiles(b)')
  <2>1. BufferFiles(b)' \in SUBSET Files /\ IsFiniteSet(Files)
    BY BoundAssumption, FS_Interval DEF BufferFiles, Files
  <2> QED BY <2>1, FS_Subset, FiniteCounts
<1>2. BufferFiles(b) \ {f} = BufferFiles(b)' \ {f}
  BY DEF BufferFiles
<1>3. Cardinality(BufferFiles(b)') =
        Cardinality(BufferFiles(b)) - Bit(f \in BufferFiles(b)) + Bit(f \in BufferFiles(b)')
  BY <1>1, <1>2, OneApart
<1>4. /\ f \in BufferFiles(b) <=> file[f].state = "live" /\ file[f].kind = "share" /\ file[f].obj = b
      /\ f \in BufferFiles(b)' <=> file'[f].state = "live" /\ file'[f].kind = "share" /\ file'[f].obj = b
  BY DEF BufferFiles
<1>5. Bit(f \in BufferFiles(b)) = FileOn(file[f], b) /\ Bit(f \in BufferFiles(b)') = FileOn(file'[f], b)
  BY <1>4 DEF Bit, FileOn
<1> QED BY <1>3, <1>5 DEF OnFiles

(* One file changes: the device files of a client. *)
LEMMA FileChangesClients ==
  ASSUME NEW f \in Files, \A g \in Files \ {f} : file'[g] = file[g], NEW c \in Clients
  PROVE  CFiles(c)' = CFiles(c) - FileOf(file[f], c) + FileOf(file'[f], c)
<1>1. IsFiniteSet(ClientFiles(c)) /\ IsFiniteSet(ClientFiles(c)')
  <2>1. ClientFiles(c)' \in SUBSET Files /\ IsFiniteSet(Files)
    BY BoundAssumption, FS_Interval DEF ClientFiles, Files
  <2> QED BY <2>1, FS_Subset, FiniteCounts
<1>2. ClientFiles(c) \ {f} = ClientFiles(c)' \ {f}
  BY DEF ClientFiles
<1>3. Cardinality(ClientFiles(c)') =
        Cardinality(ClientFiles(c)) - Bit(f \in ClientFiles(c)) + Bit(f \in ClientFiles(c)')
  BY <1>1, <1>2, OneApart
<1>4. /\ f \in ClientFiles(c) <=> file[f].state = "live" /\ file[f].kind = "dev" /\ file[f].obj = c
      /\ f \in ClientFiles(c)' <=> file'[f].state = "live" /\ file'[f].kind = "dev" /\ file'[f].obj = c
  BY DEF ClientFiles
<1>5. Bit(f \in ClientFiles(c)) = FileOf(file[f], c) /\ Bit(f \in ClientFiles(c)') = FileOf(file'[f], c)
  BY <1>4 DEF Bit, FileOf
<1> QED BY <1>3, <1>5 DEF CFiles

(* One area changes. *)
LEMMA AreaChangesHandles ==
  ASSUME NEW v \in Vmas, \A w \in Vmas \ {v} : vma'[w] = vma[w], NEW h \in Handles
  PROVE  HAreas(h)' = HAreas(h) - Bit(vma[v].handle = h) + Bit(vma'[v].handle = h)
<1>1. IsFiniteSet(HandleAreas(h)) /\ IsFiniteSet(HandleAreas(h)')
  <2>1. HandleAreas(h)' \in SUBSET Vmas /\ IsFiniteSet(Vmas)
    BY BoundAssumption, FS_Interval DEF HandleAreas, Vmas
  <2> QED BY <2>1, FS_Subset, FiniteCounts
<1>2. HandleAreas(h) \ {v} = HandleAreas(h)' \ {v}
  BY DEF HandleAreas
<1>3. Cardinality(HandleAreas(h)') =
        Cardinality(HandleAreas(h)) - Bit(v \in HandleAreas(h)) + Bit(v \in HandleAreas(h)')
  BY <1>1, <1>2, OneApart
<1>4. (v \in HandleAreas(h) <=> vma[v].handle = h) /\ (v \in HandleAreas(h)' <=> vma'[v].handle = h)
  BY DEF HandleAreas
<1>5. Bit(v \in HandleAreas(h)) = Bit(vma[v].handle = h) /\ Bit(v \in HandleAreas(h)') = Bit(vma'[v].handle = h)
  BY <1>4 DEF Bit
<1> QED BY <1>3, <1>5 DEF HAreas

(* One area changes: the areas of a file. *)
LEMMA AreaChangesFiles ==
  ASSUME NEW v \in Vmas, \A w \in Vmas \ {v} : vma'[w] = vma[w], NEW f \in Files
  PROVE  FAreas(f)' = FAreas(f) - Bit(vma[v].file = f) + Bit(vma'[v].file = f)
<1>1. IsFiniteSet(FileAreas(f)) /\ IsFiniteSet(FileAreas(f)')
  <2>1. FileAreas(f)' \in SUBSET Vmas /\ IsFiniteSet(Vmas)
    BY BoundAssumption, FS_Interval DEF FileAreas, Vmas
  <2> QED BY <2>1, FS_Subset, FiniteCounts
<1>2. FileAreas(f) \ {v} = FileAreas(f)' \ {v}
  BY DEF FileAreas
<1>3. Cardinality(FileAreas(f)') =
        Cardinality(FileAreas(f)) - Bit(v \in FileAreas(f)) + Bit(v \in FileAreas(f)')
  BY <1>1, <1>2, OneApart
<1>4. (v \in FileAreas(f) <=> vma[v].file = f) /\ (v \in FileAreas(f)' <=> vma'[v].file = f)
  BY DEF FileAreas
<1>5. Bit(v \in FileAreas(f)) = Bit(vma[v].file = f) /\ Bit(v \in FileAreas(f)') = Bit(vma'[v].file = f)
  BY <1>4 DEF Bit
<1> QED BY <1>3, <1>5 DEF FAreas

(* The client whose handle area v is on, if any. *)
AreaOf(v, c) == vma[v].handle # Null /\ handle[vma[v].handle].client = c

(* One area changes: the areas of a client's handles. *)
LEMMA AreaChangesClients ==
  ASSUME NEW v \in Vmas, NEW c \in Clients,
         \A w \in Vmas \ {v} : AreaOf(w, c)' <=> AreaOf(w, c)
  PROVE  CAreas(c)' = CAreas(c) - Bit(AreaOf(v, c)) + Bit(AreaOf(v, c)')
<1>1. IsFiniteSet(ClientAreas(c)) /\ IsFiniteSet(ClientAreas(c)')
  <2>1. ClientAreas(c)' \in SUBSET Vmas /\ IsFiniteSet(Vmas)
    BY BoundAssumption, FS_Interval DEF ClientAreas, Vmas
  <2> QED BY <2>1, FS_Subset, FiniteCounts
<1>2. ClientAreas(c) \ {v} = ClientAreas(c)' \ {v}
  BY DEF ClientAreas, AreaOf
<1>3. Cardinality(ClientAreas(c)') =
        Cardinality(ClientAreas(c)) - Bit(v \in ClientAreas(c)) + Bit(v \in ClientAreas(c)')
  BY <1>1, <1>2, OneApart
<1>4. (v \in ClientAreas(c) <=> AreaOf(v, c)) /\ (v \in ClientAreas(c)' <=> AreaOf(v, c)')
  BY DEF ClientAreas, AreaOf
<1>5. Bit(v \in ClientAreas(c)) = Bit(AreaOf(v, c)) /\ Bit(v \in ClientAreas(c)') = Bit(AreaOf(v, c)')
  BY <1>4 DEF Bit
<1> QED BY <1>3, <1>5 DEF CAreas

(* No area moves to another client. *)
LEMMA AreasStayWithClient ==
  ASSUME NEW c \in Clients, \A w \in Vmas : AreaOf(w, c)' <=> AreaOf(w, c)
  PROVE  CAreas(c)' = CAreas(c)
<1>1. ClientAreas(c)' = ClientAreas(c)
  BY DEF ClientAreas, AreaOf
<1> QED BY <1>1 DEF CAreas

(* One process opens or closes a file. *)
LEMMA FdChanges ==
  ASSUME NEW p \in Procs, \A q \in Procs \ {p} : fds'[q] = fds[q], NEW f \in Files
  PROVE  FFds(f)' = FFds(f) - Bit(f \in fds[p]) + Bit(f \in fds'[p])
<1>1. IsFiniteSet(FdHolders(f)) /\ IsFiniteSet(FdHolders(f)')
  <2>1. FdHolders(f)' \in SUBSET Procs /\ IsFiniteSet(Procs)
    BY ThreadAssumption DEF FdHolders
  <2> QED BY <2>1, FS_Subset, FiniteCounts
<1>2. FdHolders(f) \ {p} = FdHolders(f)' \ {p}
  BY DEF FdHolders
<1>3. Cardinality(FdHolders(f)') =
        Cardinality(FdHolders(f)) - Bit(p \in FdHolders(f)) + Bit(p \in FdHolders(f)')
  BY <1>1, <1>2, OneApart
<1>4. (p \in FdHolders(f) <=> f \in fds[p]) /\ (p \in FdHolders(f)' <=> f \in fds'[p])
  BY DEF FdHolders
<1>5. Bit(p \in FdHolders(f)) = Bit(f \in fds[p]) /\ Bit(p \in FdHolders(f)') = Bit(f \in fds'[p])
  BY <1>4 DEF Bit
<1> QED BY <1>3, <1>5 DEF FFds

(* What does not change. *)
LEMMA SameHandles ==
  ASSUME handle' = handle, NEW b \in Bufs PROVE OnHandles(b)' = OnHandles(b)
  BY DEF OnHandles, BufferHandles

(* No file changes. *)
LEMMA SameFiles ==
  ASSUME file' = file
  PROVE  /\ \A b \in Bufs : OnFiles(b)' = OnFiles(b)
         /\ \A c \in Clients : CFiles(c)' = CFiles(c)
  BY DEF OnFiles, BufferFiles, CFiles, ClientFiles

(* No area changes. *)
LEMMA SameAreas ==
  ASSUME vma' = vma
  PROVE  /\ \A h \in Handles : HAreas(h)' = HAreas(h)
         /\ \A f \in Files : FAreas(f)' = FAreas(f)
         /\ handle' = handle => \A c \in Clients : CAreas(c)' = CAreas(c)
  BY DEF HAreas, HandleAreas, FAreas, FileAreas, CAreas, ClientAreas

(* No file table changes. *)
LEMMA SameFds ==
  ASSUME fds' = fds PROVE \A f \in Files : FFds(f)' = FFds(f)
  BY DEF FFds, FdHolders
-----------------------------------------------------------------------------
(* The inductive invariant.  Four ledgers say of every object, live or     *)
(* not, that its count is the references there are, and that it is being   *)
(* destroyed by exactly one step once the count is zero.                   *)

(* What the process of a handle's client holds on it. *)
Uses(h) == IF handle[h].client = Null THEN 0 ELSE uref[Owner(h)][h]

BufferLine(b) ==
  /\ buffer[b].ref = OnHandles(b) + OnFiles(b) + BPuts(b)
  /\ buffer[b].state # "live" => buffer[b].ref = 0
  /\ BGone(b) = Bit(buffer[b].state = "live" /\ buffer[b].ref = 0)

ClientLine(c) ==
  /\ client[c].ref = CFiles(c) + CAreas(c) + CHeld(c)
  /\ client[c].state # "live" => client[c].ref = 0
  /\ CGone(c) = Bit(client[c].state = "live" /\ client[c].ref = 0)

HandleLine(h) ==
  /\ handle[h].ref = Uses(h) + HAreas(h) + HHeld(h)
  /\ handle[h].state \in {"none", "freed"} => handle[h].ref = 0
  /\ handle[h].state = "dying" => HAreas(h) = 0 /\ HHeld(h) = 0
  /\ HGone(h) = Bit(handle[h].state = "dying")
  /\ \A p \in Procs : uref[p][h] # 0 => handle[h].client # Null /\ Owner(h) = p

FileLine(f) ==
  /\ file[f].ref = FFds(f) + FAreas(f) + FHeld(f)
  /\ file[f].state = "live" <=> file[f].ref # 0

BufferLedger == \A b \in Bufs : BufferLine(b)
ClientLedger == \A c \in Clients : ClientLine(c)
HandleLedger == \A h \in Handles : HandleLine(h)
FileLedger   == \A f \in Files : FileLine(f)

(* What objects point to exists, and belongs to the process that holds it. *)
HandleSound(h) ==
  /\ handle[h].state \in {"live", "dying"} <=> handle[h].client # Null
  /\ handle[h].intree <=> handle[h].client # Null
  /\ handle[h].client # Null =>
       handle[h].buf \in Bufs /\ client[handle[h].client].state = "live"

ClientSound(c) ==
  /\ client[c].intree => client[c].state = "live"
  /\ client[c].state = "live" => client[c].task \in Procs

FileSound(f) ==
  /\ file[f].state = "live" <=> file[f].kind # "none"
  /\ file[f].kind = "dev" =>
       file[f].obj \in Clients \cup {Null} /\ (file[f].obj = Null => file[f].ref = 1)

FdSound(p, f) ==
  f \in fds[p] /\ file[f].kind = "dev" => file[f].obj # Null /\ client[file[f].obj].task = p

AreaSound(v) ==
  vma[v] # NoVma =>
    /\ vma[v].proc \in Procs /\ vma[v].file \in Files /\ vma[v].handle \in Handles
    /\ file[vma[v].file].kind = "share"
    /\ Owner(vma[v].handle) = vma[v].proc

Objects ==
  /\ \A h \in Handles : HandleSound(h)
  /\ \A c \in Clients : ClientSound(c)
  /\ \A f \in Files : FileSound(f)
  /\ \A p \in Procs, f \in Files : FdSound(p, f)
  /\ \A v \in Vmas : AreaSound(v)

(* So does what a step refers to. *)
StepFits(t, s) ==
  /\ s.op \in {"hput", "herase", "free", "mmapMap"} =>
       handle[s.h].client # Null /\ Owner(s.h) = Proc[t]
  /\ s.op \in {"free", "mmapMap"} => handle[s.h].client = s.c
  /\ s.op \in {"cput", "cdestroy", "insert", "mmapImport", "mmapMap"} =>
       client[s.c].state = "live" /\ client[s.c].task = Proc[t]
  /\ s.op = "fput" /\ file[s.f].kind = "dev" =>
       file[s.f].obj # Null /\ client[file[s.f].obj].task = Proc[t]
  /\ s.op \in {"openLookup", "insert"} => file[s.f].kind = "dev" /\ file[s.f].obj = Null
  /\ s.op \in {"mmapLookup", "mmapImport", "mmapMap"} => file[s.f].kind = "share"

Fits == \A t \in Threads : \A i \in 1 .. Len(work[t]) : StepFits(t, work[t][i])

(* Only what a release leaves to do waits below another step. *)
Waits(s) == s.op \in {"cput", "cdestroy", "fput"}

Below2(t) ==
  \A i \in 2 .. Len(work[t]) :
    \/ Waits(work[t][i])
    \/ i = 2 /\ work[t][2].op = "herase" /\ work[t][1].op \in {"bput", "bdestroy"}

(* An ioctl of one step is alone; that of an import holds both its files. *)
Alone(t) ==
  (work[t] # <<>> /\ work[t][1].op \in {"openLookup", "insert", "mmapLookup", "mmapImport", "mmapMap"})
    => Len(work[t]) = 1

ImportHolds(t) ==
  (work[t] # <<>> /\ work[t][1].op = "import") =>
    \E f, sf \in Files :
      /\ Len(work[t]) = 3 /\ work[t][2] = FPut(sf) /\ work[t][3] = FPut(f)
      /\ file[f].kind = "dev" /\ file[f].obj = work[t][1].c
      /\ file[sf].kind = "share" /\ file[sf].obj = work[t][1].b

Shape == \A t \in Threads : Below2(t) /\ Alone(t) /\ ImportHolds(t)

IInv ==
  /\ TypeOK
  /\ BufferLedger /\ ClientLedger /\ HandleLedger /\ FileLedger
  /\ Objects /\ Fits /\ Shape
-----------------------------------------------------------------------------
(* What the types say, an object at a time. *)
LEMMA Typed ==
  ASSUME TypeOK
  PROVE  /\ Stacks
         /\ \A b \in Bufs : buffer[b].ref \in Nat
         /\ \A c \in Clients : client[c].ref \in Nat
         /\ \A h \in Handles : /\ handle[h].ref \in Nat
                               /\ handle[h].state \in {"none", "live", "dying", "freed"}
                               /\ handle[h].client \in Clients \cup {Null}
                               /\ handle[h].buf \in Bufs \cup {Null}
                               /\ handle[h].intree \in BOOLEAN
         /\ \A f \in Files : /\ file[f].ref \in Nat /\ file[f].kind \in {"none", "dev", "share"}
                             /\ file[f].kind = "share" => file[f].obj \in Bufs
         /\ \A p \in Procs : \A h \in Handles : uref[p][h] \in Nat
         /\ \A p \in Procs : fds[p] \subseteq Files
         /\ \A t \in Threads : Proc[t] \in Procs
<1>1. Stacks
  BY DEF TypeOK, Stacks, AllStacks
<1>2. (\A b \in Bufs : buffer[b].ref \in Nat) /\ \A c \in Clients : client[c].ref \in Nat
  BY DEF TypeOK
<1>3. \A h \in Handles : /\ handle[h].ref \in Nat
                         /\ handle[h].state \in {"none", "live", "dying", "freed"}
                         /\ handle[h].client \in Clients \cup {Null}
                         /\ handle[h].buf \in Bufs \cup {Null}
                         /\ handle[h].intree \in BOOLEAN
  BY DEF TypeOK
<1>4. \A f \in Files : /\ file[f].ref \in Nat /\ file[f].kind \in {"none", "dev", "share"}
                       /\ file[f].kind = "share" => file[f].obj \in Bufs
  BY DEF TypeOK
<1>5. (\A p \in Procs : \A h \in Handles : uref[p][h] \in Nat) /\ \A p \in Procs : fds[p] \subseteq Files
  BY DEF TypeOK
<1>6. \A t \in Threads : Proc[t] \in Procs
  BY ThreadAssumption
<1> QED BY <1>1, <1>2, <1>3, <1>4, <1>5, <1>6

(* The counts of pending steps are natural numbers. *)
LEMMA PendingNat ==
  ASSUME Stacks
  PROVE  /\ \A b \in Bufs : BPuts(b) \in Nat /\ BGone(b) \in Nat
         /\ \A c \in Clients : CHeld(c) \in Nat /\ CGone(c) \in Nat
         /\ \A h \in Handles : HHeld(h) \in Nat /\ HGone(h) \in Nat
         /\ \A f \in Files : FHeld(f) \in Nat
  BY PendingFacts DEF BPuts, BGone, CHeld, CGone, HHeld, HGone, FHeld

(* A step in a stack is counted. *)
LEMMA StepCounts ==
  ASSUME Stacks, NEW t \in Threads, NEW i \in 1 .. Len(work[t])
  PROVE  LET s == work[t][i] IN
         /\ s \in Steps
         /\ s.op = "bput" => BPuts(s.b) # 0
         /\ s.op = "bdestroy" => BGone(s.b) # 0
         /\ s.op \in {"cput", "insert", "mmapImport", "mmapMap"} => CHeld(s.c) # 0
         /\ s.op = "cdestroy" => CGone(s.c) # 0
         /\ s.op \in {"hput", "free", "mmapMap"} => HHeld(s.h) # 0
         /\ s.op = "herase" => HGone(s.h) # 0
         /\ s.op \in {"fput", "openLookup", "mmapLookup", "insert", "mmapImport", "mmapMap"}
              => FHeld(s.f) # 0
<1> DEFINE s == work[t][i]
<1>1. s \in Steps
  <2>1. work[t] \in Seq(Steps)
    BY StackOf DEF Stacks
  <2> HIDE DEF Steps
  <2> QED BY <2>1, ElementOfSeq
<1>2. ASSUME NEW S, One(s, S) = 1 PROVE Pending(S) # 0
  <2>1. s \in S
    BY <1>2 DEF One
  <2> QED BY <2>1, PendingFacts
<1> HIDE DEF s
<1>3. /\ s.op = "bput" => BPuts(s.b) # 0
      /\ s.op = "bdestroy" => BGone(s.b) # 0
  BY <1>1, <1>2, CountedForBuffer, StepFields DEF BPuts, BGone, ForBPut, ForBGone, Bit
<1>4. /\ s.op \in {"cput", "insert", "mmapImport", "mmapMap"} => CHeld(s.c) # 0
      /\ s.op = "cdestroy" => CGone(s.c) # 0
  BY <1>1, <1>2, CountedForClient, StepFields DEF CHeld, CGone, ForClient, ForCGone, Bit
<1>5. /\ s.op \in {"hput", "free", "mmapMap"} => HHeld(s.h) # 0
      /\ s.op = "herase" => HGone(s.h) # 0
  BY <1>1, <1>2, CountedForHandle, StepFields DEF HHeld, HGone, ForHandle, ForHGone, Bit
<1>6. s.op \in {"fput", "openLookup", "mmapLookup", "insert", "mmapImport", "mmapMap"} => FHeld(s.f) # 0
  BY <1>1, <1>2, CountedForFile, StepFields DEF FHeld, ForFile, Bit
<1> QED BY <1>1, <1>3, <1>4, <1>5, <1>6 DEF s

(* A step of the new stacks is counted after the step. *)
LEMMA StepCountsNext ==
  ASSUME Stacks', NEW t \in Threads, NEW i \in 1 .. Len(work'[t])
  PROVE  LET s == work'[t][i] IN
         /\ s \in Steps
         /\ \A c \in Clients : s.op \in {"cput", "insert", "mmapImport", "mmapMap"} /\ s.c = c => CHeld(c)' # 0
         /\ \A c \in Clients : s.op = "cdestroy" /\ s.c = c => CGone(c)' # 0
         /\ \A h \in Handles : s.op \in {"hput", "free", "mmapMap"} /\ s.h = h => HHeld(h)' # 0
         /\ \A h \in Handles : s.op = "herase" /\ s.h = h => HGone(h)' # 0
         /\ \A f \in Files :
              /\ s.op \in {"fput", "openLookup", "mmapLookup", "insert", "mmapImport", "mmapMap"}
              /\ s.f = f
              => FHeld(f)' # 0
<1> DEFINE s == work'[t][i]
<1>1. s \in Steps
  <2>1. work'[t] \in Seq(Steps)
    BY DEF Stacks, AllStacks
  <2> HIDE DEF Steps
  <2> QED BY <2>1, ElementOfSeq
<1>2. ASSUME NEW S, One(s, S) = 1 PROVE Pending(S)' # 0
  <2>1. s \in S
    BY <1>2 DEF One
  <2> QED BY <2>1, PendingFactsNext
<1> HIDE DEF s
<1>3. /\ \A c \in Clients : s.op \in {"cput", "insert", "mmapImport", "mmapMap"} /\ s.c = c => CHeld(c)' # 0
      /\ \A c \in Clients : s.op = "cdestroy" /\ s.c = c => CGone(c)' # 0
  <2>1. \A c \in Clients : /\ One(s, ClientSteps(c)) = ForClient(s, c)
                           /\ One(s, {CDestroy(c)}) = ForCGone(s, c)
    BY <1>1, CountedForClient
  <2>2. \A c \in Clients : ForClient(s, c) = 1 => CHeld(c)' # 0
    BY <1>2, <2>1 DEF CHeld, ClientSteps, CPut
  <2>3. \A c \in Clients : ForCGone(s, c) = 1 => CGone(c)' # 0
    BY <1>2, <2>1 DEF CGone, CDestroy
  <2> QED BY <2>2, <2>3 DEF ForClient, ForCGone, Bit
<1>4. /\ \A h \in Handles : s.op \in {"hput", "free", "mmapMap"} /\ s.h = h => HHeld(h)' # 0
      /\ \A h \in Handles : s.op = "herase" /\ s.h = h => HGone(h)' # 0
  <2>1. \A h \in Handles : /\ One(s, HandleSteps(h)) = ForHandle(s, h)
                           /\ One(s, {HErase(h)}) = ForHGone(s, h)
    BY <1>1, CountedForHandle
  <2>2. \A h \in Handles : ForHandle(s, h) = 1 => HHeld(h)' # 0
    BY <1>2, <2>1 DEF HHeld, HandleSteps, HPut
  <2>3. \A h \in Handles : ForHGone(s, h) = 1 => HGone(h)' # 0
    BY <1>2, <2>1 DEF HGone, HErase
  <2> QED BY <2>2, <2>3 DEF ForHandle, ForHGone, Bit
<1>5. \A f \in Files :
        /\ s.op \in {"fput", "openLookup", "mmapLookup", "insert", "mmapImport", "mmapMap"}
        /\ s.f = f
        => FHeld(f)' # 0
  <2>1. \A f \in Files : One(s, FileSteps(f)) = ForFile(s, f)
    BY <1>1, CountedForFile
  <2>2. \A f \in Files : ForFile(s, f) = 1 => FHeld(f)' # 0
    BY <1>2, <2>1 DEF FHeld, FileSteps, FPut
  <2> QED BY <2>2 DEF ForFile, Bit
<1> QED BY <1>1, <1>3, <1>4, <1>5 DEF s
-----------------------------------------------------------------------------
(* How Fits and Shape outlive a step of thread t, n steps off its stack    *)
(* and k on it.                                                            *)

(* Nothing refers to client c any more. *)
NoneOf(c) ==
  /\ \A h \in Handles : handle[h].client # c
  /\ \A f \in Files : file[f].kind = "dev" => file[f].obj # c

(* What pending steps refer to stays what it is. *)
HandlesKept ==
  \A h \in Handles : handle[h].client # Null /\ (HHeld(h)' # 0 \/ HGone(h)' # 0)
                       => handle'[h].client = handle[h].client
ClientsKept ==
  \A c \in Clients : client[c].state = "live" =>
    \/ client'[c].state = "live" /\ client'[c].task = client[c].task
    \/ NoneOf(c) /\ CHeld(c)' = 0 /\ CGone(c)' = 0
FilesKept ==
  \A f \in Files : file[f].kind # "none" /\ FHeld(f)' # 0
                     => file'[f].kind = file[f].kind /\ file'[f].obj = file[f].obj

(* What steps refer to still fits when only the new steps are looked at. *)
LEMMA FitsKept ==
  ASSUME IInv, Stacks', NEW t \in Threads, NEW n \in {0, 1}, NEW k \in 0 .. 3, Replaced(t, n, k),
         HandlesKept, ClientsKept, FilesKept,
         \A i \in 1 .. Len(work'[t]) : i <= k => \A s : s = work'[t][i] => StepFits(t, s)'
  PROVE  Fits'
<1> SUFFICES ASSUME NEW u \in Threads, NEW i \in 1 .. Len(work'[u]), NEW s, s = work'[u][i]
             PROVE  StepFits(u, s)'
  BY DEF Fits
<1>0. Stacks
  BY Typed DEF IInv
<1>1. CASE u = t /\ i <= k
  BY <1>1
<1>2. CASE u = t => i > k
  <2>1. PICK j \in 1 .. Len(work[u]) : work'[u][i] = work[u][j]
    BY <1>0, <1>2, OldOrNew
  <2>2. StepFits(u, s)
    BY <2>1 DEF IInv, Fits
  <2>3. /\ s \in Steps
        /\ \A c \in Clients : s.op \in {"cput", "insert", "mmapImport", "mmapMap"} /\ s.c = c => CHeld(c)' # 0
        /\ \A c \in Clients : s.op = "cdestroy" /\ s.c = c => CGone(c)' # 0
        /\ \A h \in Handles : s.op \in {"hput", "free", "mmapMap"} /\ s.h = h => HHeld(h)' # 0
        /\ \A h \in Handles : s.op = "herase" /\ s.h = h => HGone(h)' # 0
        /\ \A f \in Files :
             /\ s.op \in {"fput", "openLookup", "mmapLookup", "insert", "mmapImport", "mmapMap"}
             /\ s.f = f
             => FHeld(f)' # 0
    BY StepCountsNext
  <2>4. s.op \in {"fput", "openLookup", "mmapLookup", "insert", "mmapImport", "mmapMap"}
          => s.f \in Files /\ FHeld(s.f) # 0
    BY <1>0, <2>1, StepCounts, StepFields
  <2>5. ASSUME s.op \in {"hput", "herase", "free", "mmapMap"}
        PROVE  /\ s.h \in Handles /\ handle[s.h].client # Null /\ Owner(s.h) = Proc[u]
               /\ handle'[s.h].client = handle[s.h].client
    <3>1. PICK h \in Handles : s.h = h
      BY <2>3, <2>5, StepFields
    <3>2. HHeld(h)' # 0 \/ HGone(h)' # 0
      BY <2>3, <2>5, <3>1
    <3>3. handle[h].client # Null /\ Owner(h) = Proc[u]
      BY <2>2, <2>5, <3>1 DEF StepFits
    <3>4. handle'[h].client = handle[h].client
      BY <3>2, <3>3 DEF HandlesKept
    <3> QED BY <3>1, <3>3, <3>4
  <2>6. ASSUME s.op \in {"hput", "herase", "free", "mmapMap"}
        PROVE  (handle[s.h].client # Null /\ Owner(s.h) = Proc[u])'
    <3>1. PICK h \in Handles : s.h = h
      BY <2>5, <2>6
    <3>2. /\ handle[h].client # Null /\ client[handle[h].client].task = Proc[u]
          /\ handle'[h].client = handle[h].client
      BY <2>5, <2>6, <3>1 DEF Owner
    <3>3. PICK c \in Clients : c = handle[h].client
      BY <3>2, Typed DEF IInv
    <3>4. client[c].state = "live"
      BY <3>2, <3>3 DEF IInv, Objects, HandleSound
    <3>5. client'[c].task = client[c].task
      BY <3>3, <3>4 DEF ClientsKept, NoneOf
    <3> QED BY <3>1, <3>2, <3>3, <3>5 DEF Owner
  <2>7. ASSUME s.op \in {"free", "mmapMap"}
        PROVE  handle'[s.h].client = s.c
    BY <2>2, <2>5, <2>7 DEF StepFits
  <2>8. ASSUME s.op \in {"cput", "cdestroy", "insert", "mmapImport", "mmapMap"}
        PROVE  client'[s.c].state = "live" /\ client'[s.c].task = Proc[u]
    <3>1. PICK c \in Clients : s.c = c
      BY <2>3, <2>8, StepFields
    <3>2. CHeld(c)' # 0 \/ CGone(c)' # 0
      BY <2>3, <2>8, <3>1
    <3>3. client[c].state = "live" /\ client[c].task = Proc[u]
      BY <2>2, <2>8, <3>1 DEF StepFits
    <3> QED BY <3>1, <3>2, <3>3 DEF ClientsKept
  <2>9. ASSUME s.op \in {"fput", "openLookup", "mmapLookup", "insert", "mmapImport", "mmapMap"}
        PROVE  /\ s.f \in Files /\ file[s.f].kind # "none" /\ file[s.f].state = "live"
               /\ file'[s.f].kind = file[s.f].kind /\ file'[s.f].obj = file[s.f].obj
    <3>1. PICK f \in Files : s.f = f /\ FHeld(f) # 0
      BY <2>4, <2>9
    <3>2. FHeld(f)' # 0
      BY <2>3, <2>9, <3>1
    <3>3. file[f].state = "live"
      <4>1. file[f].ref = FFds(f) + FAreas(f) + FHeld(f) /\ (file[f].state = "live" <=> file[f].ref # 0)
        BY DEF IInv, FileLedger, FileLine
      <4>2. FFds(f) \in Nat /\ FAreas(f) \in Nat /\ FHeld(f) \in Nat
        BY <1>0, FiniteCounts, PendingNat
      <4> QED BY <3>1, <4>1, <4>2
    <3>4. file[f].kind # "none"
      BY <3>3 DEF IInv, Objects, FileSound
    <3> QED BY <3>1, <3>2, <3>3, <3>4 DEF FilesKept
  <2>10. ASSUME s.op = "fput", file'[s.f].kind = "dev"
         PROVE  file'[s.f].obj # Null /\ client'[file'[s.f].obj].task = Proc[u]
    <3>1. /\ s.f \in Files /\ file[s.f].kind = "dev" /\ file'[s.f].obj = file[s.f].obj
          /\ file[s.f].state = "live"
      BY <2>9, <2>10
    <3>2. file[s.f].obj # Null /\ client[file[s.f].obj].task = Proc[u]
      BY <2>2, <2>10, <3>1 DEF StepFits
    <3>3. PICK c \in Clients : c = file[s.f].obj
      BY <3>1, <3>2 DEF IInv, Objects, FileSound
    <3>4. client[c].state = "live"
      <4>1. s.f \in ClientFiles(c)
        BY <3>1, <3>3 DEF ClientFiles
      <4>2. CFiles(c) # 0
        BY <4>1, FiniteCounts
      <4>3. client[c].ref = CFiles(c) + CAreas(c) + CHeld(c) /\ (client[c].state # "live" => client[c].ref = 0)
        BY DEF IInv, ClientLedger, ClientLine
      <4>4. CFiles(c) \in Nat /\ CAreas(c) \in Nat /\ CHeld(c) \in Nat
        BY <1>0, FiniteCounts, PendingNat
      <4> QED BY <4>2, <4>3, <4>4
    <3>5. client'[c].task = client[c].task
      BY <3>1, <3>3, <3>4 DEF ClientsKept, NoneOf
    <3> QED BY <3>1, <3>2, <3>3, <3>5
  <2>11. ASSUME s.op \in {"openLookup", "insert"}
         PROVE  file'[s.f].kind = "dev" /\ file'[s.f].obj = Null
    BY <2>2, <2>9, <2>11 DEF StepFits
  <2>12. ASSUME s.op \in {"mmapLookup", "mmapImport", "mmapMap"}
         PROVE  file'[s.f].kind = "share"
    BY <2>2, <2>9, <2>12 DEF StepFits
  <2> QED BY <2>6, <2>7, <2>8, <2>10, <2>11, <2>12 DEF StepFits
<1> QED BY <1>1, <1>2
Single == {"openLookup", "insert", "mmapLookup", "mmapImport", "mmapMap"}
Putting == {"bput", "bdestroy"}

(* The other threads keep their shape; thread t's is to be shown. *)
LEMMA ShapeKept ==
  ASSUME IInv, Stacks', NEW t \in Threads, NEW n \in {0, 1}, NEW k \in 0 .. 3, Replaced(t, n, k),
         FilesKept, Below2(t)', Alone(t)', ImportHolds(t)'
  PROVE  Shape'
<1> SUFFICES ASSUME NEW u \in Threads PROVE (Below2(u) /\ Alone(u) /\ ImportHolds(u))'
  BY DEF Shape
<1>1. CASE u = t
  BY <1>1
<1>2. CASE u # t
  <2>1. work'[u] = work[u] /\ Below2(u) /\ Alone(u) /\ ImportHolds(u)
    BY <1>2 DEF Replaced, IInv, Shape
  <2>2. Below2(u)' /\ Alone(u)'
    BY <2>1 DEF Below2, Alone, Waits
  <2>3. ASSUME work'[u] # <<>>, work'[u][1].op = "import"
        PROVE  \E f, sf \in Files :
                 /\ Len(work'[u]) = 3 /\ work'[u][2] = FPut(sf) /\ work'[u][3] = FPut(f)
                 /\ file'[f].kind = "dev" /\ file'[f].obj = work'[u][1].c
                 /\ file'[sf].kind = "share" /\ file'[sf].obj = work'[u][1].b
    <3>1. PICK f \in Files, sf \in Files :
            /\ Len(work[u]) = 3 /\ work[u][2] = FPut(sf) /\ work[u][3] = FPut(f)
            /\ file[f].kind = "dev" /\ file[f].obj = work[u][1].c
            /\ file[sf].kind = "share" /\ file[sf].obj = work[u][1].b
      BY <2>1, <2>3 DEF ImportHolds
    <3>2. work'[u][2].op = "fput" /\ work'[u][2].f = sf /\ work'[u][3].op = "fput" /\ work'[u][3].f = f
      BY <2>1, <3>1 DEF FPut
    <3>3. 2 \in 1 .. Len(work'[u]) /\ 3 \in 1 .. Len(work'[u])
      BY <2>1, <3>1
    <3>4. FHeld(sf)' # 0 /\ FHeld(f)' # 0
      BY <3>2, <3>3, StepCountsNext
    <3>5. /\ file'[f].kind = file[f].kind /\ file'[f].obj = file[f].obj
          /\ file'[sf].kind = file[sf].kind /\ file'[sf].obj = file[sf].obj
      BY <3>1, <3>4 DEF FilesKept
    <3> QED BY <2>1, <3>1, <3>5
  <2> QED BY <2>2, <2>3 DEF ImportHolds
<1> QED BY <1>1, <1>2

(* The step on top goes: what is below it, if anything, only waited. *)
LEMMA ShapeEnds ==
  ASSUME IInv, Stacks', FilesKept, NEW t \in Threads, work[t] # <<>>, Replaced(t, 1, 0)
  PROVE  Shape'
<1>0. Stacks
  BY Typed DEF IInv
<1>1. /\ Len(work[t]) \in Nat \ {0} /\ Len(work'[t]) = Len(work[t]) - 1
      /\ \A i \in 1 .. Len(work[t]) - 1 : work'[t][i] = work[t][i + 1]
  <2>1. Len(work[t]) \in Nat \ {0}
    BY <1>0, Below
  <2>2. \A i \in 1 .. Len(work[t]) - 1 : work'[t][i + 0] = work[t][i + 1] /\ i + 0 = i
    BY <2>1 DEF Replaced
  <2> QED BY <2>1, <2>2 DEF Replaced
<1>2. \A i \in 2 .. Len(work[t]) : Waits(work[t][i]) \/ (i = 2 /\ work[t][2].op = "herase")
  BY DEF IInv, Shape, Below2
<1>3. \A i \in 1 .. Len(work'[t]) : Waits(work'[t][i]) \/ (i = 1 /\ work'[t][1].op = "herase")
  <2> TAKE i \in 1 .. Len(work'[t])
  <2>1. i + 1 \in 2 .. Len(work[t]) /\ work'[t][i] = work[t][i + 1]
    BY <1>1
  <2>2. i + 1 = 2 => i = 1
    BY <1>1
  <2> QED BY <1>2, <2>1, <2>2
<1>4. Below2(t)'
  <2>1. \A i \in 2 .. Len(work'[t]) : Waits(work'[t][i])
    <3> TAKE i \in 2 .. Len(work'[t])
    <3>1. i \in 1 .. Len(work'[t]) /\ i # 1
      BY <1>1
    <3> QED BY <1>3, <3>1
  <2> QED BY <2>1 DEF Below2, Waits
<1>5. work'[t] # <<>> => work'[t][1].op \in {"cput", "cdestroy", "fput", "herase"}
  <2>1. ASSUME work'[t] # <<>> PROVE 1 \in 1 .. Len(work'[t])
    <3>1. work'[t] \in Seq(Steps)
      BY DEF Stacks, AllStacks
    <3> HIDE DEF Steps
    <3> QED BY <2>1, <3>1, EmptySeq
  <2> QED BY <1>3, <2>1 DEF Waits
<1>6. Alone(t)' /\ ImportHolds(t)'
  BY <1>5 DEF Alone, ImportHolds
<1> QED BY <1>4, <1>6, ShapeKept

(* One step takes its place. *)
LEMMA ShapeStep1 ==
  ASSUME IInv, Stacks', FilesKept, NEW t \in Threads, work[t] # <<>>, Replaced(t, 1, 1),
         NEW a \in Steps, work'[t][1] = a,
         a.op # "import", a.op \in Single => Arg(t).op \in Single,
         Arg(t).op \in Putting => a.op \in Putting
  PROVE  Shape'
<1>0. Stacks
  BY Typed DEF IInv
<1>1. /\ Len(work[t]) \in Nat \ {0} /\ Len(work'[t]) = Len(work[t])
      /\ \A i \in 2 .. Len(work[t]) : work'[t][i] = work[t][i]
  <2>1. Len(work[t]) \in Nat \ {0}
    BY <1>0, Below
  <2>2. \A i \in 1 .. Len(work[t]) - 1 : work'[t][i + 1] = work[t][i + 1]
    BY DEF Replaced
  <2>3. \A i \in 2 .. Len(work[t]) : i - 1 \in 1 .. Len(work[t]) - 1 /\ (i - 1) + 1 = i
    BY <2>1
  <2>4. \A i \in 2 .. Len(work[t]) : work'[t][i] = work[t][i]
    BY <2>2, <2>3
  <2> QED BY <2>1, <2>4 DEF Replaced
<1>2. Arg(t) = work[t][1]
  BY <1>0, TopStep
<1>3. Below2(t)'
  <2> SUFFICES ASSUME NEW i \in 2 .. Len(work'[t])
               PROVE  \/ Waits(work'[t][i])
                      \/ i = 2 /\ work'[t][2].op = "herase" /\ work'[t][1].op \in Putting
    BY DEF Below2, Putting, Waits
  <2>1. \/ Waits(work[t][i])
        \/ i = 2 /\ work[t][2].op = "herase" /\ work[t][1].op \in Putting
    BY <1>1 DEF IInv, Shape, Below2, Putting
  <2> QED BY <1>1, <1>2, <2>1
<1>4. Alone(t)'
  <2>1. Arg(t).op \in Single => Len(work[t]) = 1
    BY <1>2 DEF IInv, Shape, Alone, Single
  <2> QED BY <1>1, <2>1 DEF Alone, Single
<1>5. ImportHolds(t)'
  BY DEF ImportHolds
<1> QED BY <1>3, <1>4, <1>5, ShapeKept

(* Two steps do, the second of which waits or erases a handle. *)
LEMMA ShapeStep2 ==
  ASSUME IInv, Stacks', FilesKept, NEW t \in Threads, work[t] # <<>>, Replaced(t, 1, 2),
         NEW a \in Steps, NEW b \in Steps, work'[t][1] = a, work'[t][2] = b,
         Arg(t).op \notin Putting, a.op \notin Single, a.op # "import",
         Waits(b) \/ (b.op = "herase" /\ a.op \in Putting)
  PROVE  Shape'
<1>0. Stacks
  BY Typed DEF IInv
<1>1. /\ Len(work[t]) \in Nat \ {0} /\ Len(work'[t]) = Len(work[t]) + 1
      /\ \A i \in 2 .. Len(work[t]) : work'[t][i + 1] = work[t][i]
  <2>1. Len(work[t]) \in Nat \ {0}
    BY <1>0, Below
  <2>2. \A i \in 1 .. Len(work[t]) - 1 : work'[t][i + 2] = work[t][i + 1]
    BY DEF Replaced
  <2>3. \A i \in 2 .. Len(work[t]) : i - 1 \in 1 .. Len(work[t]) - 1 /\ (i - 1) + 1 = i /\ (i - 1) + 2 = i + 1
    BY <2>1
  <2>4. ASSUME NEW i \in 2 .. Len(work[t]) PROVE work'[t][i + 1] = work[t][i]
    <3>1. i - 1 \in 1 .. Len(work[t]) - 1 /\ (i - 1) + 1 = i /\ (i - 1) + 2 = i + 1
      BY <2>3
    <3>2. work'[t][(i - 1) + 2] = work[t][(i - 1) + 1]
      BY <2>2, <3>1
    <3> QED BY <3>1, <3>2
  <2> QED BY <2>1, <2>4 DEF Replaced
<1>2. Arg(t) = work[t][1]
  BY <1>0, TopStep
<1>3. Below2(t)'
  <2> SUFFICES ASSUME NEW i \in 2 .. Len(work'[t])
               PROVE  \/ Waits(work'[t][i])
                      \/ i = 2 /\ work'[t][2].op = "herase" /\ work'[t][1].op \in Putting
    BY DEF Below2, Putting, Waits
  <2>1. CASE i = 2
    BY <2>1
  <2>2. CASE i # 2
    <3>1. i - 1 \in 2 .. Len(work[t]) /\ (i - 1) + 1 = i
      BY <1>1, <2>2
    <3>2. Waits(work[t][i - 1])
      BY <1>2, <3>1 DEF IInv, Shape, Below2, Putting
    <3>3. work'[t][(i - 1) + 1] = work[t][i - 1]
      BY <1>1, <3>1
    <3> QED BY <3>1, <3>2, <3>3
  <2> QED BY <2>1, <2>2
<1>4. Alone(t)' /\ ImportHolds(t)'
  BY DEF Alone, ImportHolds, Single
<1> QED BY <1>3, <1>4, ShapeKept

(* Three do. *)
LEMMA ShapeStep3 ==
  ASSUME IInv, Stacks', FilesKept, NEW t \in Threads, work[t] # <<>>, Replaced(t, 1, 3),
         NEW a \in Steps, NEW b \in Steps, NEW c \in Steps,
         work'[t][1] = a, work'[t][2] = b, work'[t][3] = c,
         Arg(t).op \notin Putting, a.op \notin Single, a.op # "import",
         Waits(b) \/ (b.op = "herase" /\ a.op \in Putting), Waits(c)
  PROVE  Shape'
<1>0. Stacks
  BY Typed DEF IInv
<1>1. /\ Len(work[t]) \in Nat \ {0} /\ Len(work'[t]) = Len(work[t]) + 2
      /\ \A i \in 2 .. Len(work[t]) : work'[t][i + 2] = work[t][i]
  <2>1. Len(work[t]) \in Nat \ {0}
    BY <1>0, Below
  <2>2. \A i \in 1 .. Len(work[t]) - 1 : work'[t][i + 3] = work[t][i + 1]
    BY DEF Replaced
  <2>3. \A i \in 2 .. Len(work[t]) : i - 1 \in 1 .. Len(work[t]) - 1 /\ (i - 1) + 1 = i /\ (i - 1) + 3 = i + 2
    BY <2>1
  <2>4. ASSUME NEW i \in 2 .. Len(work[t]) PROVE work'[t][i + 2] = work[t][i]
    <3>1. i - 1 \in 1 .. Len(work[t]) - 1 /\ (i - 1) + 1 = i /\ (i - 1) + 3 = i + 2
      BY <2>3
    <3>2. work'[t][(i - 1) + 3] = work[t][(i - 1) + 1]
      BY <2>2, <3>1
    <3> QED BY <3>1, <3>2
  <2> QED BY <2>1, <2>4 DEF Replaced
<1>2. Arg(t) = work[t][1]
  BY <1>0, TopStep
<1>3. Below2(t)'
  <2> SUFFICES ASSUME NEW i \in 2 .. Len(work'[t])
               PROVE  \/ Waits(work'[t][i])
                      \/ i = 2 /\ work'[t][2].op = "herase" /\ work'[t][1].op \in Putting
    BY DEF Below2, Putting, Waits
  <2>1. CASE i = 2
    BY <2>1
  <2>2. CASE i = 3
    BY <2>2
  <2>3. CASE i # 2 /\ i # 3
    <3>1. i - 2 \in 2 .. Len(work[t]) /\ (i - 2) + 2 = i
      BY <1>1, <2>3
    <3>2. Waits(work[t][i - 2])
      BY <1>2, <3>1 DEF IInv, Shape, Below2, Putting
    <3>3. work'[t][(i - 2) + 2] = work[t][i - 2]
      BY <1>1, <3>1
    <3> QED BY <3>1, <3>2, <3>3
  <2> QED BY <2>1, <2>2, <2>3
<1>4. Alone(t)' /\ ImportHolds(t)'
  BY DEF Alone, ImportHolds, Single
<1> QED BY <1>3, <1>4, ShapeKept

(* A call of one, two or three steps begins. *)
LEMMA ShapeCall1 ==
  ASSUME IInv, Stacks', FilesKept, NEW t \in Threads, Replaced(t, 0, 1),
         NEW a \in Steps, work'[t] = <<a>>, a.op # "import"
  PROVE  Shape'
<1>1. Len(work'[t]) = 1 /\ work'[t][1] = a
  OBVIOUS
<1>2. Below2(t)' /\ Alone(t)' /\ ImportHolds(t)'
  BY <1>1 DEF Below2, Alone, ImportHolds
<1> QED BY <1>2, ShapeKept

(* The shape of the stack of a call that begins with two steps. *)
LEMMA ShapeCall2 ==
  ASSUME IInv, Stacks', FilesKept, NEW t \in Threads, Replaced(t, 0, 2),
         NEW a \in Steps, NEW b \in Steps, work'[t] = <<a, b>>,
         a.op # "import", a.op \notin Single, Waits(b)
  PROVE  Shape'
<1>1. Len(work'[t]) = 2 /\ work'[t][1] = a /\ work'[t][2] = b
  OBVIOUS
<1>2. \A i \in 2 .. Len(work'[t]) : Waits(work'[t][i])
  <2> TAKE i \in 2 .. Len(work'[t])
  <2>1. i = 2
    BY <1>1
  <2> QED BY <1>1, <2>1
<1>3. Below2(t)'
  BY <1>2 DEF Below2, Waits
<1>4. Alone(t)' /\ ImportHolds(t)'
  BY <1>1 DEF Alone, ImportHolds, Single
<1> QED BY <1>3, <1>4, ShapeKept

(* The shape of the stack of a call that begins with three. *)
LEMMA ShapeCall3 ==
  ASSUME IInv, Stacks', FilesKept, NEW t \in Threads, Replaced(t, 0, 3),
         NEW a \in Steps, NEW b \in Steps, NEW c \in Steps, work'[t] = <<a, b, c>>,
         a.op \notin Single, Waits(b), Waits(c), ImportHolds(t)'
  PROVE  Shape'
<1>1. Len(work'[t]) = 3 /\ work'[t][1] = a /\ work'[t][2] = b /\ work'[t][3] = c
  OBVIOUS
<1>2. \A i \in 2 .. Len(work'[t]) : Waits(work'[t][i])
  <2> TAKE i \in 2 .. Len(work'[t])
  <2>1. i = 2 \/ i = 3
    BY <1>1
  <2> QED BY <1>1, <2>1
<1>3. Below2(t)'
  BY <1>2 DEF Below2, Waits
<1>4. Alone(t)'
  BY <1>1 DEF Alone, Single
<1> QED BY <1>3, <1>4, ShapeKept
(* Both, for each number of steps that come. *)
LEMMA StepsEnd ==
  ASSUME IInv, Stacks', HandlesKept, ClientsKept, FilesKept,
         NEW t \in Threads, work[t] # <<>>, Replaced(t, 1, 0)
  PROVE  Fits' /\ Shape'
  BY FitsKept, ShapeEnds

(* One step in place of another keeps what is known of stacks. *)
LEMMA Step1Comes ==
  ASSUME IInv, Stacks', HandlesKept, ClientsKept, FilesKept,
         NEW t \in Threads, work[t] # <<>>, Replaced(t, 1, 1),
         NEW a \in Steps, work'[t][1] = a, StepFits(t, a)',
         a.op # "import", a.op \in Single => Arg(t).op \in Single,
         Arg(t).op \in Putting => a.op \in Putting
  PROVE  Fits' /\ Shape'
<1>1. \A i \in 1 .. Len(work'[t]) : i <= 1 => \A s : s = work'[t][i] => StepFits(t, s)'
  OBVIOUS
<1> QED BY <1>1, FitsKept, ShapeStep1

(* So do two, the second of which waits. *)
LEMMA Step2Comes ==
  ASSUME IInv, Stacks', HandlesKept, ClientsKept, FilesKept,
         NEW t \in Threads, work[t] # <<>>, Replaced(t, 1, 2),
         NEW a \in Steps, NEW b \in Steps, work'[t][1] = a, work'[t][2] = b,
         StepFits(t, a)', StepFits(t, b)',
         Arg(t).op \notin Putting, a.op \notin Single, a.op # "import",
         Waits(b) \/ (b.op = "herase" /\ a.op \in Putting)
  PROVE  Fits' /\ Shape'
<1>1. \A i \in 1 .. Len(work'[t]) : i <= 2 => i = 1 \/ i = 2
  BY DEF Stacks, AllStacks
<1>2. \A i \in 1 .. Len(work'[t]) : i <= 2 => \A s : s = work'[t][i] => StepFits(t, s)'
  BY <1>1
<1> QED BY <1>2, FitsKept, ShapeStep2

(* So do three. *)
LEMMA Step3Comes ==
  ASSUME IInv, Stacks', HandlesKept, ClientsKept, FilesKept,
         NEW t \in Threads, work[t] # <<>>, Replaced(t, 1, 3),
         NEW a \in Steps, NEW b \in Steps, NEW c \in Steps,
         work'[t][1] = a, work'[t][2] = b, work'[t][3] = c,
         StepFits(t, a)', StepFits(t, b)', StepFits(t, c)',
         Arg(t).op \notin Putting, a.op \notin Single, a.op # "import",
         Waits(b) \/ (b.op = "herase" /\ a.op \in Putting), Waits(c)
  PROVE  Fits' /\ Shape'
<1>1. \A i \in 1 .. Len(work'[t]) : i <= 3 => i = 1 \/ i = 2 \/ i = 3
  BY DEF Stacks, AllStacks
<1>2. \A i \in 1 .. Len(work'[t]) : i <= 3 => \A s : s = work'[t][i] => StepFits(t, s)'
  BY <1>1
<1> QED BY <1>2, FitsKept, ShapeStep3

(* A call of one step keeps it. *)
LEMMA Call1Comes ==
  ASSUME IInv, Stacks', HandlesKept, ClientsKept, FilesKept,
         NEW t \in Threads, Replaced(t, 0, 1),
         NEW a \in Steps, work'[t] = <<a>>, StepFits(t, a)', a.op # "import"
  PROVE  Fits' /\ Shape'
<1>1. \A i \in 1 .. Len(work'[t]) : \A s : s = work'[t][i] => StepFits(t, s)'
  OBVIOUS
<1> QED BY <1>1, FitsKept, ShapeCall1

(* A call of two steps keeps it. *)
LEMMA Call2Comes ==
  ASSUME IInv, Stacks', HandlesKept, ClientsKept, FilesKept,
         NEW t \in Threads, Replaced(t, 0, 2),
         NEW a \in Steps, NEW b \in Steps, work'[t] = <<a, b>>,
         StepFits(t, a)', StepFits(t, b)', a.op # "import", a.op \notin Single, Waits(b)
  PROVE  Fits' /\ Shape'
<1>1. \A i \in 1 .. Len(work'[t]) : \A s : s = work'[t][i] => StepFits(t, s)'
  <2>1. Len(work'[t]) = 2 /\ work'[t][1] = a /\ work'[t][2] = b
    OBVIOUS
  <2>2. \A i \in 1 .. Len(work'[t]) : i = 1 \/ i = 2
    BY <2>1
  <2> QED BY <2>1, <2>2
<1> QED BY <1>1, FitsKept, ShapeCall2

(* A call of three steps keeps it. *)
LEMMA Call3Comes ==
  ASSUME IInv, Stacks', HandlesKept, ClientsKept, FilesKept,
         NEW t \in Threads, Replaced(t, 0, 3),
         NEW a \in Steps, NEW b \in Steps, NEW c \in Steps, work'[t] = <<a, b, c>>,
         StepFits(t, a)', StepFits(t, b)', StepFits(t, c)',
         a.op \notin Single, Waits(b), Waits(c), ImportHolds(t)'
  PROVE  Fits' /\ Shape'
<1>1. \A i \in 1 .. Len(work'[t]) : \A s : s = work'[t][i] => StepFits(t, s)'
  <2>1. Len(work'[t]) = 3 /\ work'[t][1] = a /\ work'[t][2] = b /\ work'[t][3] = c
    OBVIOUS
  <2>2. \A i \in 1 .. Len(work'[t]) : i = 1 \/ i = 2 \/ i = 3
    BY <2>1
  <2> QED BY <2>1, <2>2
<1> QED BY <1>1, FitsKept, ShapeCall3

-----------------------------------------------------------------------------
(* The steps of Ion, each of which keeps the invariant.                    *)

(* What a handle's process holds on it changes only with its client, that  *)
(* client's task, or uref.                                                 *)
LEMMA SameUses ==
  ASSUME handle' = handle, uref' = uref,
         \A c \in Clients : client'[c].task = client[c].task, TypeOK
  PROVE  \A h \in Handles : Uses(h)' = Uses(h) /\ (handle[h].client # Null => Owner(h)' = Owner(h))
<1> TAKE h \in Handles
<1>1. handle[h].client \in Clients \cup {Null}
  BY Typed
<1> QED BY <1>1 DEF Uses, Owner

(* A step that only moves references between pending steps. *)
LEMMA OnlyWorkChanges ==
  ASSUME IInv, Stacks', UNCHANGED <<buffer, handle, client, root, file, fds, vma, uref>>,
         spinning' \subseteq Threads,
         \A b \in Bufs : BPuts(b)' = BPuts(b) /\ BGone(b)' = BGone(b),
         \A c \in Clients : CHeld(c)' = CHeld(c) /\ CGone(c)' = CGone(c),
         \A h \in Handles : HHeld(h)' = HHeld(h) /\ HGone(h)' = HGone(h),
         \A f \in Files : FHeld(f)' = FHeld(f)
  PROVE  /\ TypeOK' /\ BufferLedger' /\ ClientLedger' /\ HandleLedger' /\ FileLedger' /\ Objects'
         /\ HandlesKept /\ ClientsKept /\ FilesKept
<1>1. TypeOK'
  <2>1. work' \in [Threads -> Seq(Steps)]
    BY DEF Stacks, AllStacks
  <2>2. TypeOK
    BY DEF IInv
  <2> HIDE DEF Steps
  <2> QED BY <2>1, <2>2 DEF TypeOK
<1>2. BufferLedger'
  <2>1. \A b \in Bufs : OnHandles(b)' = OnHandles(b) /\ OnFiles(b)' = OnFiles(b)
    BY SameHandles, SameFiles
  <2> QED BY <2>1 DEF IInv, BufferLedger, BufferLine
<1>3. ClientLedger'
  <2>1. \A c \in Clients : CFiles(c)' = CFiles(c) /\ CAreas(c)' = CAreas(c)
    BY SameFiles, SameAreas
  <2> QED BY <2>1 DEF IInv, ClientLedger, ClientLine
<1>4. HandleLedger'
  <2>1. \A h \in Handles : HAreas(h)' = HAreas(h)
    BY SameAreas
  <2>2. \A h \in Handles : Uses(h)' = Uses(h) /\ Owner(h)' = Owner(h)
    BY DEF Uses, Owner
  <2> QED BY <2>1, <2>2 DEF IInv, HandleLedger, HandleLine
<1>5. FileLedger'
  <2>1. \A f \in Files : FFds(f)' = FFds(f) /\ FAreas(f)' = FAreas(f)
    BY SameFds, SameAreas
  <2> QED BY <2>1 DEF IInv, FileLedger, FileLine
<1>6. Objects'
  BY DEF IInv, Objects, HandleSound, ClientSound, FileSound, FdSound, AreaSound, Owner
<1>7. HandlesKept /\ ClientsKept /\ FilesKept
  BY DEF HandlesKept, ClientsKept, FilesKept
<1> QED BY <1>1, <1>2, <1>3, <1>4, <1>5, <1>6, <1>7

(* What is known of the step on top. *)
LEMMA TopFits ==
  ASSUME IInv, NEW t \in Threads, work[t] # <<>>
  PROVE  /\ Stacks /\ Arg(t) \in Steps /\ StepFits(t, Arg(t)) /\ Arg(t) = work[t][1]
         /\ 1 \in 1 .. Len(work[t])
<1>1. Stacks
  BY Typed DEF IInv
<1>2. Arg(t) \in Steps /\ Arg(t) = work[t][1] /\ 1 \in 1 .. Len(work[t])
  BY <1>1, TopStep
<1>3. StepFits(t, Arg(t))
  BY <1>2 DEF IInv, Fits
<1> QED BY <1>1, <1>2, <1>3

(* The invariant does not depend on who is caught in the insert loop. *)
LEMMA OnlySpinningChanges ==
  ASSUME IInv, spinning' \subseteq Threads,
         UNCHANGED <<buffer, handle, client, root, file, fds, vma, uref, work>>
  PROVE  IInv'
<1>1. work' = work /\ Stacks /\ Stacks'
  BY Typed DEF IInv, Stacks, AllStacks
<1>2. \A S : Pending(S)' = Pending(S)
  BY <1>1, PendingIs
<1>3. /\ \A b \in Bufs : BPuts(b)' = BPuts(b) /\ BGone(b)' = BGone(b)
      /\ \A c \in Clients : CHeld(c)' = CHeld(c) /\ CGone(c)' = CGone(c)
      /\ \A h \in Handles : HHeld(h)' = HHeld(h) /\ HGone(h)' = HGone(h)
      /\ \A f \in Files : FHeld(f)' = FHeld(f)
  BY <1>2 DEF BPuts, BGone, CHeld, CGone, HHeld, HGone, FHeld, BPut, BDestroy, ClientSteps, CPut,
              CDestroy, HandleSteps, HPut, HErase, FileSteps, FPut
<1>4. /\ TypeOK' /\ BufferLedger' /\ ClientLedger' /\ HandleLedger' /\ FileLedger' /\ Objects'
  BY <1>1, <1>3, OnlyWorkChanges
<1>5. Fits'
  BY <1>1 DEF IInv, Fits, StepFits, Owner
<1>6. Shape'
  BY <1>1 DEF IInv, Shape, Below2, Alone, ImportHolds, Waits
<1> QED BY <1>4, <1>5, <1>6 DEF IInv

(* OpenSpin changes nothing but spinning. *)
LEMMA OpenSpinKeeps ==
  ASSUME IInv, NEW t \in Threads, OpenSpin(t) PROVE IInv'
BY OnlySpinningChanges DEF OpenSpin

(* A reference moves to the steps that will drop it: the failing ends of   *)
(* ion_import and of ion_share_mmap.                                       *)
LEMMA ImportFailsKeeps ==
  ASSUME IInv, NEW t \in Threads, ImportFails(t) PROVE IInv'
<1>1. /\ work[t] # <<>> /\ Arg(t).op = "import" /\ Then(t, <<>>)
      /\ UNCHANGED <<buffer, handle, client, root, spinning, file, fds, vma, uref>>
  BY DEF ImportFails, At, Arg, objects
<1>2. Stacks /\ Arg(t) \in Steps
  BY <1>1, TopFits
<1>3. Stacks' /\ Replaced(t, 1, 0) /\ Delta(Arg(t), Idle, Idle, Idle)
  BY <1>1, <1>2, EndStep
<1>4. /\ \A b \in Bufs : BPuts(b)' = BPuts(b) /\ BGone(b)' = BGone(b)
      /\ \A c \in Clients : CHeld(c)' = CHeld(c) /\ CGone(c)' = CGone(c)
      /\ \A h \in Handles : HHeld(h)' = HHeld(h) /\ HGone(h)' = HGone(h)
      /\ \A f \in Files : FHeld(f)' = FHeld(f)
  BY <1>1, <1>2, <1>3, PendingNat
     DEF Delta, ForBPut, ForBGone, ForClient, ForCGone, ForHandle, ForHGone, ForFile, Bit, Idle
<1>5. spinning' \subseteq Threads
  BY <1>1 DEF IInv, TypeOK
<1>6. /\ TypeOK' /\ BufferLedger' /\ ClientLedger' /\ HandleLedger' /\ FileLedger' /\ Objects'
      /\ HandlesKept /\ ClientsKept /\ FilesKept
  BY <1>1, <1>3, <1>4, <1>5, OnlyWorkChanges
<1>7. Fits'
  BY <1>3, <1>6, FitsKept
<1>8. Shape'
  BY <1>1, <1>3, <1>6, ShapeEnds
<1> QED BY <1>6, <1>7, <1>8 DEF IInv

(* ion_share_mmap finds no client: the file is dropped. *)
LEMMA MmapNoClientKeeps ==
  ASSUME IInv, NEW t \in Threads, MmapNoClient(t) PROVE IInv'
<1>1. /\ work[t] # <<>> /\ Arg(t).op = "mmapLookup" /\ Then(t, <<FPut(Arg(t).f)>>)
      /\ UNCHANGED <<buffer, handle, client, root, spinning, file, fds, vma, uref>>
  BY DEF MmapNoClient, At, Arg, objects
<1>2. Stacks /\ Arg(t) \in Steps /\ StepFits(t, Arg(t))
  BY <1>1, TopFits
<1>3. PICK f \in Files : f = Arg(t).f
  BY <1>1, <1>2, StepFields
<1>4. FPut(f) \in Steps
  BY FormSteps
<1>5. Stacks' /\ Replaced(t, 1, 1) /\ work'[t][1] = FPut(f) /\ Delta(Arg(t), FPut(f), Idle, Idle)
  <2> HIDE DEF Idle, FPut
  <2> QED BY <1>1, <1>2, <1>3, <1>4, StepTo1
<1>6. /\ \A b \in Bufs : BPuts(b)' = BPuts(b) /\ BGone(b)' = BGone(b)
      /\ \A c \in Clients : CHeld(c)' = CHeld(c) /\ CGone(c)' = CGone(c)
      /\ \A h \in Handles : HHeld(h)' = HHeld(h) /\ HGone(h)' = HGone(h)
      /\ \A g \in Files : FHeld(g)' = FHeld(g)
  BY <1>1, <1>2, <1>3, <1>5, PendingNat
     DEF Delta, ForBPut, ForBGone, ForClient, ForCGone, ForHandle, ForHGone, ForFile, Bit, Idle, FPut
<1>7. spinning' \subseteq Threads
  BY <1>1 DEF IInv, TypeOK
<1>8. /\ TypeOK' /\ BufferLedger' /\ ClientLedger' /\ HandleLedger' /\ FileLedger' /\ Objects'
      /\ HandlesKept /\ ClientsKept /\ FilesKept
  BY <1>1, <1>5, <1>6, <1>7, OnlyWorkChanges
<1>9. StepFits(t, FPut(f))'
  <2>1. file'[f].kind = "share"
    BY <1>1, <1>2, <1>3 DEF StepFits
  <2> QED BY <2>1 DEF StepFits, FPut
<1>10. Fits' /\ Shape'
  <2> HIDE DEF Idle
  <2>1. FPut(f).op = "fput" /\ "fput" \notin Single /\ Arg(t).op \notin Putting
    BY <1>1 DEF FPut, Single, Putting
  <2> QED BY <1>1, <1>4, <1>5, <1>8, <1>9, <2>1, Step1Comes
<1> QED BY <1>8, <1>10 DEF IInv

(* ion_import fails in ion_share_mmap: client and file are dropped. *)
LEMMA MmapImportFailsKeeps ==
  ASSUME IInv, NEW t \in Threads, MmapImportFails(t) PROVE IInv'
<1>1. /\ work[t] # <<>> /\ Arg(t).op = "mmapImport" /\ Then(t, <<CPut(Arg(t).c), FPut(Arg(t).f)>>)
      /\ UNCHANGED <<buffer, handle, client, root, spinning, file, fds, vma, uref>>
  BY DEF MmapImportFails, At, Arg, objects
<1>2. Stacks /\ Arg(t) \in Steps /\ StepFits(t, Arg(t))
  BY <1>1, TopFits
<1>3. PICK c \in Clients, f \in Files : c = Arg(t).c /\ f = Arg(t).f
  BY <1>1, <1>2, StepFields
<1>4. CPut(c) \in Steps /\ FPut(f) \in Steps
  BY FormSteps
<1>5. /\ Stacks' /\ Replaced(t, 1, 2) /\ work'[t][1] = CPut(c) /\ work'[t][2] = FPut(f)
      /\ Delta(Arg(t), CPut(c), FPut(f), Idle)
  <2> HIDE DEF Idle, CPut, FPut
  <2> QED BY <1>1, <1>2, <1>3, <1>4, StepTo2
<1>6. /\ \A b \in Bufs : BPuts(b)' = BPuts(b) /\ BGone(b)' = BGone(b)
      /\ \A d \in Clients : CHeld(d)' = CHeld(d) /\ CGone(d)' = CGone(d)
      /\ \A h \in Handles : HHeld(h)' = HHeld(h) /\ HGone(h)' = HGone(h)
      /\ \A g \in Files : FHeld(g)' = FHeld(g)
  BY <1>1, <1>2, <1>3, <1>5, PendingNat
     DEF Delta, ForBPut, ForBGone, ForClient, ForCGone, ForHandle, ForHGone, ForFile, Bit, Idle, FPut, CPut
<1>7. spinning' \subseteq Threads
  BY <1>1 DEF IInv, TypeOK
<1>8. /\ TypeOK' /\ BufferLedger' /\ ClientLedger' /\ HandleLedger' /\ FileLedger' /\ Objects'
      /\ HandlesKept /\ ClientsKept /\ FilesKept
  BY <1>1, <1>5, <1>6, <1>7, OnlyWorkChanges
<1>9. StepFits(t, CPut(c))' /\ StepFits(t, FPut(f))'
  <2>1. /\ file'[f].kind = "share"
        /\ client'[c].state = "live" /\ client'[c].task = Proc[t]
    BY <1>1, <1>2, <1>3 DEF StepFits
  <2> QED BY <2>1 DEF StepFits, FPut, CPut
<1>10. Fits' /\ Shape'
  <2> HIDE DEF Idle
  <2>1. /\ Arg(t).op \notin Putting /\ CPut(c).op \notin Single /\ CPut(c).op # "import"
        /\ Waits(FPut(f))
    BY <1>1 DEF FPut, CPut, Single, Putting, Waits
  <2> QED BY <1>1, <1>4, <1>5, <1>8, <1>9, <2>1, Step2Comes
<1> QED BY <1>8, <1>10 DEF IInv

(* map_user fails: handle, client and file are dropped. *)
LEMMA MmapMapFailsKeeps ==
  ASSUME IInv, NEW t \in Threads, MmapMapFails(t) PROVE IInv'
<1>1. /\ work[t] # <<>> /\ Arg(t).op = "mmapMap"
      /\ Then(t, <<HPut(Arg(t).h), CPut(Arg(t).c), FPut(Arg(t).f)>>)
      /\ UNCHANGED <<buffer, handle, client, root, spinning, file, fds, vma, uref>>
  BY DEF MmapMapFails, At, Arg, objects
<1>2. Stacks /\ Arg(t) \in Steps /\ StepFits(t, Arg(t))
  BY <1>1, TopFits
<1>3. PICK h \in Handles, c \in Clients, f \in Files : h = Arg(t).h /\ c = Arg(t).c /\ f = Arg(t).f
  BY <1>1, <1>2, StepFields
<1>4. HPut(h) \in Steps /\ CPut(c) \in Steps /\ FPut(f) \in Steps
  BY FormSteps
<1>5. /\ Stacks' /\ Replaced(t, 1, 3)
      /\ work'[t][1] = HPut(h) /\ work'[t][2] = CPut(c) /\ work'[t][3] = FPut(f)
      /\ Delta(Arg(t), HPut(h), CPut(c), FPut(f))
  <2> HIDE DEF HPut, CPut, FPut
  <2> QED BY <1>1, <1>2, <1>3, <1>4, StepTo3
<1>6. /\ \A b \in Bufs : BPuts(b)' = BPuts(b) /\ BGone(b)' = BGone(b)
      /\ \A d \in Clients : CHeld(d)' = CHeld(d) /\ CGone(d)' = CGone(d)
      /\ \A k \in Handles : HHeld(k)' = HHeld(k) /\ HGone(k)' = HGone(k)
      /\ \A g \in Files : FHeld(g)' = FHeld(g)
  <2>1. ASSUME NEW b \in Bufs PROVE BPuts(b)' = BPuts(b) /\ BGone(b)' = BGone(b)
    BY <1>1, <1>2, <1>3, <1>5, PendingNat DEF Delta, ForBPut, ForBGone, Bit, HPut, CPut, FPut
  <2>2. ASSUME NEW d \in Clients PROVE CHeld(d)' = CHeld(d) /\ CGone(d)' = CGone(d)
    BY <1>1, <1>2, <1>3, <1>5, PendingNat DEF Delta, ForClient, ForCGone, Bit, HPut, CPut, FPut
  <2>3. ASSUME NEW k \in Handles PROVE HHeld(k)' = HHeld(k) /\ HGone(k)' = HGone(k)
    BY <1>1, <1>2, <1>3, <1>5, PendingNat DEF Delta, ForHandle, ForHGone, Bit, HPut, CPut, FPut
  <2>4. ASSUME NEW g \in Files PROVE FHeld(g)' = FHeld(g)
    BY <1>1, <1>2, <1>3, <1>5, PendingNat DEF Delta, ForFile, Bit, HPut, CPut, FPut
  <2> QED BY <2>1, <2>2, <2>3, <2>4
<1>7. spinning' \subseteq Threads
  BY <1>1 DEF IInv, TypeOK
<1>8. /\ TypeOK' /\ BufferLedger' /\ ClientLedger' /\ HandleLedger' /\ FileLedger' /\ Objects'
      /\ HandlesKept /\ ClientsKept /\ FilesKept
  BY <1>1, <1>5, <1>6, <1>7, OnlyWorkChanges
<1>9. StepFits(t, HPut(h))' /\ StepFits(t, CPut(c))' /\ StepFits(t, FPut(f))'
  <2>1. /\ handle'[h].client # Null /\ Owner(h)' = Proc[t]
        /\ file'[f].kind = "share"
        /\ client'[c].state = "live" /\ client'[c].task = Proc[t]
    BY <1>1, <1>2, <1>3 DEF StepFits, Owner
  <2> QED BY <2>1 DEF StepFits, FPut, CPut, HPut, Owner
<1>10. Fits' /\ Shape'
  <2>1. /\ Arg(t).op \notin Putting /\ HPut(h).op \notin Single /\ HPut(h).op # "import"
        /\ Waits(FPut(f)) /\ Waits(CPut(c))
    BY <1>1 DEF FPut, CPut, HPut, Single, Putting, Waits
  <2> QED BY <1>1, <1>4, <1>5, <1>8, <1>9, <2>1, Step3Comes
<1> QED BY <1>8, <1>10 DEF IInv

(* ion_free finds the handle: it is still the client's, which a step that  *)
(* holds a reference on the handle says.                                   *)
LEMMA FreeHandleKeeps ==
  ASSUME IInv, NEW t \in Threads, FreeHandle(t) PROVE IInv'
<1>1. /\ work[t] # <<>> /\ Arg(t).op = "free"
      /\ Then(t, IF Arg(t).h \in Tree(Arg(t).c) THEN <<HPut(Arg(t).h)>> ELSE <<>>)
      /\ UNCHANGED <<buffer, handle, client, root, spinning, file, fds, vma, uref>>
  BY DEF FreeHandle, At, Arg, objects
<1>2. Stacks /\ Arg(t) \in Steps /\ StepFits(t, Arg(t))
  BY <1>1, TopFits
<1>3. PICK h \in Handles, c \in Clients : h = Arg(t).h /\ c = Arg(t).c
  BY <1>1, <1>2, StepFields
<1>4. HPut(h) \in Steps
  BY FormSteps
<1>5. handle[h].client # Null /\ Owner(h) = Proc[t] /\ handle[h].client = c
  BY <1>1, <1>2, <1>3 DEF StepFits
<1>6. h \in Tree(c)
  BY <1>5 DEF Tree, IInv, Objects, HandleSound
<1>7. Stacks' /\ Replaced(t, 1, 1) /\ work'[t][1] = HPut(h) /\ Delta(Arg(t), HPut(h), Idle, Idle)
  <2>1. Then(t, <<HPut(h)>>)
    BY <1>1, <1>3, <1>6
  <2> HIDE DEF HPut, Idle
  <2> QED BY <1>1, <1>2, <1>4, <2>1, StepTo1
<1>8. /\ \A b \in Bufs : BPuts(b)' = BPuts(b) /\ BGone(b)' = BGone(b)
      /\ \A d \in Clients : CHeld(d)' = CHeld(d) /\ CGone(d)' = CGone(d)
      /\ \A k \in Handles : HHeld(k)' = HHeld(k) /\ HGone(k)' = HGone(k)
      /\ \A g \in Files : FHeld(g)' = FHeld(g)
  BY <1>1, <1>2, <1>3, <1>7, PendingNat
     DEF Delta, ForBPut, ForBGone, ForClient, ForCGone, ForHandle, ForHGone, ForFile, Bit, HPut, Idle
<1>9. spinning' \subseteq Threads
  BY <1>1 DEF IInv, TypeOK
<1>10. /\ TypeOK' /\ BufferLedger' /\ ClientLedger' /\ HandleLedger' /\ FileLedger' /\ Objects'
       /\ HandlesKept /\ ClientsKept /\ FilesKept
  BY <1>1, <1>7, <1>8, <1>9, OnlyWorkChanges
<1>11. StepFits(t, HPut(h))'
  BY <1>1, <1>5 DEF StepFits, HPut, Owner
<1>12. Fits' /\ Shape'
  <2> HIDE DEF Idle
  <2>1. HPut(h).op = "hput" /\ "hput" \notin Single /\ Arg(t).op \notin Putting
    BY <1>1 DEF HPut, Single, Putting
  <2> QED BY <1>1, <1>4, <1>7, <1>10, <1>11, <2>1, Step1Comes
<1> QED BY <1>10, <1>12 DEF IInv

(* A step that changes one reference count of a buffer. *)
LEMMA BufferRefType ==
  ASSUME TypeOK, Stacks', NEW b \in Bufs, NEW r,
         r \in [state : {"none", "live", "freed"}, ref : Nat],
         buffer' = [buffer EXCEPT ![b] = r],
         UNCHANGED <<handle, client, root, spinning, file, fds, vma, uref>>
  PROVE  TypeOK'
<1>1. work' \in [Threads -> Seq(Steps)]
  BY DEF Stacks, AllStacks
<1>2. buffer' \in [Bufs -> [state : {"none", "live", "freed"}, ref : Nat]]
  BY DEF TypeOK
<1> HIDE DEF Steps
<1> QED BY <1>1, <1>2 DEF TypeOK

(* Nothing but buffers changes: the rest of the invariant stays. *)
LEMMA OnlyBufferChanges ==
  ASSUME IInv, UNCHANGED <<handle, client, file, fds, vma, uref>>,
         \A c \in Clients : CHeld(c)' = CHeld(c) /\ CGone(c)' = CGone(c),
         \A h \in Handles : HHeld(h)' = HHeld(h) /\ HGone(h)' = HGone(h),
         \A f \in Files : FHeld(f)' = FHeld(f)
  PROVE  /\ ClientLedger' /\ HandleLedger' /\ FileLedger' /\ Objects'
         /\ HandlesKept /\ ClientsKept /\ FilesKept
         /\ \A b \in Bufs : OnHandles(b)' = OnHandles(b) /\ OnFiles(b)' = OnFiles(b)
<1>1. ClientLedger'
  <2>1. \A c \in Clients : CFiles(c)' = CFiles(c) /\ CAreas(c)' = CAreas(c)
    BY SameFiles, SameAreas
  <2> QED BY <2>1 DEF IInv, ClientLedger, ClientLine
<1>2. HandleLedger'
  <2>1. \A h \in Handles : HAreas(h)' = HAreas(h)
    BY SameAreas
  <2>2. \A h \in Handles : Uses(h)' = Uses(h) /\ Owner(h)' = Owner(h)
    BY DEF Uses, Owner
  <2> QED BY <2>1, <2>2 DEF IInv, HandleLedger, HandleLine
<1>3. FileLedger'
  <2>1. \A f \in Files : FFds(f)' = FFds(f) /\ FAreas(f)' = FAreas(f)
    BY SameFds, SameAreas
  <2> QED BY <2>1 DEF IInv, FileLedger, FileLine
<1>4. Objects'
  BY DEF IInv, Objects, HandleSound, ClientSound, FileSound, FdSound, AreaSound, Owner
<1>5. HandlesKept /\ ClientsKept /\ FilesKept
  BY DEF HandlesKept, ClientsKept, FilesKept
<1>6. \A b \in Bufs : OnHandles(b)' = OnHandles(b) /\ OnFiles(b)' = OnFiles(b)
  BY SameHandles, SameFiles
<1> QED BY <1>1, <1>2, <1>3, <1>4, <1>5, <1>6

(* ion_buffer_put: the dropped reference was one on its way. *)
LEMMA BufferPutKeeps ==
  ASSUME IInv, NEW t \in Threads, BufferPut(t) PROVE IInv'
<1>1. /\ work[t] # <<>> /\ Arg(t).op = "bput"
      /\ UNCHANGED <<handle, client, root, spinning, file, fds, vma, uref>>
  BY DEF BufferPut, At, Arg
<1>2. Stacks /\ Arg(t) \in Steps /\ StepFits(t, Arg(t))
  BY <1>1, TopFits
<1>3. PICK b \in Bufs : b = Arg(t).b
  BY <1>1, <1>2, StepFields
<1>4. /\ buffer[b].state # "freed" /\ buffer[b].ref > 0 /\ buffer[b].ref \in Nat
      /\ buffer' = [buffer EXCEPT ![b].ref = @ - 1]
      /\ Then(t, IF buffer[b].ref = 1 THEN <<BDestroy(b)>> ELSE <<>>)
  BY <1>3, Typed DEF BufferPut, BDestroy, IInv
<1>5. BDestroy(b) \in Steps
  BY FormSteps
<1>6. /\ buffer'[b].ref = buffer[b].ref - 1 /\ buffer'[b].state = buffer[b].state
      /\ \A x \in Bufs \ {b} : buffer'[x] = buffer[x]
      /\ [buffer[b] EXCEPT !.ref = @ - 1] \in [state : {"none", "live", "freed"}, ref : Nat]
      /\ buffer' = [buffer EXCEPT ![b] = [buffer[b] EXCEPT !.ref = @ - 1]]
  <2>1. /\ buffer \in [Bufs -> [state : {"none", "live", "freed"}, ref : Nat]]
        /\ buffer[b] \in [state : {"none", "live", "freed"}, ref : Nat]
    BY DEF IInv, TypeOK
  <2>2. buffer' = [buffer EXCEPT ![b] = [buffer[b] EXCEPT !.ref = @ - 1]]
    BY <1>4
  <2> DEFINE r == [buffer[b] EXCEPT !.ref = @ - 1]
  <2>3. r \in [state : {"none", "live", "freed"}, ref : Nat] /\ r.ref = buffer[b].ref - 1 /\ r.state = buffer[b].state
    BY <1>4, <2>1
  <2> HIDE DEF r
  <2>4. buffer'[b] = r /\ \A x \in Bufs \ {b} : buffer'[x] = buffer[x]
    BY <2>1, <2>2 DEF r
  <2> QED BY <2>2, <2>3, <2>4 DEF r
<1>7. buffer[b].state = "live"
  BY <1>4 DEF IInv, BufferLedger, BufferLine
<1>8. CASE buffer[b].ref = 1
  <2>1. Stacks' /\ Replaced(t, 1, 1) /\ work'[t][1] = BDestroy(b) /\ Delta(Arg(t), BDestroy(b), Idle, Idle)
    <3>1. Then(t, <<BDestroy(b)>>)
      BY <1>4, <1>8
    <3> HIDE DEF BDestroy, Idle
    <3> QED BY <1>1, <1>2, <1>5, <3>1, StepTo1
  <2>2. /\ \A x \in Bufs : BPuts(x)' = BPuts(x) - Bit(x = b) /\ BGone(x)' = BGone(x) + Bit(x = b)
        /\ \A c \in Clients : CHeld(c)' = CHeld(c) /\ CGone(c)' = CGone(c)
        /\ \A h \in Handles : HHeld(h)' = HHeld(h) /\ HGone(h)' = HGone(h)
        /\ \A f \in Files : FHeld(f)' = FHeld(f)
    BY <1>1, <1>2, <1>3, <2>1, PendingNat
       DEF Delta, ForBPut, ForBGone, ForClient, ForCGone, ForHandle, ForHGone, ForFile, Bit, Idle, BDestroy
  <2>3. TypeOK'
    BY <1>1, <1>6, <2>1, BufferRefType DEF IInv
  <2>4. /\ ClientLedger' /\ HandleLedger' /\ FileLedger' /\ Objects'
        /\ HandlesKept /\ ClientsKept /\ FilesKept
        /\ \A x \in Bufs : OnHandles(x)' = OnHandles(x) /\ OnFiles(x)' = OnFiles(x)
    BY <1>1, <2>2, OnlyBufferChanges
  <2>5. BufferLedger'
    <3> SUFFICES ASSUME NEW x \in Bufs PROVE BufferLine(x)'
      BY DEF BufferLedger
    <3>1. BufferLine(x) /\ OnHandles(x)' = OnHandles(x) /\ OnFiles(x)' = OnFiles(x)
      BY <2>4 DEF IInv, BufferLedger
    <3>2. /\ OnHandles(x) \in Nat /\ OnFiles(x) \in Nat /\ BPuts(x) \in Nat /\ BGone(x) \in Nat
          /\ buffer[x].ref \in Nat
      BY <1>2, FiniteCounts, PendingNat, Typed DEF IInv
    <3>3. CASE x = b
      <4>1. BPuts(x)' = BPuts(x) - 1 /\ BGone(x)' = BGone(x) + 1
        BY <2>2, <3>3 DEF Bit
      <4> QED BY <1>6, <1>7, <1>8, <3>1, <3>2, <3>3, <4>1 DEF BufferLine, Bit
    <3>4. CASE x # b
      <4>1. BPuts(x)' = BPuts(x) /\ BGone(x)' = BGone(x)
        BY <2>2, <3>2, <3>4 DEF Bit
      <4> QED BY <1>6, <3>1, <3>2, <3>4, <4>1 DEF BufferLine, Bit
    <3> QED BY <3>3, <3>4
  <2>6. StepFits(t, BDestroy(b))'
    BY DEF StepFits, BDestroy
  <2>7. Fits' /\ Shape'
    <3> HIDE DEF Idle
    <3>1. BDestroy(b).op = "bdestroy" /\ "bdestroy" \notin Single /\ "bdestroy" \in Putting
      BY DEF BDestroy, Single, Putting
    <3> QED BY <1>1, <1>5, <2>1, <2>4, <2>6, <3>1, Step1Comes
  <2> QED BY <2>3, <2>4, <2>5, <2>7 DEF IInv
<1>9. CASE buffer[b].ref # 1
  <2>1. Stacks' /\ Replaced(t, 1, 0) /\ Delta(Arg(t), Idle, Idle, Idle)
    <3>1. Then(t, <<>>)
      BY <1>4, <1>9
    <3> HIDE DEF Idle
    <3> QED BY <1>1, <1>2, <3>1, EndStep
  <2>2. /\ \A x \in Bufs : BPuts(x)' = BPuts(x) - Bit(x = b) /\ BGone(x)' = BGone(x)
        /\ \A c \in Clients : CHeld(c)' = CHeld(c) /\ CGone(c)' = CGone(c)
        /\ \A h \in Handles : HHeld(h)' = HHeld(h) /\ HGone(h)' = HGone(h)
        /\ \A f \in Files : FHeld(f)' = FHeld(f)
    BY <1>1, <1>2, <1>3, <2>1, PendingNat
       DEF Delta, ForBPut, ForBGone, ForClient, ForCGone, ForHandle, ForHGone, ForFile, Bit, Idle
  <2>3. TypeOK'
    BY <1>1, <1>6, <2>1, BufferRefType DEF IInv
  <2>4. /\ ClientLedger' /\ HandleLedger' /\ FileLedger' /\ Objects'
        /\ HandlesKept /\ ClientsKept /\ FilesKept
        /\ \A x \in Bufs : OnHandles(x)' = OnHandles(x) /\ OnFiles(x)' = OnFiles(x)
    BY <1>1, <2>2, OnlyBufferChanges
  <2>5. BufferLedger'
    <3> SUFFICES ASSUME NEW x \in Bufs PROVE BufferLine(x)'
      BY DEF BufferLedger
    <3>1. BufferLine(x) /\ OnHandles(x)' = OnHandles(x) /\ OnFiles(x)' = OnFiles(x)
      BY <2>4 DEF IInv, BufferLedger
    <3>2. /\ OnHandles(x) \in Nat /\ OnFiles(x) \in Nat /\ BPuts(x) \in Nat /\ BGone(x) \in Nat
          /\ buffer[x].ref \in Nat
      BY <1>2, FiniteCounts, PendingNat, Typed DEF IInv
    <3>3. CASE x = b
      <4>1. BPuts(x)' = BPuts(x) - 1 /\ BGone(x)' = BGone(x)
        BY <2>2, <3>3 DEF Bit
      <4> QED BY <1>4, <1>6, <1>7, <1>9, <3>1, <3>2, <3>3, <4>1 DEF BufferLine, Bit
    <3>4. CASE x # b
      <4>1. BPuts(x)' = BPuts(x) /\ BGone(x)' = BGone(x)
        BY <2>2, <3>2, <3>4 DEF Bit
      <4> QED BY <1>6, <3>1, <3>2, <3>4, <4>1 DEF BufferLine, Bit
    <3> QED BY <3>3, <3>4
  <2>6. Fits' /\ Shape'
    BY <1>1, <2>1, <2>4, StepsEnd
  <2> QED BY <2>3, <2>4, <2>5, <2>6 DEF IInv
<1> QED BY <1>8, <1>9

(* ion_buffer_destroy: the one destroyer of a buffer nobody refers to. *)
LEMMA BufferDestroyKeeps ==
  ASSUME IInv, NEW t \in Threads, BufferDestroy(t) PROVE IInv'
<1>1. /\ work[t] # <<>> /\ Arg(t).op = "bdestroy" /\ Then(t, <<>>)
      /\ UNCHANGED <<handle, client, root, spinning, file, fds, vma, uref>>
  BY DEF BufferDestroy, At, Arg
<1>2. Stacks /\ Arg(t) \in Steps /\ Arg(t) = work[t][1] /\ 1 \in 1 .. Len(work[t])
  BY <1>1, TopFits
<1>3. PICK b \in Bufs : b = Arg(t).b
  BY <1>1, <1>2, StepFields
<1>4. buffer' = [buffer EXCEPT ![b].state = "freed"]
  BY <1>3 DEF BufferDestroy
<1>5. BGone(b) # 0
  BY <1>1, <1>2, <1>3, StepCounts
<1>6. buffer[b].state = "live" /\ buffer[b].ref = 0 /\ BGone(b) = 1
  BY <1>5 DEF IInv, BufferLedger, BufferLine, Bit
<1>7. Stacks' /\ Replaced(t, 1, 0) /\ Delta(Arg(t), Idle, Idle, Idle)
  BY <1>1, <1>2, EndStep
<1>8. /\ \A x \in Bufs : BPuts(x)' = BPuts(x) /\ BGone(x)' = BGone(x) - Bit(x = b)
      /\ \A c \in Clients : CHeld(c)' = CHeld(c) /\ CGone(c)' = CGone(c)
      /\ \A h \in Handles : HHeld(h)' = HHeld(h) /\ HGone(h)' = HGone(h)
      /\ \A f \in Files : FHeld(f)' = FHeld(f)
  BY <1>1, <1>2, <1>3, <1>7, PendingNat
     DEF Delta, ForBPut, ForBGone, ForClient, ForCGone, ForHandle, ForHGone, ForFile, Bit, Idle
<1>9. /\ TypeOK' /\ buffer'[b].ref = 0 /\ buffer'[b].state = "freed"
      /\ \A x \in Bufs \ {b} : buffer'[x] = buffer[x]
  <2>1. /\ buffer \in [Bufs -> [state : {"none", "live", "freed"}, ref : Nat]]
        /\ buffer[b] \in [state : {"none", "live", "freed"}, ref : Nat]
    BY DEF IInv, TypeOK
  <2>2. buffer' = [buffer EXCEPT ![b] = [buffer[b] EXCEPT !.state = "freed"]]
    BY <1>4
  <2> DEFINE r == [buffer[b] EXCEPT !.state = "freed"]
  <2>3. r \in [state : {"none", "live", "freed"}, ref : Nat] /\ r.ref = buffer[b].ref /\ r.state = "freed"
    BY <2>1
  <2> HIDE DEF r
  <2>4. buffer'[b] = r /\ \A x \in Bufs \ {b} : buffer'[x] = buffer[x]
    BY <2>1, <2>2 DEF r
  <2>5. buffer' = [buffer EXCEPT ![b] = r]
    BY <2>2 DEF r
  <2>6. TypeOK'
    BY <1>1, <1>7, <2>3, <2>5, BufferRefType DEF IInv
  <2> QED BY <1>6, <2>3, <2>4, <2>6
<1>10. /\ ClientLedger' /\ HandleLedger' /\ FileLedger' /\ Objects'
       /\ HandlesKept /\ ClientsKept /\ FilesKept
       /\ \A x \in Bufs : OnHandles(x)' = OnHandles(x) /\ OnFiles(x)' = OnFiles(x)
  BY <1>1, <1>8, OnlyBufferChanges
<1>11. BufferLedger'
  <2> SUFFICES ASSUME NEW x \in Bufs PROVE BufferLine(x)'
    BY DEF BufferLedger
  <2>1. BufferLine(x) /\ OnHandles(x)' = OnHandles(x) /\ OnFiles(x)' = OnFiles(x)
    BY <1>10 DEF IInv, BufferLedger
  <2>2. OnHandles(x) \in Nat /\ OnFiles(x) \in Nat /\ BPuts(x) \in Nat /\ BGone(x) \in Nat
    BY <1>2, FiniteCounts, PendingNat
  <2>3. CASE x = b
    <3>1. BPuts(x)' = BPuts(x) /\ BGone(x)' = BGone(x) - 1
      BY <1>8, <2>3 DEF Bit
    <3> QED BY <1>6, <1>9, <2>1, <2>2, <2>3, <3>1 DEF BufferLine, Bit
  <2>4. CASE x # b
    <3>1. BPuts(x)' = BPuts(x) /\ BGone(x)' = BGone(x)
      BY <1>8, <2>2, <2>4 DEF Bit
    <3> QED BY <1>9, <2>1, <2>2, <2>4, <3>1 DEF BufferLine, Bit
  <2> QED BY <2>3, <2>4
<1>12. Fits' /\ Shape'
  BY <1>1, <1>7, <1>10, StepsEnd
<1> QED BY <1>9, <1>10, <1>11, <1>12 DEF IInv

ClientRecs == [state : {"none", "live", "freed"}, ref : Nat, task : Procs \cup {Null}, intree : BOOLEAN]

(* One client changes: the types. *)
LEMMA ClientType ==
  ASSUME TypeOK, Stacks', NEW c \in Clients, NEW r \in ClientRecs,
         client' = [client EXCEPT ![c] = r], root' \in Clients \cup {Null},
         UNCHANGED <<buffer, handle, spinning, file, fds, vma, uref>>
  PROVE  TypeOK' /\ client'[c] = r /\ \A x \in Clients \ {c} : client'[x] = client[x]
<1>1. work' \in [Threads -> Seq(Steps)]
  BY DEF Stacks, AllStacks
<1>2. client' \in [Clients -> ClientRecs]
  BY DEF TypeOK, ClientRecs
<1>3. client'[c] = r /\ \A x \in Clients \ {c} : client'[x] = client[x]
  BY DEF TypeOK
<1> HIDE DEF Steps
<1>4. TypeOK'
  BY <1>1, <1>2 DEF TypeOK, ClientRecs
<1> QED BY <1>3, <1>4

(* A client's reference count alone changes. *)
LEMMA OnlyClientRefChanges ==
  ASSUME IInv, Stacks', NEW c \in Clients, NEW n \in Nat, client' = [client EXCEPT ![c].ref = n],
         UNCHANGED <<buffer, handle, root, spinning, file, fds, vma, uref>>,
         \A b \in Bufs : BPuts(b)' = BPuts(b) /\ BGone(b)' = BGone(b),
         \A h \in Handles : HHeld(h)' = HHeld(h) /\ HGone(h)' = HGone(h)
  PROVE  /\ TypeOK' /\ BufferLedger' /\ HandleLedger' /\ Objects'
         /\ HandlesKept /\ ClientsKept /\ FilesKept
         /\ (\A f \in Files : FHeld(f)' = FHeld(f)) => FileLedger'
         /\ \A x \in Clients : CFiles(x)' = CFiles(x) /\ CAreas(x)' = CAreas(x)
         /\ client'[c].ref = n /\ client'[c].state = client[c].state
         /\ client'[c].task = client[c].task /\ client'[c].intree = client[c].intree
         /\ \A x \in Clients \ {c} : client'[x] = client[x]
<1> DEFINE r == [client[c] EXCEPT !.ref = n]
<1>1. /\ r \in ClientRecs /\ r.ref = n /\ r.state = client[c].state /\ r.task = client[c].task
      /\ r.intree = client[c].intree
  <2>1. client[c] \in ClientRecs
    BY DEF IInv, TypeOK, ClientRecs
  <2> QED BY <2>1 DEF ClientRecs
<1>2. client' = [client EXCEPT ![c] = r]
  OBVIOUS
<1> HIDE DEF r
<1>3. TypeOK' /\ client'[c] = r /\ \A x \in Clients \ {c} : client'[x] = client[x]
  <2>1. TypeOK /\ root' \in Clients \cup {Null}
    BY DEF IInv, TypeOK
  <2> QED BY <1>1, <1>2, <2>1, ClientType
<1>4. \A x \in Clients : /\ client'[x].state = client[x].state /\ client'[x].task = client[x].task
                         /\ client'[x].intree = client[x].intree
  BY <1>1, <1>3
<1>5. BufferLedger'
  <2>1. \A b \in Bufs : OnHandles(b)' = OnHandles(b) /\ OnFiles(b)' = OnFiles(b)
    BY SameHandles, SameFiles
  <2> QED BY <2>1 DEF IInv, BufferLedger, BufferLine
<1>6. \A h \in Handles : Uses(h)' = Uses(h) /\ (handle[h].client # Null => Owner(h)' = Owner(h))
  BY <1>4, SameUses DEF IInv
<1>7. HandleLedger'
  <2>1. \A h \in Handles : HAreas(h)' = HAreas(h)
    BY SameAreas
  <2> QED BY <1>6, <2>1 DEF IInv, HandleLedger, HandleLine
<1>8. ASSUME \A f \in Files : FHeld(f)' = FHeld(f) PROVE FileLedger'
  <2>1. \A f \in Files : FFds(f)' = FFds(f) /\ FAreas(f)' = FAreas(f)
    BY SameFds, SameAreas
  <2> QED BY <1>8, <2>1 DEF IInv, FileLedger, FileLine
<1>9. Objects'
  <2>1. \A h \in Handles : HandleSound(h)'
    BY <1>4, Typed DEF IInv, Objects, HandleSound
  <2>2. \A x \in Clients : ClientSound(x)'
    BY <1>4 DEF IInv, Objects, ClientSound
  <2>3. \A f \in Files : FileSound(f)'
    BY DEF IInv, Objects, FileSound
  <2>4. \A p \in Procs, f \in Files : FdSound(p, f)'
    <3> SUFFICES ASSUME NEW p \in Procs, NEW f \in Files, f \in fds[p], file[f].kind = "dev"
                 PROVE  file[f].obj # Null /\ client'[file[f].obj].task = p
      BY DEF FdSound
    <3>1. file[f].obj # Null /\ client[file[f].obj].task = p /\ file[f].obj \in Clients \cup {Null}
      BY DEF IInv, Objects, FdSound, FileSound
    <3> QED BY <1>4, <3>1
  <2>5. \A v \in Vmas : AreaSound(v)'
    <3> SUFFICES ASSUME NEW v \in Vmas, vma[v] # NoVma PROVE AreaSound(v)'
      BY DEF AreaSound
    <3>1. /\ vma[v].proc \in Procs /\ vma[v].file \in Files /\ vma[v].handle \in Handles
          /\ file[vma[v].file].kind = "share" /\ Owner(vma[v].handle) = vma[v].proc
      BY DEF IInv, Objects, AreaSound
    <3>2. handle[vma[v].handle].client # Null
      <4>1. v \in HandleAreas(vma[v].handle)
        BY DEF HandleAreas
      <4>2. HAreas(vma[v].handle) # 0
        BY <3>1, <4>1, FiniteCounts
      <4>3. PICK h \in Handles : h = vma[v].handle
        BY <3>1
      <4>4. /\ handle[h].ref = Uses(h) + HAreas(h) + HHeld(h)
            /\ handle[h].state \in {"none", "freed"} => handle[h].ref = 0
        BY DEF IInv, HandleLedger, HandleLine
      <4>5. HAreas(h) \in Nat /\ HHeld(h) \in Nat /\ Uses(h) \in Nat
        <5>1. Stacks /\ TypeOK
          BY Typed DEF IInv
        <5>2. HAreas(h) \in Nat /\ HHeld(h) \in Nat
          BY <5>1, FiniteCounts, PendingNat
        <5>3. Uses(h) \in Nat
          <6>1. CASE handle[h].client = Null
            BY <6>1 DEF Uses
          <6>2. CASE handle[h].client # Null
            <7>1. Owner(h) \in Procs
              BY <5>1, <6>2, Typed DEF Owner, IInv, Objects, HandleSound, ClientSound
            <7> QED BY <5>1, <6>2, <7>1, Typed DEF Uses
          <6> QED BY <6>1, <6>2
        <5> QED BY <5>2, <5>3
      <4>6. handle[h].state \notin {"none", "freed"}
        BY <4>2, <4>3, <4>4, <4>5
      <4> QED BY <4>3, <4>6, Typed DEF IInv, Objects, HandleSound
    <3> QED BY <1>6, <3>1, <3>2 DEF AreaSound
  <2> QED BY <2>1, <2>2, <2>3, <2>4, <2>5 DEF Objects
<1>10. HandlesKept /\ ClientsKept /\ FilesKept
  BY <1>4 DEF HandlesKept, ClientsKept, FilesKept
<1>11. \A x \in Clients : CFiles(x)' = CFiles(x) /\ CAreas(x)' = CAreas(x)
  BY SameFiles, SameAreas
<1> QED BY <1>1, <1>3, <1>5, <1>7, <1>8, <1>9, <1>10, <1>11
-----------------------------------------------------------------------------
(* The types of the variables, each under one name. *)
BufferRecs == [state : {"none", "live", "freed"}, ref : Nat]
HandleRecs == [state : {"none", "live", "dying", "freed"}, ref : Nat,
               client : Clients \cup {Null}, buf : Bufs \cup {Null}, intree : BOOLEAN]
FileRecs   == [state : {"none", "live", "freed"}, ref : Nat, kind : {"none", "dev", "share"},
               obj : {Null} \cup Clients \cup Bufs]
VmaRecs    == [proc : Procs \cup {Null}, file : Files \cup {Null}, handle : Handles \cup {Null}]

AllBuffers == [Bufs -> BufferRecs]
AllHandles == [Handles -> HandleRecs]
AllClients == [Clients -> ClientRecs]
AllFiles   == [Files -> FileRecs]
AllVmas    == [Vmas -> VmaRecs]
AllFds     == [Procs -> SUBSET Files]
AllUrefs   == [Procs -> [Handles -> Nat]]

SharesBuffer(f) == file[f].kind = "share" => file[f].obj \in Bufs

(* TypeOK, a variable at a time, in this state and in the next. *)
LEMMA TypeParts ==
  TypeOK <=>
    /\ buffer \in AllBuffers /\ handle \in AllHandles /\ client \in AllClients
    /\ root \in Clients \cup {Null} /\ spinning \subseteq Threads
    /\ file \in AllFiles /\ (\A f \in Files : SharesBuffer(f))
    /\ fds \in AllFds /\ vma \in AllVmas /\ uref \in AllUrefs /\ Stacks
<1> HIDE DEF Steps
<1> QED BY DEF TypeOK, AllBuffers, BufferRecs, AllHandles, HandleRecs, AllClients, ClientRecs,
               AllFiles, FileRecs, AllVmas, VmaRecs, AllFds, AllUrefs, SharesBuffer, Stacks, AllStacks

(* The types after a step, variable by variable. *)
LEMMA TypePartsNext ==
  ASSUME buffer' \in AllBuffers, handle' \in AllHandles, client' \in AllClients,
         root' \in Clients \cup {Null}, spinning' \subseteq Threads,
         file' \in AllFiles, \A f \in Files : SharesBuffer(f)',
         fds' \in AllFds, vma' \in AllVmas, uref' \in AllUrefs, Stacks'
  PROVE  TypeOK'
<1> HIDE DEF Steps
<1> QED BY DEF TypeOK, AllBuffers, BufferRecs, AllHandles, HandleRecs, AllClients, ClientRecs,
               AllFiles, FileRecs, AllVmas, VmaRecs, AllFds, AllUrefs, SharesBuffer, Stacks, AllStacks

(* One object replaced. *)
LEMMA BufferSet ==
  ASSUME buffer \in AllBuffers, NEW b \in Bufs, NEW r \in BufferRecs, buffer' = [buffer EXCEPT ![b] = r]
  PROVE  buffer' \in AllBuffers /\ buffer'[b] = r /\ \A x \in Bufs \ {b} : buffer'[x] = buffer[x]
<1> HIDE DEF BufferRecs
<1> QED BY DEF AllBuffers

(* One handle is set. *)
LEMMA HandleSet ==
  ASSUME handle \in AllHandles, NEW h \in Handles, NEW r \in HandleRecs, handle' = [handle EXCEPT ![h] = r]
  PROVE  handle' \in AllHandles /\ handle'[h] = r /\ \A x \in Handles \ {h} : handle'[x] = handle[x]
<1> HIDE DEF HandleRecs
<1> QED BY DEF AllHandles

(* One client is set. *)
LEMMA ClientSet ==
  ASSUME client \in AllClients, NEW c \in Clients, NEW r \in ClientRecs, client' = [client EXCEPT ![c] = r]
  PROVE  client' \in AllClients /\ client'[c] = r /\ \A x \in Clients \ {c} : client'[x] = client[x]
<1> HIDE DEF ClientRecs
<1> QED BY DEF AllClients

(* One file is set. *)
LEMMA FileSet ==
  ASSUME file \in AllFiles, NEW f \in Files, NEW r \in FileRecs, file' = [file EXCEPT ![f] = r]
  PROVE  file' \in AllFiles /\ file'[f] = r /\ \A x \in Files \ {f} : file'[x] = file[x]
<1> HIDE DEF FileRecs
<1> QED BY DEF AllFiles

(* One area is set. *)
LEMMA VmaSet ==
  ASSUME vma \in AllVmas, NEW v \in Vmas, NEW r \in VmaRecs, vma' = [vma EXCEPT ![v] = r]
  PROVE  vma' \in AllVmas /\ vma'[v] = r /\ \A x \in Vmas \ {v} : vma'[x] = vma[x]
<1> HIDE DEF VmaRecs
<1> QED BY DEF AllVmas

-----------------------------------------------------------------------------
(* What is referred to is there.                                           *)

(* The references a program has on a handle are a number. *)
LEMMA UsesNat ==
  ASSUME IInv, NEW h \in Handles PROVE Uses(h) \in Nat
<1>1. TypeOK
  BY DEF IInv
<1>2. CASE handle[h].client = Null
  BY <1>2 DEF Uses
<1>3. CASE handle[h].client # Null
  <2>1. Owner(h) \in Procs
    BY <1>1, <1>3, Typed DEF Owner, IInv, Objects, HandleSound, ClientSound
  <2> QED BY <1>1, <1>3, <2>1, Typed DEF Uses
<1> QED BY <1>2, <1>3

(* All counts are natural numbers. *)
LEMMA CountsNat ==
  ASSUME IInv
  PROVE  /\ \A b \in Bufs : /\ OnHandles(b) \in Nat /\ OnFiles(b) \in Nat /\ BPuts(b) \in Nat
                            /\ BGone(b) \in Nat /\ buffer[b].ref \in Nat
         /\ \A c \in Clients : /\ CFiles(c) \in Nat /\ CAreas(c) \in Nat /\ CHeld(c) \in Nat
                               /\ CGone(c) \in Nat /\ client[c].ref \in Nat
         /\ \A h \in Handles : /\ Uses(h) \in Nat /\ HAreas(h) \in Nat /\ HHeld(h) \in Nat
                               /\ HGone(h) \in Nat /\ handle[h].ref \in Nat
         /\ \A f \in Files : /\ FFds(f) \in Nat /\ FAreas(f) \in Nat /\ FHeld(f) \in Nat
                             /\ file[f].ref \in Nat
<1>1. Stacks /\ TypeOK
  BY Typed DEF IInv
<1>2. /\ \A b \in Bufs : BPuts(b) \in Nat /\ BGone(b) \in Nat
      /\ \A c \in Clients : CHeld(c) \in Nat /\ CGone(c) \in Nat
      /\ \A h \in Handles : HHeld(h) \in Nat /\ HGone(h) \in Nat
      /\ \A f \in Files : FHeld(f) \in Nat
  BY <1>1, PendingNat
<1>3. /\ \A b \in Bufs : OnHandles(b) \in Nat /\ OnFiles(b) \in Nat
      /\ \A c \in Clients : CFiles(c) \in Nat /\ CAreas(c) \in Nat
      /\ \A h \in Handles : HAreas(h) \in Nat
      /\ \A f \in Files : FFds(f) \in Nat /\ FAreas(f) \in Nat
  BY FiniteCounts
<1>4. \A h \in Handles : Uses(h) \in Nat
  BY UsesNat
<1>5. /\ \A b \in Bufs : buffer[b].ref \in Nat
      /\ \A c \in Clients : client[c].ref \in Nat
      /\ \A h \in Handles : handle[h].ref \in Nat
      /\ \A f \in Files : file[f].ref \in Nat
  BY <1>1, Typed
<1> QED BY <1>2, <1>3, <1>4, <1>5

(* A buffer that a handle, a file or a step refers to is live. *)
LEMMA BufferThere ==
  ASSUME IInv, NEW b \in Bufs, OnHandles(b) # 0 \/ OnFiles(b) # 0 \/ BPuts(b) # 0
  PROVE  buffer[b].ref # 0 /\ buffer[b].ref > 0 /\ buffer[b].state = "live" /\ BGone(b) = 0
<1>1. /\ OnHandles(b) \in Nat /\ OnFiles(b) \in Nat /\ BPuts(b) \in Nat /\ buffer[b].ref \in Nat
  BY CountsNat
<1>2. BufferLine(b)
  BY DEF IInv, BufferLedger
<1> QED BY <1>1, <1>2 DEF BufferLine, Bit

(* So is a client that a file, an area or a step refers to. *)
LEMMA ClientThere ==
  ASSUME IInv, NEW c \in Clients, CFiles(c) # 0 \/ CAreas(c) # 0 \/ CHeld(c) # 0
  PROVE  client[c].ref # 0 /\ client[c].ref > 0 /\ client[c].state = "live" /\ CGone(c) = 0
<1>1. /\ CFiles(c) \in Nat /\ CAreas(c) \in Nat /\ CHeld(c) \in Nat /\ client[c].ref \in Nat
  BY CountsNat
<1>2. ClientLine(c)
  BY DEF IInv, ClientLedger
<1> QED BY <1>1, <1>2 DEF ClientLine, Bit

(* A handle in use is not yet erased, and live when an area or a step uses  *)
(* it.                                                                      *)
LEMMA HandleThere ==
  ASSUME IInv, NEW h \in Handles, Uses(h) # 0 \/ HAreas(h) # 0 \/ HHeld(h) # 0
  PROVE  /\ handle[h].ref # 0 /\ handle[h].ref > 0
         /\ handle[h].state \in {"live", "dying"} /\ handle[h].client \in Clients
         /\ handle[h].client # Null /\ handle[h].intree /\ handle[h].buf \in Bufs
         /\ client[handle[h].client].state = "live"
         /\ HAreas(h) # 0 \/ HHeld(h) # 0 => handle[h].state = "live" /\ HGone(h) = 0
<1>1. /\ Uses(h) \in Nat /\ HAreas(h) \in Nat /\ HHeld(h) \in Nat /\ handle[h].ref \in Nat
  BY CountsNat
<1>2. HandleLine(h) /\ HandleSound(h)
  BY DEF IInv, HandleLedger, Objects
<1>3. handle[h].ref # 0 /\ handle[h].ref > 0
  BY <1>1, <1>2 DEF HandleLine
<1>4. handle[h].state \in {"live", "dying"}
  <2>1. handle[h].state \in {"none", "live", "dying", "freed"}
    BY Typed DEF IInv
  <2> QED BY <1>2, <1>3, <2>1 DEF HandleLine
<1>5. handle[h].client # Null /\ handle[h].client \in Clients \cup {Null}
  BY <1>2, <1>4, Typed DEF IInv, HandleSound
<1>6. handle[h].intree /\ handle[h].buf \in Bufs /\ client[handle[h].client].state = "live"
  BY <1>2, <1>5 DEF HandleSound
<1>7. HAreas(h) # 0 \/ HHeld(h) # 0 => handle[h].state = "live" /\ HGone(h) = 0
  BY <1>1, <1>2, <1>4 DEF HandleLine, Bit
<1> QED BY <1>3, <1>4, <1>5, <1>6, <1>7

(* A file in a table, in an area or in a step is live. *)
LEMMA FileThere ==
  ASSUME IInv, NEW f \in Files, FFds(f) # 0 \/ FAreas(f) # 0 \/ FHeld(f) # 0
  PROVE  file[f].ref # 0 /\ file[f].ref > 0 /\ file[f].state = "live" /\ file[f].kind # "none"
<1>1. FFds(f) \in Nat /\ FAreas(f) \in Nat /\ FHeld(f) \in Nat /\ file[f].ref \in Nat
  BY CountsNat
<1>2. FileLine(f) /\ FileSound(f)
  BY DEF IInv, FileLedger, Objects
<1> QED BY <1>1, <1>2 DEF FileLine, FileSound

(* An area's handle, its client and its file are there. *)
LEMMA AreaThere ==
  ASSUME IInv, NEW v \in Vmas, vma[v] # NoVma, NEW h, h = vma[v].handle
  PROVE  /\ h \in Handles /\ handle[h].state = "live" /\ handle[h].client \in Clients
         /\ handle[h].client # Null /\ HAreas(h) # 0
         /\ CAreas(handle[h].client) # 0
         /\ Owner(h) = vma[v].proc /\ vma[v].proc \in Procs /\ vma[v].file \in Files
         /\ file[vma[v].file].kind = "share" /\ FAreas(vma[v].file) # 0
<1>1. /\ vma[v].proc \in Procs /\ vma[v].file \in Files /\ h \in Handles
      /\ file[vma[v].file].kind = "share" /\ Owner(h) = vma[v].proc
  BY DEF IInv, Objects, AreaSound
<1>2. HAreas(h) # 0
  <2>1. v \in HandleAreas(h)
    BY DEF HandleAreas
  <2> QED BY <1>1, <2>1, FiniteCounts
<1>3. handle[h].state = "live" /\ handle[h].client \in Clients /\ handle[h].client # Null
  BY <1>1, <1>2, HandleThere
<1>4. CAreas(handle[h].client) # 0
  <2>1. h # Null
    BY <1>1 DEF Handles, Null
  <2>2. v \in ClientAreas(handle[h].client)
    BY <2>1 DEF ClientAreas
  <2> QED BY <1>3, <2>2, FiniteCounts
<1>5. FAreas(vma[v].file) # 0
  <2>1. v \in FileAreas(vma[v].file)
    BY DEF FileAreas
  <2> QED BY <1>1, <2>1, FiniteCounts
<1> QED BY <1>1, <1>2, <1>3, <1>4, <1>5
(* Of one handle, the count and the state change, and it stays a handle. *)
LEMMA HandleStays ==
  ASSUME IInv, NEW h \in Handles, NEW r \in HandleRecs, handle' = [handle EXCEPT ![h] = r],
         r.client = handle[h].client, r.buf = handle[h].buf, r.intree = handle[h].intree,
         r.state \in {"live", "dying"} <=> handle[h].state \in {"live", "dying"},
         UNCHANGED <<client, file, fds, vma>>
  PROVE  /\ handle' \in AllHandles /\ handle'[h] = r /\ \A x \in Handles \ {h} : handle'[x] = handle[x]
         /\ \A b \in Bufs : OnFiles(b)' = OnFiles(b)
         /\ \A b \in Bufs : OnHandles(b)' = OnHandles(b) - HandleOn(handle[h], b) + HandleOn(r, b)
         /\ \A c \in Clients : CFiles(c)' = CFiles(c) /\ CAreas(c)' = CAreas(c)
         /\ \A x \in Handles : HAreas(x)' = HAreas(x) /\ Owner(x)' = Owner(x)
                               /\ handle'[x].client = handle[x].client
         /\ Objects' /\ HandlesKept /\ ClientsKept /\ FilesKept
         /\ (\A c \in Clients : CHeld(c)' = CHeld(c) /\ CGone(c)' = CGone(c)) => ClientLedger'
         /\ (\A f \in Files : FHeld(f)' = FHeld(f)) => FileLedger'
<1>1. handle' \in AllHandles /\ handle'[h] = r /\ \A x \in Handles \ {h} : handle'[x] = handle[x]
  BY HandleSet, TypeParts DEF IInv
<1>2. \A x \in Handles : /\ handle'[x].client = handle[x].client /\ handle'[x].buf = handle[x].buf
                         /\ handle'[x].intree = handle[x].intree
  BY <1>1
<1>3. \A b \in Bufs : OnFiles(b)' = OnFiles(b)
  BY SameFiles
<1>4. \A b \in Bufs : OnHandles(b)' = OnHandles(b) - HandleOn(handle[h], b) + HandleOn(r, b)
  BY <1>1, HandleChanges
<1>5. \A v \in Vmas : vma[v].handle \in Handles \cup {Null}
  BY DEF IInv, TypeOK
<1>6. \A c \in Clients : CFiles(c)' = CFiles(c) /\ CAreas(c)' = CAreas(c)
  <2> TAKE c \in Clients
  <2>1. \A w \in Vmas : AreaOf(w, c)' <=> AreaOf(w, c)
    BY <1>2, <1>5 DEF AreaOf
  <2> QED BY <2>1, AreasStayWithClient, SameFiles
<1>7. \A x \in Handles : HAreas(x)' = HAreas(x) /\ Owner(x)' = Owner(x)
  BY <1>2, SameAreas DEF Owner
<1>8. \A x \in Handles : HandleSound(x)'
  <2> TAKE x \in Handles
  <2>1. HandleSound(x)
    BY DEF IInv, Objects
  <2>2. CASE x = h
    BY <1>1, <1>2, <2>1, <2>2 DEF HandleSound
  <2>3. CASE x # h
    BY <1>1, <2>1, <2>3 DEF HandleSound
  <2> QED BY <2>2, <2>3
<1>9. /\ \A c \in Clients : ClientSound(c)'
      /\ \A f \in Files : FileSound(f)'
      /\ \A p \in Procs, f \in Files : FdSound(p, f)'
  BY DEF IInv, Objects, ClientSound, FileSound, FdSound
<1>10. \A v \in Vmas : AreaSound(v)'
  BY <1>7 DEF IInv, Objects, AreaSound
<1>11. Objects'
  BY <1>8, <1>9, <1>10 DEF Objects
<1>12. HandlesKept /\ ClientsKept /\ FilesKept
  BY <1>2 DEF HandlesKept, ClientsKept, FilesKept
<1>13. ASSUME \A c \in Clients : CHeld(c)' = CHeld(c) /\ CGone(c)' = CGone(c) PROVE ClientLedger'
  BY <1>6, <1>13 DEF IInv, ClientLedger, ClientLine
<1>14. ASSUME \A f \in Files : FHeld(f)' = FHeld(f) PROVE FileLedger'
  <2>1. \A f \in Files : FFds(f)' = FFds(f) /\ FAreas(f)' = FAreas(f)
    BY SameFds, SameAreas
  <2> QED BY <1>14, <2>1 DEF IInv, FileLedger, FileLine
<1> QED BY <1>1, <1>2, <1>3, <1>4, <1>6, <1>7, <1>11, <1>12, <1>13, <1>14

(* A handle starts to die: its buffer is about to be put, it about to be   *)
(* erased.                                                                 *)
LEMMA DyingLedger ==
  ASSUME IInv, NEW h \in Handles, NEW r \in HandleRecs, handle[h].state = "live",
         r.state = "dying", handle[h].buf \in Bufs, buffer' = buffer,
         \A b \in Bufs : /\ OnFiles(b)' = OnFiles(b)
                         /\ OnHandles(b)' = OnHandles(b) - HandleOn(handle[h], b) + HandleOn(r, b)
                         /\ BPuts(b)' = BPuts(b) + Bit(b = handle[h].buf) /\ BGone(b)' = BGone(b)
  PROVE  BufferLedger'
<1> SUFFICES ASSUME NEW b \in Bufs PROVE BufferLine(b)'
  BY DEF BufferLedger
<1>1. BufferLine(b)
  BY DEF IInv, BufferLedger
<1>2. /\ OnHandles(b) \in Nat /\ OnFiles(b) \in Nat /\ BPuts(b) \in Nat
      /\ BGone(b) \in Nat /\ buffer[b].ref \in Nat
  BY CountsNat
<1>3. CASE b = handle[h].buf
  <2>1. OnHandles(b)' = OnHandles(b) - 1 + 0 /\ BPuts(b)' = BPuts(b) + 1
    BY <1>3 DEF HandleOn, Bit
  <2> QED BY <1>1, <1>2, <2>1 DEF BufferLine
<1>4. CASE b # handle[h].buf
  <2>1. OnHandles(b)' = OnHandles(b) - 0 + 0 /\ BPuts(b)' = BPuts(b) + 0
    BY <1>4 DEF HandleOn, Bit
  <2> QED BY <1>1, <1>2, <2>1 DEF BufferLine
<1> QED BY <1>3, <1>4

(* A handle stays live: no buffer's count has to change. *)
LEMMA LiveLedger ==
  ASSUME IInv, NEW h \in Handles, NEW r \in HandleRecs,
         r.state = handle[h].state, r.buf = handle[h].buf, buffer' = buffer,
         \A b \in Bufs : /\ OnFiles(b)' = OnFiles(b)
                         /\ OnHandles(b)' = OnHandles(b) - HandleOn(handle[h], b) + HandleOn(r, b)
                         /\ BPuts(b)' = BPuts(b) /\ BGone(b)' = BGone(b)
  PROVE  BufferLedger'
<1> SUFFICES ASSUME NEW b \in Bufs PROVE BufferLine(b)'
  BY DEF BufferLedger
<1>1. BufferLine(b)
  BY DEF IInv, BufferLedger
<1>2. HandleOn(handle[h], b) = HandleOn(r, b) /\ HandleOn(r, b) \in Nat /\ OnHandles(b) \in Nat
  BY CountsNat DEF HandleOn, Bit
<1>3. OnHandles(b)' = OnHandles(b)
  BY <1>2
<1> QED BY <1>1, <1>3 DEF BufferLine

(* ion_handle_put that is not the last, and the last. *)
LEMMA HandlePutKeeps ==
  ASSUME IInv, NEW t \in Threads, HandlePut(t) PROVE IInv'
<1>1. /\ work[t] # <<>> /\ Arg(t).op = "hput"
      /\ UNCHANGED <<buffer, client, root, spinning, file, fds, vma, uref>>
  BY DEF HandlePut, At, Arg
<1>2. Stacks /\ Arg(t) \in Steps /\ StepFits(t, Arg(t)) /\ Arg(t) = work[t][1] /\ 1 \in 1 .. Len(work[t])
  BY <1>1, TopFits
<1>3. PICK h \in Handles : h = Arg(t).h
  BY <1>1, <1>2, StepFields
<1>4. HHeld(h) # 0
  BY <1>1, <1>2, <1>3, StepCounts
<1>5. /\ handle[h].ref > 0 /\ handle[h].state = "live" /\ handle[h].client # Null
      /\ handle[h].buf \in Bufs /\ handle[h].intree /\ HGone(h) = 0
  BY <1>4, HandleThere
<1>6. Owner(h) = Proc[t]
  BY <1>1, <1>2, <1>3 DEF StepFits
<1>7. handle[h] \in HandleRecs
  BY TypeParts DEF IInv, AllHandles
<1>8. /\ handle[h].ref = Uses(h) + HAreas(h) + HHeld(h)
      /\ Uses(h) \in Nat /\ HAreas(h) \in Nat /\ HHeld(h) \in Nat /\ HGone(h) \in Nat /\ handle[h].ref \in Nat
  BY CountsNat DEF IInv, HandleLedger, HandleLine
<1>9. \A x \in Handles : Uses(x) \in Nat /\ HAreas(x) \in Nat /\ HHeld(x) \in Nat /\ HGone(x) \in Nat
  BY CountsNat
<1>10. CASE handle[h].ref = 1
  <2>1. PICK b \in Bufs : b = handle[h].buf
    BY <1>5
  <2> DEFINE r == [handle[h] EXCEPT !.ref = 0, !.state = "dying"]
  <2>2. /\ r \in HandleRecs /\ r.client = handle[h].client /\ r.buf = handle[h].buf
        /\ r.intree = handle[h].intree /\ r.state = "dying" /\ r.ref = 0
    BY <1>7 DEF HandleRecs
  <2>3. handle' = [handle EXCEPT ![h] = r]
    <3>1. handle' = [handle EXCEPT ![h].ref = @ - 1, ![h].state = "dying"]
      BY <1>3, <1>10 DEF HandlePut
    <3>2. handle[h].ref - 1 = 0
      BY <1>10
    <3>3. handle' = [handle EXCEPT ![h].ref = 0, ![h].state = "dying"]
      BY <3>1, <3>2
    <3>4. handle \in AllHandles /\ h \in DOMAIN handle
      BY TypeParts DEF IInv, AllHandles
    <3> QED BY <3>3, <3>4 DEF AllHandles
  <2>4. Then(t, <<BPut(b), HErase(h)>>)
    BY <1>3, <1>10, <2>1 DEF HandlePut, DestroySteps, HErase
  <2> HIDE DEF r
  <2>5. BPut(b) \in Steps /\ HErase(h) \in Steps
    BY FormSteps
  <2>6. /\ Stacks' /\ Replaced(t, 1, 2) /\ work'[t][1] = BPut(b) /\ work'[t][2] = HErase(h)
        /\ Delta(Arg(t), BPut(b), HErase(h), Idle)
    <3> HIDE DEF BPut, HErase, Idle
    <3> QED BY <1>1, <1>2, <2>4, <2>5, StepTo2
  <2>7. /\ \A x \in Bufs : BPuts(x)' = BPuts(x) + Bit(x = b) /\ BGone(x)' = BGone(x)
        /\ \A c \in Clients : CHeld(c)' = CHeld(c) /\ CGone(c)' = CGone(c)
        /\ \A x \in Handles : HHeld(x)' = HHeld(x) - Bit(x = h) /\ HGone(x)' = HGone(x) + Bit(x = h)
        /\ \A f \in Files : FHeld(f)' = FHeld(f)
    BY <1>1, <1>2, <1>3, <2>6, PendingNat
       DEF Delta, ForBPut, ForBGone, ForClient, ForCGone, ForHandle, ForHGone, ForFile, Bit, Idle, BPut, HErase
  <2>8. /\ handle' \in AllHandles /\ handle'[h] = r /\ \A x \in Handles \ {h} : handle'[x] = handle[x]
        /\ \A x \in Bufs : OnFiles(x)' = OnFiles(x)
        /\ \A x \in Bufs : OnHandles(x)' = OnHandles(x) - HandleOn(handle[h], x) + HandleOn(r, x)
        /\ \A x \in Handles : HAreas(x)' = HAreas(x) /\ Owner(x)' = Owner(x)
                              /\ handle'[x].client = handle[x].client
        /\ Objects' /\ HandlesKept /\ ClientsKept /\ FilesKept /\ ClientLedger' /\ FileLedger'
    BY <1>1, <1>5, <2>2, <2>3, <2>7, HandleStays
  <2>9. TypeOK'
    BY <1>1, <2>6, <2>8, TypeParts, TypePartsNext DEF IInv, SharesBuffer
  <2>10. BufferLedger'
    BY <1>1, <1>5, <2>1, <2>2, <2>7, <2>8, DyingLedger
  <2>11. HandleLedger'
    <3> SUFFICES ASSUME NEW x \in Handles PROVE HandleLine(x)'
      BY DEF HandleLedger
    <3>1. HandleLine(x)
      BY DEF IInv, HandleLedger
    <3>2. Uses(x)' = Uses(x)
      BY <1>1, <2>8 DEF Uses
    <3>3. CASE x = h
      <4>1. HHeld(x)' = HHeld(x) - 1 /\ HGone(x)' = 1
        BY <1>5, <2>7, <3>3 DEF Bit
      <4>2. Uses(x) = 0 /\ HAreas(x) = 0 /\ HHeld(x) = 1
        BY <1>4, <1>8, <1>10, <3>3
      <4>3. \A p \in Procs : uref'[p][x] # 0 => handle'[x].client # Null /\ Owner(x)' = p
        BY <1>1, <2>8, <3>1 DEF HandleLine
      <4> QED BY <2>2, <2>8, <3>2, <3>3, <4>1, <4>2, <4>3 DEF HandleLine, Bit
    <3>4. CASE x # h
      <4>1. HHeld(x)' = HHeld(x) /\ HGone(x)' = HGone(x)
        BY <1>9, <2>7, <3>4 DEF Bit
      <4>2. handle'[x] = handle[x]
        BY <2>8, <3>4
      <4> QED BY <1>1, <2>8, <3>1, <3>2, <4>1, <4>2 DEF HandleLine, Bit
    <3> QED BY <3>3, <3>4
  <2>12. StepFits(t, BPut(b))' /\ StepFits(t, HErase(h))'
    <3>1. StepFits(t, BPut(b))'
      BY DEF StepFits, BPut
    <3>2. handle'[h].client # Null /\ Owner(h)' = Proc[t]
      BY <1>5, <1>6, <2>8
    <3> QED BY <3>1, <3>2 DEF StepFits, HErase
  <2>13. Fits' /\ Shape'
    <3>1. /\ BPut(b).op = "bput" /\ HErase(h).op = "herase" /\ "bput" \in Putting
          /\ "bput" \notin Single /\ "hput" \notin Putting
      BY DEF BPut, HErase, Single, Putting
    <3> HIDE DEF Idle, BPut, HErase
    <3> QED BY <1>1, <2>5, <2>6, <2>8, <2>12, <3>1, Step2Comes
  <2> QED BY <2>8, <2>9, <2>10, <2>11, <2>13 DEF IInv
<1>11. CASE handle[h].ref # 1
  <2> DEFINE r == [handle[h] EXCEPT !.ref = @ - 1]
  <2>2. /\ r \in HandleRecs /\ r.client = handle[h].client /\ r.buf = handle[h].buf
        /\ r.intree = handle[h].intree /\ r.state = "live" /\ r.ref = handle[h].ref - 1
    <3>1. handle[h].ref - 1 \in Nat
      BY <1>5, <1>8
    <3> QED BY <1>5, <1>7, <3>1 DEF HandleRecs
  <2>3. handle' = [handle EXCEPT ![h] = r]
    <3>1. handle' = [handle EXCEPT ![h].ref = @ - 1, ![h].state = @]
      BY <1>3, <1>11 DEF HandlePut
    <3>2. handle \in AllHandles /\ h \in DOMAIN handle
      BY TypeParts DEF IInv, AllHandles
    <3> QED BY <3>1, <3>2 DEF AllHandles
  <2>4. Then(t, <<>>)
    BY <1>3, <1>11 DEF HandlePut
  <2> HIDE DEF r
  <2>6. Stacks' /\ Replaced(t, 1, 0) /\ Delta(Arg(t), Idle, Idle, Idle)
    <3> HIDE DEF Idle
    <3> QED BY <1>1, <1>2, <2>4, EndStep
  <2>7. /\ \A x \in Bufs : BPuts(x)' = BPuts(x) /\ BGone(x)' = BGone(x)
        /\ \A c \in Clients : CHeld(c)' = CHeld(c) /\ CGone(c)' = CGone(c)
        /\ \A x \in Handles : HHeld(x)' = HHeld(x) - Bit(x = h) /\ HGone(x)' = HGone(x)
        /\ \A f \in Files : FHeld(f)' = FHeld(f)
    BY <1>1, <1>2, <1>3, <2>6, PendingNat
       DEF Delta, ForBPut, ForBGone, ForClient, ForCGone, ForHandle, ForHGone, ForFile, Bit, Idle
  <2>8. /\ handle' \in AllHandles /\ handle'[h] = r /\ \A x \in Handles \ {h} : handle'[x] = handle[x]
        /\ \A x \in Bufs : OnFiles(x)' = OnFiles(x)
        /\ \A x \in Bufs : OnHandles(x)' = OnHandles(x) - HandleOn(handle[h], x) + HandleOn(r, x)
        /\ \A x \in Handles : HAreas(x)' = HAreas(x) /\ Owner(x)' = Owner(x)
                              /\ handle'[x].client = handle[x].client
        /\ Objects' /\ HandlesKept /\ ClientsKept /\ FilesKept /\ ClientLedger' /\ FileLedger'
    BY <1>1, <1>5, <2>2, <2>3, <2>7, HandleStays
  <2>9. TypeOK'
    BY <1>1, <2>6, <2>8, TypeParts, TypePartsNext DEF IInv, SharesBuffer
  <2>10. BufferLedger'
    BY <1>1, <1>5, <2>2, <2>7, <2>8, LiveLedger
  <2>11. HandleLedger'
    <3> SUFFICES ASSUME NEW x \in Handles PROVE HandleLine(x)'
      BY DEF HandleLedger
    <3>1. HandleLine(x)
      BY DEF IInv, HandleLedger
    <3>2. Uses(x)' = Uses(x)
      BY <1>1, <2>8 DEF Uses
    <3>3. CASE x = h
      <4>1. HHeld(x)' = HHeld(x) - 1 /\ HGone(x)' = 0
        BY <1>5, <2>7, <3>3 DEF Bit
      <4>3. \A p \in Procs : uref'[p][x] # 0 => handle'[x].client # Null /\ Owner(x)' = p
        BY <1>1, <2>8, <3>1 DEF HandleLine
      <4>4. HAreas(x)' = HAreas(x) /\ handle'[x].ref = handle[x].ref - 1 /\ handle'[x].state = "live"
        BY <2>2, <2>8, <3>3
      <4> QED BY <1>8, <3>2, <3>3, <4>1, <4>3, <4>4 DEF HandleLine, Bit
    <3>4. CASE x # h
      <4>1. HHeld(x)' = HHeld(x) /\ HGone(x)' = HGone(x)
        BY <1>9, <2>7, <3>4 DEF Bit
      <4>2. handle'[x] = handle[x]
        BY <2>8, <3>4
      <4> QED BY <1>1, <2>8, <3>1, <3>2, <4>1, <4>2 DEF HandleLine, Bit
    <3> QED BY <3>3, <3>4
  <2>13. Fits' /\ Shape'
    BY <1>1, <2>6, <2>8, StepsEnd
  <2> QED BY <2>8, <2>9, <2>10, <2>11, <2>13 DEF IInv
<1> QED BY <1>10, <1>11
(* The end of ion_handle_destroy: nothing refers to the handle any more.   *)
LEMMA HandleEraseKeeps ==
  ASSUME IInv, NEW t \in Threads, HandleErase(t) PROVE IInv'
<1>1. /\ work[t] # <<>> /\ Arg(t).op = "herase" /\ Then(t, <<>>)
      /\ UNCHANGED <<buffer, client, root, spinning, file, fds, vma>>
  BY DEF HandleErase, At, Arg
<1>2. Stacks /\ Arg(t) \in Steps /\ Arg(t) = work[t][1] /\ 1 \in 1 .. Len(work[t])
  BY <1>1, TopFits
<1>3. PICK h \in Handles : h = Arg(t).h
  BY <1>1, <1>2, StepFields
<1> DEFINE r == [NoHandle EXCEPT !.state = "freed"]
<1>4. /\ handle' = [handle EXCEPT ![h] = r]
      /\ uref' = [p \in Procs |-> [uref[p] EXCEPT ![h] = 0]]
  BY <1>3 DEF HandleErase
<1>5. /\ r \in HandleRecs /\ r.state = "freed" /\ r.ref = 0 /\ r.client = Null /\ r.intree = FALSE
  BY DEF NoHandle, HandleRecs
<1> HIDE DEF r
<1>6. HGone(h) # 0
  BY <1>1, <1>2, <1>3, StepCounts
<1>7. handle[h].state = "dying" /\ HGone(h) = 1 /\ HAreas(h) = 0 /\ HHeld(h) = 0
  BY <1>6 DEF IInv, HandleLedger, HandleLine, Bit
<1>8. Stacks' /\ Replaced(t, 1, 0) /\ Delta(Arg(t), Idle, Idle, Idle)
  BY <1>1, <1>2, EndStep
<1>9. /\ \A x \in Bufs : BPuts(x)' = BPuts(x) /\ BGone(x)' = BGone(x)
      /\ \A c \in Clients : CHeld(c)' = CHeld(c) /\ CGone(c)' = CGone(c)
      /\ \A x \in Handles : HHeld(x)' = HHeld(x) /\ HGone(x)' = HGone(x) - Bit(x = h)
      /\ \A f \in Files : FHeld(f)' = FHeld(f)
  BY <1>1, <1>2, <1>3, <1>8, PendingNat
     DEF Delta, ForBPut, ForBGone, ForClient, ForCGone, ForHandle, ForHGone, ForFile, Bit, Idle
<1>10. handle' \in AllHandles /\ handle'[h] = r /\ \A x \in Handles \ {h} : handle'[x] = handle[x]
  BY <1>4, <1>5, HandleSet, TypeParts DEF IInv
<1>11. /\ uref' \in AllUrefs
       /\ \A p \in Procs : uref'[p][h] = 0 /\ \A x \in Handles \ {h} : uref'[p][x] = uref[p][x]
  <2>1. uref \in AllUrefs
    BY TypeParts DEF IInv
  <2>2. ASSUME NEW p \in Procs
        PROVE  /\ uref'[p] = [uref[p] EXCEPT ![h] = 0] /\ uref'[p] \in [Handles -> Nat]
               /\ uref'[p][h] = 0 /\ \A x \in Handles \ {h} : uref'[p][x] = uref[p][x]
    BY <1>4, <2>1 DEF AllUrefs
  <2> QED BY <1>4, <2>2 DEF AllUrefs
<1>12. TypeOK'
  BY <1>1, <1>8, <1>10, <1>11, TypeParts, TypePartsNext DEF IInv, SharesBuffer
<1>13. \A v \in Vmas : vma[v].handle # h
  <2>1. HandleAreas(h) = {}
    BY <1>7, FiniteCounts
  <2> QED BY <2>1 DEF HandleAreas
<1>14. \A v \in Vmas : vma[v].handle \in Handles \cup {Null}
  BY DEF IInv, TypeOK
<1>15. \A c \in Clients : CFiles(c)' = CFiles(c) /\ CAreas(c)' = CAreas(c)
  <2> TAKE c \in Clients
  <2>1. \A w \in Vmas : AreaOf(w, c)' <=> AreaOf(w, c)
    BY <1>1, <1>10, <1>13, <1>14 DEF AreaOf
  <2> QED BY <1>1, <2>1, AreasStayWithClient, SameFiles
<1>16. BufferLedger'
  <2>1. \A b \in Bufs : OnHandles(b)' = OnHandles(b) /\ OnFiles(b)' = OnFiles(b)
    <3> TAKE b \in Bufs
    <3>1. OnHandles(b)' = OnHandles(b) - HandleOn(handle[h], b) + HandleOn(r, b)
      BY <1>10, HandleChanges
    <3>2. HandleOn(handle[h], b) = 0 /\ HandleOn(r, b) = 0 /\ OnHandles(b) \in Nat
      BY <1>5, <1>7, CountsNat DEF HandleOn, Bit
    <3> QED BY <1>1, <3>1, <3>2, SameFiles
  <2> QED BY <1>1, <1>9, <2>1 DEF IInv, BufferLedger, BufferLine
<1>17. ClientLedger'
  BY <1>1, <1>9, <1>15 DEF IInv, ClientLedger, ClientLine
<1>18. FileLedger'
  <2>1. \A f \in Files : FFds(f)' = FFds(f) /\ FAreas(f)' = FAreas(f)
    BY <1>1, SameFds, SameAreas
  <2> QED BY <1>1, <1>9, <2>1 DEF IInv, FileLedger, FileLine
<1>19. HandleLedger'
  <2> SUFFICES ASSUME NEW x \in Handles PROVE HandleLine(x)'
    BY DEF HandleLedger
  <2>1. HandleLine(x) /\ HAreas(x)' = HAreas(x)
    BY <1>1, SameAreas DEF IInv, HandleLedger
  <2>2. HHeld(x) \in Nat /\ HGone(x) \in Nat
    BY CountsNat
  <2>3. CASE x = h
    <3>1. HHeld(x)' = 0 /\ HGone(x)' = 0 /\ HAreas(x)' = 0
      BY <1>7, <1>9, <2>1, <2>3 DEF Bit
    <3>2. Uses(x)' = 0
      BY <1>5, <1>10, <2>3 DEF Uses
    <3>3. \A p \in Procs : uref'[p][x] = 0
      BY <1>11, <2>3
    <3> QED BY <1>5, <1>10, <2>3, <3>1, <3>2, <3>3 DEF HandleLine, Bit
  <2>4. CASE x # h
    <3>1. handle'[x] = handle[x] /\ Owner(x)' = Owner(x)
      BY <1>1, <1>10, <2>4 DEF Owner
    <3>2. \A p \in Procs : uref'[p][x] = uref[p][x]
      BY <1>11, <2>4
    <3>3. Uses(x)' = Uses(x)
      <4>1. CASE handle[x].client = Null
        BY <3>1, <4>1 DEF Uses
      <4>2. CASE handle[x].client # Null
        <5>1. Owner(x) \in Procs
          BY <4>2, Typed DEF Owner, IInv, Objects, HandleSound, ClientSound
        <5> QED BY <3>1, <3>2, <4>2, <5>1 DEF Uses
      <4> QED BY <4>1, <4>2
    <3>4. HHeld(x)' = HHeld(x) /\ HGone(x)' = HGone(x)
      BY <1>9, <2>2, <2>4 DEF Bit
    <3> QED BY <2>1, <3>1, <3>2, <3>3, <3>4 DEF HandleLine, Bit
  <2> QED BY <2>3, <2>4
<1>20. Objects'
  <2>1. \A x \in Handles : HandleSound(x)'
    <3> TAKE x \in Handles
    <3>1. CASE x = h
      BY <1>5, <1>10, <3>1 DEF HandleSound
    <3>2. CASE x # h
      <4>1. handle'[x] = handle[x] /\ HandleSound(x)
        BY <1>10, <3>2 DEF IInv, Objects
      <4> QED BY <1>1, <4>1 DEF HandleSound
    <3> QED BY <3>1, <3>2
  <2>2. /\ \A c \in Clients : ClientSound(c)'
        /\ \A f \in Files : FileSound(f)'
        /\ \A p \in Procs, f \in Files : FdSound(p, f)'
    BY <1>1 DEF IInv, Objects, ClientSound, FileSound, FdSound
  <2>3. \A v \in Vmas : AreaSound(v)'
    <3> TAKE v \in Vmas
    <3>1. AreaSound(v) /\ vma[v].handle # h
      BY <1>13 DEF IInv, Objects
    <3> QED BY <1>1, <1>10, <3>1 DEF AreaSound, Owner
  <2> QED BY <2>1, <2>2, <2>3 DEF Objects
<1>21. HandlesKept
  <2> SUFFICES ASSUME NEW x \in Handles, HHeld(x)' # 0 \/ HGone(x)' # 0
               PROVE  handle'[x].client = handle[x].client
    BY DEF HandlesKept
  <2>1. x # h
    BY <1>7, <1>9 DEF Bit
  <2> QED BY <1>10, <2>1
<1>22. ClientsKept /\ FilesKept
  BY <1>1 DEF ClientsKept, FilesKept
<1>23. Fits' /\ Shape'
  BY <1>1, <1>8, <1>21, <1>22, StepsEnd
<1> QED BY <1>12, <1>16, <1>17, <1>18, <1>19, <1>20, <1>23 DEF IInv
(* ion_client_put that is not the last, and the last. *)
LEMMA ClientPutKeeps ==
  ASSUME IInv, NEW t \in Threads, ClientPut(t) PROVE IInv'
<1>1. /\ work[t] # <<>> /\ Arg(t).op = "cput"
      /\ UNCHANGED <<buffer, handle, root, spinning, file, fds, vma, uref>>
  BY DEF ClientPut, At, Arg
<1>2. Stacks /\ Arg(t) \in Steps /\ StepFits(t, Arg(t)) /\ Arg(t) = work[t][1] /\ 1 \in 1 .. Len(work[t])
  BY <1>1, TopFits
<1>3. PICK c \in Clients : c = Arg(t).c
  BY <1>1, <1>2, StepFields
<1>4. CHeld(c) # 0
  BY <1>1, <1>2, <1>3, StepCounts
<1>5. client[c].ref > 0 /\ client[c].state = "live" /\ CGone(c) = 0 /\ client[c].ref \in Nat
  BY <1>4, ClientThere, CountsNat
<1>6. client[c].task = Proc[t]
  BY <1>1, <1>2, <1>3 DEF StepFits
<1> DEFINE n == client[c].ref - 1
<1>7. n \in Nat /\ n = client[c].ref - 1 /\ client' = [client EXCEPT ![c].ref = n]
  BY <1>3, <1>5 DEF ClientPut
<1> HIDE DEF n
<1>8. \A x \in Clients : /\ CFiles(x) \in Nat /\ CAreas(x) \in Nat /\ CHeld(x) \in Nat /\ CGone(x) \in Nat
                         /\ ClientLine(x)
  BY CountsNat DEF IInv, ClientLedger
<1>9. CASE client[c].ref = 1
  <2>1. Then(t, <<CDestroy(c)>>)
    BY <1>3, <1>9 DEF ClientPut, CDestroy
  <2>2. CDestroy(c) \in Steps
    BY FormSteps
  <2>3. Stacks' /\ Replaced(t, 1, 1) /\ work'[t][1] = CDestroy(c) /\ Delta(Arg(t), CDestroy(c), Idle, Idle)
    <3> HIDE DEF CDestroy, Idle
    <3> QED BY <1>1, <1>2, <2>1, <2>2, StepTo1
  <2>4. /\ \A x \in Bufs : BPuts(x)' = BPuts(x) /\ BGone(x)' = BGone(x)
        /\ \A x \in Clients : CHeld(x)' = CHeld(x) - Bit(x = c) /\ CGone(x)' = CGone(x) + Bit(x = c)
        /\ \A x \in Handles : HHeld(x)' = HHeld(x) /\ HGone(x)' = HGone(x)
        /\ \A f \in Files : FHeld(f)' = FHeld(f)
    BY <1>1, <1>2, <1>3, <2>3, PendingNat
       DEF Delta, ForBPut, ForBGone, ForClient, ForCGone, ForHandle, ForHGone, ForFile, Bit, Idle, CDestroy
  <2>5. /\ TypeOK' /\ BufferLedger' /\ HandleLedger' /\ FileLedger' /\ Objects'
        /\ HandlesKept /\ ClientsKept /\ FilesKept
        /\ \A x \in Clients : CFiles(x)' = CFiles(x) /\ CAreas(x)' = CAreas(x)
        /\ client'[c].ref = n /\ client'[c].state = client[c].state /\ client'[c].task = client[c].task
        /\ \A x \in Clients \ {c} : client'[x] = client[x]
    BY <1>1, <1>7, <2>3, <2>4, OnlyClientRefChanges
  <2>6. ClientLedger'
    <3> SUFFICES ASSUME NEW x \in Clients PROVE ClientLine(x)'
      BY DEF ClientLedger
    <3>1. CASE x = c
      <4>1. CHeld(x)' = CHeld(x) - 1 /\ CGone(x)' = CGone(x) + 1
        BY <2>4, <3>1 DEF Bit
      <4>2. client'[x].ref = 0 /\ client'[x].state = "live"
        BY <1>5, <1>7, <1>9, <2>5, <3>1
      <4> QED BY <1>5, <1>8, <1>9, <2>5, <3>1, <4>1, <4>2 DEF ClientLine, Bit
    <3>2. CASE x # c
      <4>1. CHeld(x)' = CHeld(x) /\ CGone(x)' = CGone(x)
        BY <1>8, <2>4, <3>2 DEF Bit
      <4> QED BY <1>8, <2>5, <3>2, <4>1 DEF ClientLine
    <3> QED BY <3>1, <3>2
  <2>7. StepFits(t, CDestroy(c))'
    <3>1. client'[c].state = "live" /\ client'[c].task = Proc[t]
      BY <1>5, <1>6, <2>5
    <3> QED BY <3>1 DEF StepFits, CDestroy
  <2>8. Fits' /\ Shape'
    <3>1. CDestroy(c).op = "cdestroy" /\ "cdestroy" \notin Single /\ "cput" \notin Putting
      BY DEF CDestroy, Single, Putting
    <3> HIDE DEF CDestroy, Idle
    <3> QED BY <1>1, <2>2, <2>3, <2>5, <2>7, <3>1, Step1Comes
  <2> QED BY <2>5, <2>6, <2>8 DEF IInv
<1>10. CASE client[c].ref # 1
  <2>1. Then(t, <<>>)
    BY <1>3, <1>10 DEF ClientPut
  <2>2. Stacks' /\ Replaced(t, 1, 0) /\ Delta(Arg(t), Idle, Idle, Idle)
    <3> HIDE DEF Idle
    <3> QED BY <1>1, <1>2, <2>1, EndStep
  <2>3. /\ \A x \in Bufs : BPuts(x)' = BPuts(x) /\ BGone(x)' = BGone(x)
        /\ \A x \in Clients : CHeld(x)' = CHeld(x) - Bit(x = c) /\ CGone(x)' = CGone(x)
        /\ \A x \in Handles : HHeld(x)' = HHeld(x) /\ HGone(x)' = HGone(x)
        /\ \A f \in Files : FHeld(f)' = FHeld(f)
    BY <1>1, <1>2, <1>3, <2>2, PendingNat
       DEF Delta, ForBPut, ForBGone, ForClient, ForCGone, ForHandle, ForHGone, ForFile, Bit, Idle
  <2>4. /\ TypeOK' /\ BufferLedger' /\ HandleLedger' /\ FileLedger' /\ Objects'
        /\ HandlesKept /\ ClientsKept /\ FilesKept
        /\ \A x \in Clients : CFiles(x)' = CFiles(x) /\ CAreas(x)' = CAreas(x)
        /\ client'[c].ref = n /\ client'[c].state = client[c].state /\ client'[c].task = client[c].task
        /\ \A x \in Clients \ {c} : client'[x] = client[x]
    BY <1>1, <1>7, <2>2, <2>3, OnlyClientRefChanges
  <2>5. ClientLedger'
    <3> SUFFICES ASSUME NEW x \in Clients PROVE ClientLine(x)'
      BY DEF ClientLedger
    <3>1. CASE x = c
      <4>1. CHeld(x)' = CHeld(x) - 1 /\ CGone(x)' = 0
        BY <1>5, <2>3, <3>1 DEF Bit
      <4>2. client'[x].ref = client[x].ref - 1 /\ client'[x].ref # 0 /\ client'[x].state = "live"
        BY <1>5, <1>7, <1>10, <2>4, <3>1
      <4> QED BY <1>5, <1>8, <2>4, <3>1, <4>1, <4>2 DEF ClientLine, Bit
    <3>2. CASE x # c
      <4>1. CHeld(x)' = CHeld(x) /\ CGone(x)' = CGone(x)
        BY <1>8, <2>3, <3>2 DEF Bit
      <4> QED BY <1>8, <2>4, <3>2, <4>1 DEF ClientLine
    <3> QED BY <3>1, <3>2
  <2>6. Fits' /\ Shape'
    BY <1>1, <2>2, <2>4, StepsEnd
  <2> QED BY <2>4, <2>5, <2>6 DEF IInv
<1> QED BY <1>9, <1>10
(* The end of _ion_client_destroy: no handle, file, area or step refers to *)
(* the client any more.                                                    *)
LEMMA ClientEraseKeeps ==
  ASSUME IInv, NEW t \in Threads, ClientErase(t) PROVE IInv'
<1>1. /\ work[t] # <<>> /\ Arg(t).op = "cdestroy" /\ Then(t, <<>>)
      /\ UNCHANGED <<buffer, handle, spinning, file, fds, vma, uref>>
  BY DEF ClientErase, At, Arg
<1>2. Stacks /\ Arg(t) \in Steps /\ Arg(t) = work[t][1] /\ 1 \in 1 .. Len(work[t])
  BY <1>1, TopFits
<1>3. PICK c \in Clients : c = Arg(t).c
  BY <1>1, <1>2, StepFields
<1> DEFINE r == [NoClient EXCEPT !.state = "freed"]
<1>4. client' = [client EXCEPT ![c] = r] /\ Tree(c) = {} /\ c # Null
  BY <1>3 DEF ClientErase, Clients, Null
<1>5. r \in ClientRecs /\ r.state = "freed" /\ r.ref = 0 /\ r.intree = FALSE
  BY DEF NoClient, ClientRecs
<1> HIDE DEF r
<1>6. root' \in Clients \cup {Null}
  <2>1. root \in Clients \cup {Null} /\ UserClients \subseteq Clients
    BY DEF IInv, TypeOK, UserClients
  <2>2. root' \in IF UserClients \ {c} = {} THEN {Null}
                  ELSE IF root = c THEN UserClients \ {c} ELSE {root}
    BY <1>3 DEF ClientErase
  <2> QED BY <2>1, <2>2
<1>7. CGone(c) # 0
  BY <1>1, <1>2, <1>3, StepCounts
<1>8. \A x \in Clients : /\ CFiles(x) \in Nat /\ CAreas(x) \in Nat /\ CHeld(x) \in Nat /\ CGone(x) \in Nat
                         /\ client[x].ref \in Nat /\ ClientLine(x)
  BY CountsNat DEF IInv, ClientLedger
<1>9. /\ client[c].state = "live" /\ client[c].ref = 0 /\ CGone(c) = 1
      /\ CFiles(c) = 0 /\ CAreas(c) = 0 /\ CHeld(c) = 0
  BY <1>7, <1>8 DEF ClientLine, Bit
<1>10. Stacks' /\ Replaced(t, 1, 0) /\ Delta(Arg(t), Idle, Idle, Idle)
  BY <1>1, <1>2, EndStep
<1>11. /\ \A x \in Bufs : BPuts(x)' = BPuts(x) /\ BGone(x)' = BGone(x)
       /\ \A x \in Clients : CHeld(x)' = CHeld(x) /\ CGone(x)' = CGone(x) - Bit(x = c)
       /\ \A x \in Handles : HHeld(x)' = HHeld(x) /\ HGone(x)' = HGone(x)
       /\ \A f \in Files : FHeld(f)' = FHeld(f)
  BY <1>1, <1>2, <1>3, <1>10, PendingNat
     DEF Delta, ForBPut, ForBGone, ForClient, ForCGone, ForHandle, ForHGone, ForFile, Bit, Idle
<1>12. client' \in AllClients /\ client'[c] = r /\ \A x \in Clients \ {c} : client'[x] = client[x]
  BY <1>4, <1>5, ClientSet, TypeParts DEF IInv
<1>13. TypeOK'
  BY <1>1, <1>6, <1>10, <1>12, TypeParts, TypePartsNext DEF IInv, SharesBuffer
<1>14. NoneOf(c)
  <2>1. ASSUME NEW h \in Handles PROVE handle[h].client # c
    BY <1>4 DEF Tree, IInv, Objects, HandleSound
  <2>2. ASSUME NEW f \in Files, file[f].kind = "dev" PROVE file[f].obj # c
    <3>1. file[f].state = "live"
      BY <2>2 DEF IInv, Objects, FileSound
    <3>2. ClientFiles(c) = {}
      BY <1>9, FiniteCounts
    <3> QED BY <2>2, <3>1, <3>2 DEF ClientFiles
  <2> QED BY <2>1, <2>2 DEF NoneOf
<1>15. \A h \in Handles : handle[h].client # Null =>
         Owner(h)' = Owner(h) /\ client'[handle[h].client] = client[handle[h].client]
  <2> TAKE h \in Handles
  <2>1. handle[h].client \in Clients \cup {Null} /\ handle[h].client # c
    BY <1>14, Typed DEF NoneOf, IInv
  <2> QED BY <1>1, <1>12, <2>1 DEF Owner
<1>16. BufferLedger'
  <2>1. \A b \in Bufs : OnHandles(b)' = OnHandles(b) /\ OnFiles(b)' = OnFiles(b)
    BY <1>1, SameHandles, SameFiles
  <2> QED BY <1>1, <1>11, <2>1 DEF IInv, BufferLedger, BufferLine
<1>17. ClientLedger'
  <2> SUFFICES ASSUME NEW x \in Clients PROVE ClientLine(x)'
    BY DEF ClientLedger
  <2>1. CFiles(x)' = CFiles(x) /\ CAreas(x)' = CAreas(x) /\ CHeld(x)' = CHeld(x)
    BY <1>1, <1>11, SameFiles, SameAreas
  <2>2. CASE x = c
    <3>1. CGone(x)' = 0
      BY <1>9, <1>11, <2>2 DEF Bit
    <3> QED BY <1>5, <1>9, <1>12, <2>1, <2>2, <3>1 DEF ClientLine, Bit
  <2>3. CASE x # c
    <3>1. CGone(x)' = CGone(x)
      BY <1>8, <1>11, <2>3 DEF Bit
    <3> QED BY <1>8, <1>12, <2>1, <2>3, <3>1 DEF ClientLine
  <2> QED BY <2>2, <2>3
<1>18. HandleLedger'
  <2> SUFFICES ASSUME NEW x \in Handles PROVE HandleLine(x)'
    BY DEF HandleLedger
  <2>1. HandleLine(x) /\ HAreas(x)' = HAreas(x)
    BY <1>1, SameAreas DEF IInv, HandleLedger
  <2>2. Uses(x)' = Uses(x)
    BY <1>1, <1>15 DEF Uses
  <2> QED BY <1>1, <1>11, <1>15, <2>1, <2>2 DEF HandleLine
<1>19. FileLedger'
  <2>1. \A f \in Files : FFds(f)' = FFds(f) /\ FAreas(f)' = FAreas(f)
    BY <1>1, SameFds, SameAreas
  <2> QED BY <1>1, <1>11, <2>1 DEF IInv, FileLedger, FileLine
<1>20. Objects'
  <2>1. \A x \in Handles : HandleSound(x)'
    BY <1>1, <1>15 DEF IInv, Objects, HandleSound
  <2>2. \A x \in Clients : ClientSound(x)'
    <3> TAKE x \in Clients
    <3>1. CASE x = c
      BY <1>5, <1>12, <3>1 DEF ClientSound
    <3>2. CASE x # c
      BY <1>12, <3>2 DEF IInv, Objects, ClientSound
    <3> QED BY <3>1, <3>2
  <2>3. \A f \in Files : FileSound(f)'
    BY <1>1 DEF IInv, Objects, FileSound
  <2>4. \A p \in Procs, f \in Files : FdSound(p, f)'
    <3> SUFFICES ASSUME NEW p \in Procs, NEW f \in Files, f \in fds[p], file[f].kind = "dev"
                 PROVE  file[f].obj # Null /\ client'[file[f].obj].task = p
      BY <1>1 DEF FdSound
    <3>1. file[f].obj # Null /\ client[file[f].obj].task = p /\ file[f].obj \in Clients \cup {Null}
      BY DEF IInv, Objects, FdSound, FileSound
    <3>2. file[f].obj # c
      BY <1>14 DEF NoneOf
    <3> QED BY <1>12, <3>1, <3>2
  <2>5. \A v \in Vmas : AreaSound(v)'
    <3> SUFFICES ASSUME NEW v \in Vmas, vma[v] # NoVma PROVE AreaSound(v)'
      BY <1>1 DEF AreaSound
    <3>1. AreaSound(v) /\ vma[v].handle \in Handles /\ handle[vma[v].handle].client # Null
      BY AreaThere DEF IInv, Objects
    <3> QED BY <1>1, <1>15, <3>1 DEF AreaSound
  <2> QED BY <2>1, <2>2, <2>3, <2>4, <2>5 DEF Objects
<1>21. HandlesKept /\ FilesKept
  BY <1>1 DEF HandlesKept, FilesKept
<1>22. ClientsKept
  <2> SUFFICES ASSUME NEW x \in Clients, client[x].state = "live"
               PROVE  \/ client'[x].state = "live" /\ client'[x].task = client[x].task
                      \/ NoneOf(x) /\ CHeld(x)' = 0 /\ CGone(x)' = 0
    BY DEF ClientsKept
  <2>1. CASE x = c
    BY <1>9, <1>11, <1>14, <2>1 DEF Bit
  <2>2. CASE x # c
    BY <1>12, <2>2
  <2> QED BY <2>1, <2>2
<1>23. Fits' /\ Shape'
  BY <1>1, <1>10, <1>21, <1>22, StepsEnd
<1> QED BY <1>13, <1>16, <1>17, <1>18, <1>19, <1>20, <1>23 DEF IInv
-----------------------------------------------------------------------------
(* A process of one thread: what its thread does excludes what else its    *)
(* client, or a handle of it, could be in the middle of.                   *)
OneThreadEach == \A t, u \in Threads : Proc[t] = Proc[u] => t = u

(* Whose thread a step on a handle, or the end of a client, is in. *)
LEMMA StepOwner ==
  ASSUME IInv
  PROVE  /\ \A h \in Handles : HHeld(h) # 0 =>
              \E u \in Threads : \E i \in 1 .. Len(work[u]) :
                work[u][i].op \in {"hput", "free", "mmapMap"} /\ Owner(h) = Proc[u]
         /\ \A h \in Handles : HGone(h) # 0 =>
              \E u \in Threads : \E i \in 1 .. Len(work[u]) :
                work[u][i].op = "herase" /\ Owner(h) = Proc[u]
         /\ \A c \in Clients : CGone(c) # 0 =>
              \E u \in Threads : \E i \in 1 .. Len(work[u]) :
                work[u][i].op = "cdestroy" /\ client[c].task = Proc[u]
<1>1. Stacks
  BY Typed DEF IInv
<1>2. ASSUME NEW u \in Threads, NEW i \in 1 .. Len(work[u]), NEW s, s = work[u][i]
      PROVE  s \in Steps /\ StepFits(u, s)
  BY <1>1, <1>2, StepCounts DEF IInv, Fits
<1>3. ASSUME NEW h \in Handles, HHeld(h) # 0
      PROVE  \E u \in Threads : \E i \in 1 .. Len(work[u]) :
               work[u][i].op \in {"hput", "free", "mmapMap"} /\ Owner(h) = Proc[u]
  <2>1. PICK u \in Threads : \E i \in 1 .. Len(work[u]) : work[u][i] \in HandleSteps(h)
    BY <1>1, <1>3, PendingFacts DEF HHeld
  <2>2. PICK i \in 1 .. Len(work[u]) : work[u][i] \in HandleSteps(h)
    BY <2>1
  <2>3. PICK s : s = work[u][i]
    OBVIOUS
  <2>4. StepFits(u, s) /\ s \in HandleSteps(h)
    BY <1>2, <2>2, <2>3
  <2>5. s.op \in {"hput", "free", "mmapMap"} /\ s.h = h
    BY <2>4 DEF HandleSteps, HPut
  <2> QED BY <2>3, <2>4, <2>5 DEF StepFits
<1>4. ASSUME NEW h \in Handles, HGone(h) # 0
      PROVE  \E u \in Threads : \E i \in 1 .. Len(work[u]) :
               work[u][i].op = "herase" /\ Owner(h) = Proc[u]
  <2>1. PICK u \in Threads : \E i \in 1 .. Len(work[u]) : work[u][i] \in {HErase(h)}
    BY <1>1, <1>4, PendingFacts DEF HGone
  <2>2. PICK i \in 1 .. Len(work[u]) : work[u][i] \in {HErase(h)}
    BY <2>1
  <2>3. PICK s : s = work[u][i]
    OBVIOUS
  <2>4. StepFits(u, s) /\ s.op = "herase" /\ s.h = h
    BY <1>2, <2>2, <2>3 DEF HErase
  <2> QED BY <2>3, <2>4 DEF StepFits
<1>5. ASSUME NEW c \in Clients, CGone(c) # 0
      PROVE  \E u \in Threads : \E i \in 1 .. Len(work[u]) :
               work[u][i].op = "cdestroy" /\ client[c].task = Proc[u]
  <2>1. PICK u \in Threads : \E i \in 1 .. Len(work[u]) : work[u][i] \in {CDestroy(c)}
    BY <1>1, <1>5, PendingFacts DEF CGone
  <2>2. PICK i \in 1 .. Len(work[u]) : work[u][i] \in {CDestroy(c)}
    BY <2>1
  <2>3. PICK s : s = work[u][i]
    OBVIOUS
  <2>4. StepFits(u, s) /\ s.op = "cdestroy" /\ s.c = c
    BY <1>2, <2>2, <2>3 DEF CDestroy
  <2> QED BY <2>3, <2>4 DEF StepFits
<1> QED BY <1>3, <1>4, <1>5

(* Below the step on top there are only steps that wait, and the second    *)
(* half of ion_handle_destroy.                                             *)
LEMMA UnderTop ==
  ASSUME IInv, NEW t \in Threads, NEW i \in 1 .. Len(work[t]), ~Waits(work[t][i])
  PROVE  i = 1 \/ (i = 2 /\ work[t][i].op = "herase" /\ work[t][1].op \in {"bput", "bdestroy"})
<1>1. Len(work[t]) \in Nat
  BY StackOf, Typed DEF IInv, Stacks
<1>2. CASE i # 1
  <2>1. i \in 2 .. Len(work[t])
    BY <1>1, <1>2
  <2> QED BY <2>1 DEF IInv, Shape, Below2
<1> QED BY <1>2

(* While a process of one thread destroys its client, nothing else is done *)
(* with a handle of the client.                                            *)
LEMMA DestroyedAlone ==
  ASSUME IInv, OneThreadEach, NEW t \in Threads, work[t] # <<>>, Arg(t).op = "cdestroy",
         NEW h \in Handles, handle[h].client # Null, handle[h].client = Arg(t).c
  PROVE  HHeld(h) = 0 /\ HGone(h) = 0 /\ handle[h].state = "live" /\ HAreas(h) = 0
<1>1. Stacks /\ Arg(t) \in Steps /\ StepFits(t, Arg(t)) /\ Arg(t) = work[t][1] /\ 1 \in 1 .. Len(work[t])
  BY TopFits
<1>2. PICK c \in Clients : c = Arg(t).c
  BY <1>1, StepFields
<1>3. Owner(h) = Proc[t] /\ work[t][1].op = "cdestroy"
  BY <1>1, <1>2 DEF StepFits, Owner
<1>4. HHeld(h) = 0
  <2>1. SUFFICES ASSUME HHeld(h) # 0 PROVE FALSE
    OBVIOUS
  <2>2. PICK u \in Threads : \E i \in 1 .. Len(work[u]) :
          work[u][i].op \in {"hput", "free", "mmapMap"} /\ Owner(h) = Proc[u]
    BY <2>1, StepOwner
  <2>3. PICK i \in 1 .. Len(work[u]) : work[u][i].op \in {"hput", "free", "mmapMap"} /\ Owner(h) = Proc[u]
    BY <2>2
  <2>4. u = t
    BY <1>3, <2>3 DEF OneThreadEach
  <2>5. ~Waits(work[t][i])
    BY <2>3, <2>4 DEF Waits
  <2> QED BY <1>3, <2>3, <2>4, <2>5, UnderTop
<1>5. HGone(h) = 0
  <2>1. SUFFICES ASSUME HGone(h) # 0 PROVE FALSE
    OBVIOUS
  <2>2. PICK u \in Threads : \E i \in 1 .. Len(work[u]) : work[u][i].op = "herase" /\ Owner(h) = Proc[u]
    BY <2>1, StepOwner
  <2>3. PICK i \in 1 .. Len(work[u]) : work[u][i].op = "herase" /\ Owner(h) = Proc[u]
    BY <2>2
  <2>4. u = t
    BY <1>3, <2>3 DEF OneThreadEach
  <2>5. ~Waits(work[t][i])
    BY <2>3, <2>4 DEF Waits
  <2> QED BY <1>3, <2>3, <2>4, <2>5, UnderTop
<1>6. handle[h].state = "live"
  BY <1>5, Typed DEF IInv, HandleLedger, HandleLine, Objects, HandleSound, Bit
<1>7. HAreas(h) = 0
  <2>1. CGone(c) # 0
    BY <1>1, <1>2, StepCounts
  <2>2. CAreas(c) = 0
    BY <2>1, CountsNat DEF IInv, ClientLedger, ClientLine, Bit
  <2>3. ClientAreas(c) = {}
    BY <2>2, FiniteCounts
  <2>4. h # Null
    BY DEF Handles, Null
  <2>5. HandleAreas(h) = {}
    BY <1>2, <2>3, <2>4 DEF ClientAreas, HandleAreas
  <2> QED BY <2>5, FiniteCounts
<1> QED BY <1>4, <1>5, <1>6, <1>7

(* The steps of ion_handle_destroy and the next turn of the loop. *)
LEMMA TwoAndOne ==
  ASSUME NEW x \in Steps, NEW y \in Steps, NEW z \in Steps
  PROVE  <<x, y>> \o <<z>> = <<x, y, z>>
<1> HIDE DEF Steps
<1> DEFINE u == <<x, y>> \o <<z>>
           v == <<x, y, z>>
<1>1. v \in Seq(Steps) /\ Len(v) = 3 /\ v[1] = x /\ v[2] = y /\ v[3] = z
  OBVIOUS
<1>2. <<z>> \in Seq(Steps) /\ Len(<<z>>) = 1 /\ <<z>>[1] = z
  OBVIOUS
<1>3. /\ u \in Seq(Steps) /\ Len(u) = 1 + 2 /\ u[1] = x /\ u[2] = y
      /\ \A i \in 1 .. 1 : u[i + 2] = <<z>>[i]
  BY <1>2, Prefix2
<1> HIDE DEF u, v
<1>4. u[3] = z
  <2>1. 1 \in 1 .. 1 /\ 1 + 2 = 3
    OBVIOUS
  <2> QED BY <1>2, <1>3, <2>1
<1>5. \A i \in 1 .. Len(u) : u[i] = v[i]
  <2> TAKE i \in 1 .. Len(u)
  <2>1. i = 1 \/ i = 2 \/ i = 3
    BY <1>3
  <2> QED BY <1>1, <1>3, <1>4, <2>1
<1>6. u = v
  BY <1>1, <1>3, <1>5, SeqEqual
<1> QED BY <1>6 DEF u, v

(* One turn of the loop of _ion_client_destroy. *)
LEMMA ClientDestroyHandleKeeps ==
  ASSUME IInv, OneThreadEach, NEW t \in Threads, ClientDestroyHandle(t) PROVE IInv'
<1>1. /\ work[t] # <<>> /\ Arg(t).op = "cdestroy"
      /\ UNCHANGED <<buffer, client, root, spinning, file, fds, vma, uref>>
  BY DEF ClientDestroyHandle, At, Arg
<1>2. Stacks /\ Arg(t) \in Steps /\ StepFits(t, Arg(t)) /\ Arg(t) = work[t][1] /\ 1 \in 1 .. Len(work[t])
  BY <1>1, TopFits
<1>3. PICK c \in Clients : c = Arg(t).c
  BY <1>1, <1>2, StepFields
<1>4. PICK h \in Tree(c) : /\ handle' = [handle EXCEPT ![h].state = "dying"]
                           /\ Then(t, DestroySteps(h) \o <<CDestroy(c)>>)
  BY <1>3 DEF ClientDestroyHandle, CDestroy
<1>5. h \in Handles /\ handle[h].client = c /\ c # Null /\ handle[h].buf \in Bufs
  <2>1. h \in Handles /\ handle[h].client = c /\ c # Null
    BY <1>4 DEF Tree, Clients, Null
  <2> QED BY <2>1 DEF IInv, Objects, HandleSound
<1>6. HHeld(h) = 0 /\ HGone(h) = 0 /\ handle[h].state = "live" /\ HAreas(h) = 0
  BY <1>1, <1>3, <1>5, DestroyedAlone
<1>7. client[c].state = "live" /\ client[c].task = Proc[t] /\ Owner(h) = Proc[t]
  BY <1>1, <1>2, <1>3, <1>5 DEF StepFits, Owner
<1>8. PICK b \in Bufs : b = handle[h].buf
  BY <1>5
<1> DEFINE r == [handle[h] EXCEPT !.state = "dying"]
<1>9. /\ r \in HandleRecs /\ r.client = handle[h].client /\ r.buf = handle[h].buf
      /\ r.intree = handle[h].intree /\ r.state = "dying" /\ r.ref = handle[h].ref
  <2>1. handle[h] \in HandleRecs
    BY <1>5, TypeParts DEF IInv, AllHandles
  <2> QED BY <2>1 DEF HandleRecs
<1>10. handle' = [handle EXCEPT ![h] = r]
  BY <1>4
<1> HIDE DEF r
<1>11. BPut(b) \in Steps /\ HErase(h) \in Steps /\ CDestroy(c) \in Steps
  BY <1>5, FormSteps
<1>12. Then(t, <<BPut(b), HErase(h), CDestroy(c)>>)
  <2>1. DestroySteps(h) \o <<CDestroy(c)>> = <<BPut(b), HErase(h), CDestroy(c)>>
    <3> HIDE DEF BPut, HErase, CDestroy
    <3>1. DestroySteps(h) = <<BPut(b), HErase(h)>>
      BY <1>8 DEF DestroySteps, HErase
    <3> QED BY <3>1, <1>11, TwoAndOne
  <2> QED BY <1>4, <2>1
<1>13. /\ Stacks' /\ Replaced(t, 1, 3)
       /\ work'[t][1] = BPut(b) /\ work'[t][2] = HErase(h) /\ work'[t][3] = CDestroy(c)
       /\ Delta(Arg(t), BPut(b), HErase(h), CDestroy(c))
  <2> HIDE DEF BPut, HErase, CDestroy
  <2> QED BY <1>1, <1>2, <1>11, <1>12, StepTo3
<1>14. /\ \A x \in Bufs : BPuts(x)' = BPuts(x) + Bit(x = b) /\ BGone(x)' = BGone(x)
       /\ \A x \in Clients : CHeld(x)' = CHeld(x) /\ CGone(x)' = CGone(x)
       /\ \A x \in Handles : HHeld(x)' = HHeld(x) /\ HGone(x)' = HGone(x) + Bit(x = h)
       /\ \A f \in Files : FHeld(f)' = FHeld(f)
  <2>1. \A x \in Bufs : BPuts(x)' = BPuts(x) + Bit(x = b) /\ BGone(x)' = BGone(x)
    BY <1>1, <1>2, <1>13, PendingNat DEF Delta, ForBPut, ForBGone, Bit, BPut, HErase, CDestroy
  <2>2. \A x \in Clients : CHeld(x)' = CHeld(x)
    BY <1>1, <1>2, <1>13, PendingNat DEF Delta, ForClient, Bit, BPut, HErase, CDestroy
  <2>3. \A x \in Clients : CGone(x)' = CGone(x)
    <3> TAKE x \in Clients
    <3>1. CGone(x)' = CGone(x) - ForCGone(Arg(t), x) + ForCGone(BPut(b), x) + ForCGone(HErase(h), x)
                      + ForCGone(CDestroy(c), x)
      BY <1>13 DEF Delta
    <3>2. /\ ForCGone(Arg(t), x) = Bit(x = c) /\ ForCGone(BPut(b), x) = 0
          /\ ForCGone(HErase(h), x) = 0 /\ ForCGone(CDestroy(c), x) = Bit(x = c)
      BY <1>1, <1>3 DEF ForCGone, Bit, BPut, HErase, CDestroy
    <3>3. CGone(x) \in Nat /\ Bit(x = c) \in Nat
      BY <1>2, PendingNat DEF Bit
    <3> QED BY <3>1, <3>2, <3>3
  <2>4. \A x \in Handles : HHeld(x)' = HHeld(x) /\ HGone(x)' = HGone(x) + Bit(x = h)
    BY <1>1, <1>2, <1>13, PendingNat DEF Delta, ForHandle, ForHGone, Bit, BPut, HErase, CDestroy
  <2>5. \A f \in Files : FHeld(f)' = FHeld(f)
    BY <1>1, <1>2, <1>13, PendingNat DEF Delta, ForFile, Bit, BPut, HErase, CDestroy
  <2> QED BY <2>1, <2>2, <2>3, <2>4, <2>5
<1>15. /\ handle' \in AllHandles /\ handle'[h] = r /\ \A x \in Handles \ {h} : handle'[x] = handle[x]
       /\ \A x \in Bufs : OnFiles(x)' = OnFiles(x)
       /\ \A x \in Bufs : OnHandles(x)' = OnHandles(x) - HandleOn(handle[h], x) + HandleOn(r, x)
       /\ \A x \in Handles : HAreas(x)' = HAreas(x) /\ Owner(x)' = Owner(x)
                             /\ handle'[x].client = handle[x].client
       /\ Objects' /\ HandlesKept /\ ClientsKept /\ FilesKept /\ ClientLedger' /\ FileLedger'
  BY <1>1, <1>5, <1>6, <1>9, <1>10, <1>14, HandleStays
<1>16. TypeOK'
  BY <1>1, <1>13, <1>15, TypeParts, TypePartsNext DEF IInv, SharesBuffer
<1>17. BufferLedger'
  BY <1>1, <1>5, <1>6, <1>8, <1>9, <1>14, <1>15, DyingLedger
<1>18. HandleLedger'
  <2> SUFFICES ASSUME NEW x \in Handles PROVE HandleLine(x)'
    BY DEF HandleLedger
  <2>1. HandleLine(x) /\ HGone(x) \in Nat
    BY CountsNat DEF IInv, HandleLedger
  <2>2. Uses(x)' = Uses(x)
    BY <1>1, <1>15 DEF Uses
  <2>3. \A p \in Procs : uref'[p][x] # 0 => handle'[x].client # Null /\ Owner(x)' = p
    BY <1>1, <1>15, <2>1 DEF HandleLine
  <2>4. CASE x = h
    <3>1. HHeld(x)' = 0 /\ HGone(x)' = 1 /\ HAreas(x)' = 0
      BY <1>6, <1>14, <1>15, <2>4 DEF Bit
    <3>2. handle'[x].ref = handle[x].ref /\ handle'[x].state = "dying"
      BY <1>9, <1>15, <2>4
    <3> QED BY <1>6, <2>1, <2>2, <2>3, <2>4, <3>1, <3>2 DEF HandleLine, Bit
  <2>5. CASE x # h
    <3>1. HGone(x)' = HGone(x)
      BY <1>14, <2>1, <2>5 DEF Bit
    <3>2. handle'[x] = handle[x]
      BY <1>15, <2>5
    <3> QED BY <1>14, <1>15, <2>1, <2>2, <2>3, <3>1, <3>2 DEF HandleLine
  <2> QED BY <2>4, <2>5
<1>19. StepFits(t, BPut(b))' /\ StepFits(t, HErase(h))' /\ StepFits(t, CDestroy(c))'
  <2>1. StepFits(t, BPut(b))'
    BY DEF StepFits, BPut
  <2>2. StepFits(t, HErase(h))'
    <3>1. handle'[h].client # Null /\ Owner(h)' = Proc[t]
      BY <1>5, <1>7, <1>15
    <3> QED BY <3>1 DEF StepFits, HErase
  <2>3. StepFits(t, CDestroy(c))'
    BY <1>1, <1>7 DEF StepFits, CDestroy
  <2> QED BY <2>1, <2>2, <2>3
<1>20. Fits' /\ Shape'
  <2>1. /\ BPut(b).op = "bput" /\ HErase(h).op = "herase" /\ "bput" \in Putting
        /\ "bput" \notin Single /\ "cdestroy" \notin Putting /\ Waits(CDestroy(c))
    BY DEF BPut, HErase, CDestroy, Single, Putting, Waits
  <2> HIDE DEF BPut, HErase, CDestroy
  <2> QED BY <1>1, <1>11, <1>13, <1>15, <1>19, <2>1, Step3Comes
<1> QED BY <1>15, <1>16, <1>17, <1>18, <1>20 DEF IInv
-----------------------------------------------------------------------------
(* Files change, and clients only in their counts and in being in the      *)
(* driver's tree.                                                          *)
LEMMA FilesChange ==
  ASSUME IInv, UNCHANGED <<handle, vma, uref>>,
         \A c \in Clients : /\ client'[c].state = client[c].state /\ client'[c].task = client[c].task
                            /\ client'[c].intree => client[c].state = "live",
         \A f \in Files : FileSound(f)',
         \A p \in Procs, f \in Files : FdSound(p, f)',
         \A v \in Vmas : vma[v] # NoVma => file'[vma[v].file].kind = "share",
         \A h \in Handles : HHeld(h)' = HHeld(h) /\ HGone(h)' = HGone(h)
  PROVE  /\ HandleLedger' /\ Objects' /\ HandlesKept /\ ClientsKept
         /\ \A b \in Bufs : OnHandles(b)' = OnHandles(b)
         /\ \A c \in Clients : CAreas(c)' = CAreas(c)
         /\ \A f \in Files : FAreas(f)' = FAreas(f)
<1>1. \A h \in Handles : Uses(h)' = Uses(h) /\ (handle[h].client # Null => Owner(h)' = Owner(h))
  BY SameUses DEF IInv
<1>2. HandleLedger'
  <2> SUFFICES ASSUME NEW h \in Handles PROVE HandleLine(h)'
    BY DEF HandleLedger
  <2>1. HandleLine(h) /\ HAreas(h)' = HAreas(h)
    BY SameAreas DEF IInv, HandleLedger
  <2> QED BY <1>1, <2>1 DEF HandleLine
<1>3. \A h \in Handles : HandleSound(h)'
  <2> TAKE h \in Handles
  <2>1. HandleSound(h) /\ handle[h].client \in Clients \cup {Null}
    BY Typed DEF IInv, Objects
  <2> QED BY <2>1 DEF HandleSound
<1>4. \A c \in Clients : ClientSound(c)'
  BY DEF IInv, Objects, ClientSound
<1>5. \A v \in Vmas : AreaSound(v)'
  <2> SUFFICES ASSUME NEW v \in Vmas, vma[v] # NoVma PROVE AreaSound(v)'
    BY DEF AreaSound
  <2>1. AreaSound(v) /\ vma[v].handle \in Handles /\ handle[vma[v].handle].client # Null
    BY AreaThere DEF IInv, Objects
  <2> QED BY <1>1, <2>1 DEF AreaSound
<1>6. Objects'
  BY <1>3, <1>4, <1>5 DEF Objects
<1>7. HandlesKept /\ ClientsKept
  BY DEF HandlesKept, ClientsKept
<1>8. /\ \A b \in Bufs : OnHandles(b)' = OnHandles(b)
      /\ \A c \in Clients : CAreas(c)' = CAreas(c)
      /\ \A f \in Files : FAreas(f)' = FAreas(f)
  BY SameHandles, SameAreas
<1> QED BY <1>2, <1>6, <1>7, <1>8

(* One file changes. *)
LEMMA OneFile ==
  ASSUME IInv, NEW f \in Files, NEW r \in FileRecs, file' = [file EXCEPT ![f] = r],
         r.kind = "share" => r.obj \in Bufs
  PROVE  /\ file' \in AllFiles /\ \A g \in Files : SharesBuffer(g)'
         /\ file'[f] = r /\ \A g \in Files \ {f} : file'[g] = file[g]
         /\ \A b \in Bufs : OnFiles(b)' = OnFiles(b) - FileOn(file[f], b) + FileOn(r, b)
         /\ \A c \in Clients : CFiles(c)' = CFiles(c) - FileOf(file[f], c) + FileOf(r, c)
<1>1. file' \in AllFiles /\ file'[f] = r /\ \A g \in Files \ {f} : file'[g] = file[g]
  BY FileSet, TypeParts DEF IInv
<1>2. \A g \in Files : SharesBuffer(g)'
  <2> TAKE g \in Files
  <2>1. SharesBuffer(g)
    BY TypeParts DEF IInv
  <2>2. CASE g = f
    BY <1>1, <2>2 DEF SharesBuffer
  <2>3. CASE g # f
    BY <1>1, <2>1, <2>3 DEF SharesBuffer
  <2> QED BY <2>2, <2>3
<1>3. \A b \in Bufs : OnFiles(b)' = OnFiles(b) - FileOn(file[f], b) + FileOn(r, b)
  BY <1>1, FileChangesBuffers
<1>4. \A c \in Clients : CFiles(c)' = CFiles(c) - FileOf(file[f], c) + FileOf(r, c)
  BY <1>1, FileChangesClients
<1> QED BY <1>1, <1>2, <1>3, <1>4

(* The counts of the next state are natural numbers too. *)
LEMMA FilesNatNext ==
  ASSUME Stacks'
  PROVE  /\ \A c \in Clients : CFiles(c)' \in Nat /\ CHeld(c)' \in Nat
         /\ \A b \in Bufs : OnFiles(b)' \in Nat /\ BPuts(b)' \in Nat
<1>1. ASSUME NEW c \in Clients PROVE CFiles(c)' \in Nat
  <2>1. ClientFiles(c)' \in SUBSET Files /\ IsFiniteSet(Files)
    BY BoundAssumption, FS_Interval DEF ClientFiles, Files
  <2> QED BY <2>1, FS_Subset, FS_CardinalityType DEF CFiles
<1>2. ASSUME NEW b \in Bufs PROVE OnFiles(b)' \in Nat
  <2>1. BufferFiles(b)' \in SUBSET Files /\ IsFiniteSet(Files)
    BY BoundAssumption, FS_Interval DEF BufferFiles, Files
  <2> QED BY <2>1, FS_Subset, FS_CardinalityType DEF OnFiles
<1>3. \A S : Pending(S)' \in Nat
  BY PendingFactsNext
<1> QED BY <1>1, <1>2, <1>3 DEF CHeld, BPuts

(* The last reference on a file goes. *)
LEMMA FileGone ==
  ASSUME NEW f \in Files, file'[f].ref = 0, file'[f].state = "freed",
         \A g \in Files \ {f} : file'[g] = file[g],
         FFds(f) = 0, FAreas(f) = 0, FHeld(f) = 1,
         \A g \in Files : /\ FHeld(g) \in Nat /\ FileLine(g) /\ FHeld(g)' = FHeld(g) - Bit(g = f)
                          /\ FFds(g)' = FFds(g) /\ FAreas(g)' = FAreas(g)
  PROVE  FileLedger' /\ FilesKept
<1>1. ASSUME NEW g \in Files PROVE FileLine(g)'
  <2>1. CASE g = f
    <3>1. FHeld(g)' = 0
      BY <2>1 DEF Bit
    <3> QED BY <2>1, <3>1 DEF FileLine
  <2>2. CASE g # f
    <3>1. FHeld(g)' = FHeld(g)
      BY <2>2 DEF Bit
    <3> QED BY <2>2, <3>1 DEF FileLine
  <2> QED BY <2>1, <2>2
<1>2. FilesKept
  <2> SUFFICES ASSUME NEW g \in Files, FHeld(g)' # 0
               PROVE  file'[g].kind = file[g].kind /\ file'[g].obj = file[g].obj
    BY DEF FilesKept
  <2>1. g # f
    BY DEF Bit
  <2> QED BY <2>1
<1> QED BY <1>1, <1>2 DEF FileLedger

(* fput. *)
LEMMA FilePutKeeps ==
  ASSUME IInv, NEW t \in Threads, FilePut(t) PROVE IInv'
<1>1. /\ work[t] # <<>> /\ Arg(t).op = "fput"
      /\ UNCHANGED <<buffer, handle, client, root, spinning, fds, vma, uref>>
  BY DEF FilePut, At, Arg
<1>2. Stacks /\ Arg(t) \in Steps /\ StepFits(t, Arg(t)) /\ Arg(t) = work[t][1] /\ 1 \in 1 .. Len(work[t])
  BY <1>1, TopFits
<1>3. PICK f \in Files : f = Arg(t).f
  BY <1>1, <1>2, StepFields
<1>4. FHeld(f) # 0
  BY <1>1, <1>2, <1>3, StepCounts
<1>5. file[f].ref > 0 /\ file[f].ref # 0 /\ file[f].state = "live" /\ file[f].kind # "none"
  BY <1>4, FileThere
<1>6. file[f].kind = "dev" =>
        file[f].obj # Null /\ file[f].obj \in Clients \cup {Null} /\ client[file[f].obj].task = Proc[t]
  BY <1>1, <1>2, <1>3 DEF StepFits, IInv, Objects, FileSound
<1>7. file[f] \in FileRecs
  BY TypeParts DEF IInv, AllFiles
<1>8. \A g \in Files : /\ FFds(g) \in Nat /\ FAreas(g) \in Nat /\ FHeld(g) \in Nat /\ file[g].ref \in Nat
                       /\ FileLine(g) /\ FFds(g)' = FFds(g) /\ FAreas(g)' = FAreas(g)
  BY <1>1, CountsNat, SameFds, SameAreas DEF IInv, FileLedger
<1>9. \A c \in Clients : client'[c].intree => client[c].state = "live"
  BY <1>1 DEF IInv, Objects, ClientSound
<1>10. /\ \A b \in Bufs : OnHandles(b) \in Nat /\ OnFiles(b) \in Nat /\ BPuts(b) \in Nat
       /\ \A c \in Clients : CFiles(c) \in Nat /\ CAreas(c) \in Nat /\ CHeld(c) \in Nat
  BY CountsNat
<1>11. CASE file[f].ref # 1
  <2> DEFINE r == [file[f] EXCEPT !.ref = @ - 1]
  <2>1. /\ r \in FileRecs /\ r.state = "live" /\ r.kind = file[f].kind /\ r.obj = file[f].obj
        /\ r.ref = file[f].ref - 1
    <3>1. file[f].ref - 1 \in Nat
      BY <1>5, <1>8
    <3> QED BY <1>5, <1>7, <3>1 DEF FileRecs
  <2>2. file' = [file EXCEPT ![f] = r] /\ Then(t, <<>>)
    BY <1>3, <1>11 DEF FilePut
  <2> HIDE DEF r
  <2>3. r.kind = "share" => r.obj \in Bufs
    BY <2>1, Typed DEF IInv
  <2>4. /\ file' \in AllFiles /\ \A g \in Files : SharesBuffer(g)'
        /\ file'[f] = r /\ \A g \in Files \ {f} : file'[g] = file[g]
        /\ \A b \in Bufs : OnFiles(b)' = OnFiles(b) - FileOn(file[f], b) + FileOn(r, b)
        /\ \A c \in Clients : CFiles(c)' = CFiles(c) - FileOf(file[f], c) + FileOf(r, c)
    BY <2>1, <2>2, <2>3, OneFile
  <2>5. Stacks' /\ Replaced(t, 1, 0) /\ Delta(Arg(t), Idle, Idle, Idle)
    <3> HIDE DEF Idle
    <3> QED BY <1>1, <1>2, <2>2, EndStep
  <2>6. /\ \A x \in Bufs : BPuts(x)' = BPuts(x) /\ BGone(x)' = BGone(x)
        /\ \A x \in Clients : CHeld(x)' = CHeld(x) /\ CGone(x)' = CGone(x)
        /\ \A x \in Handles : HHeld(x)' = HHeld(x) /\ HGone(x)' = HGone(x)
        /\ \A g \in Files : FHeld(g)' = FHeld(g) - Bit(g = f)
    BY <1>1, <1>2, <1>3, <2>5, PendingNat
       DEF Delta, ForBPut, ForBGone, ForClient, ForCGone, ForHandle, ForHGone, ForFile, Bit, Idle
  <2>7. TypeOK'
    BY <1>1, <2>4, <2>5, TypeParts, TypePartsNext DEF IInv
  <2>8. \A g \in Files : file'[g].kind = file[g].kind /\ file'[g].obj = file[g].obj
    BY <2>1, <2>4
  <2>9. \A g \in Files : FileSound(g)'
    <3> TAKE g \in Files
    <3>1. FileSound(g)
      BY DEF IInv, Objects
    <3>2. CASE g = f
      BY <1>5, <1>6, <2>1, <2>4, <3>1, <3>2 DEF FileSound
    <3>3. CASE g # f
      BY <2>4, <3>1, <3>3 DEF FileSound
    <3> QED BY <3>2, <3>3
  <2>10. \A p \in Procs, g \in Files : FdSound(p, g)'
    BY <1>1, <2>8 DEF IInv, Objects, FdSound
  <2>11. \A v \in Vmas : vma[v] # NoVma => file'[vma[v].file].kind = "share"
    BY <2>8 DEF IInv, Objects, AreaSound
  <2>12. /\ HandleLedger' /\ Objects' /\ HandlesKept /\ ClientsKept
         /\ \A b \in Bufs : OnHandles(b)' = OnHandles(b)
         /\ \A c \in Clients : CAreas(c)' = CAreas(c)
    BY <1>1, <1>9, <2>6, <2>9, <2>10, <2>11, FilesChange
  <2>13. BufferLedger'
    <3>1. \A b \in Bufs : OnFiles(b)' = OnFiles(b)
      <4> TAKE b \in Bufs
      <4>1. FileOn(file[f], b) = FileOn(r, b) /\ FileOn(r, b) \in Nat
        BY <1>5, <2>1 DEF FileOn, Bit
      <4> QED BY <1>10, <2>4, <4>1
    <3> QED BY <1>1, <2>6, <2>12, <3>1 DEF IInv, BufferLedger, BufferLine
  <2>14. ClientLedger'
    <3>1. \A c \in Clients : CFiles(c)' = CFiles(c)
      <4> TAKE c \in Clients
      <4>1. FileOf(file[f], c) = FileOf(r, c) /\ FileOf(r, c) \in Nat
        BY <1>5, <2>1 DEF FileOf, Bit
      <4> QED BY <1>10, <2>4, <4>1
    <3> QED BY <1>1, <2>6, <2>12, <3>1 DEF IInv, ClientLedger, ClientLine
  <2>15. FileLedger'
    <3> SUFFICES ASSUME NEW g \in Files PROVE FileLine(g)'
      BY DEF FileLedger
    <3>1. CASE g = f
      <4>1. FHeld(g)' = FHeld(g) - 1
        BY <2>6, <3>1 DEF Bit
      <4>2. file'[f].ref = file[f].ref - 1 /\ file'[f].state = "live"
        BY <2>1, <2>4
      <4>3. file[f].ref - 1 # 0
        BY <1>8, <1>11
      <4>4. file[f].ref - 1 = FFds(f)' + FAreas(f)' + FHeld(f)'
        BY <1>8, <3>1, <4>1 DEF FileLine
      <4> QED BY <3>1, <4>2, <4>3, <4>4 DEF FileLine
    <3>2. CASE g # f
      <4>1. FHeld(g)' = FHeld(g)
        BY <1>8, <2>6, <3>2 DEF Bit
      <4> QED BY <1>8, <2>4, <3>2, <4>1 DEF FileLine
    <3> QED BY <3>1, <3>2
  <2>16. FilesKept
    BY <2>8 DEF FilesKept
  <2>17. Fits' /\ Shape'
    BY <1>1, <2>5, <2>12, <2>16, StepsEnd
  <2> QED BY <2>7, <2>12, <2>13, <2>14, <2>15, <2>17 DEF IInv
<1>12. CASE file[f].ref = 1
  <2> DEFINE r == [NoFile EXCEPT !.state = "freed"]
  <2>1. /\ r \in FileRecs /\ r.state = "freed" /\ r.kind = "none" /\ r.ref = 0
    BY DEF FileRecs, NoFile
  <2>2. file' = [file EXCEPT ![f] = r]
    BY <1>3, <1>12 DEF FilePut
  <2> HIDE DEF r
  <2>4. /\ file' \in AllFiles /\ \A g \in Files : SharesBuffer(g)'
        /\ file'[f] = r /\ \A g \in Files \ {f} : file'[g] = file[g]
        /\ \A b \in Bufs : OnFiles(b)' = OnFiles(b) - FileOn(file[f], b) + FileOn(r, b)
        /\ \A c \in Clients : CFiles(c)' = CFiles(c) - FileOf(file[f], c) + FileOf(r, c)
    BY <2>1, <2>2, OneFile
  <2>5. FFds(f) = 0 /\ FAreas(f) = 0 /\ FHeld(f) = 1
    BY <1>4, <1>8, <1>12 DEF FileLine
  <2>6. (\A p \in Procs : f \notin fds[p]) /\ (\A v \in Vmas : vma[v].file # f)
    <3>1. FdHolders(f) = {} /\ FileAreas(f) = {}
      BY <2>5, FiniteCounts
    <3> QED BY <3>1 DEF FdHolders, FileAreas
  <2>9. \A g \in Files : FileSound(g)'
    <3> TAKE g \in Files
    <3>1. FileSound(g)
      BY DEF IInv, Objects
    <3>2. CASE g = f
      BY <2>1, <2>4, <3>2 DEF FileSound
    <3>3. CASE g # f
      BY <2>4, <3>1, <3>3 DEF FileSound
    <3> QED BY <3>2, <3>3
  <2>10. \A p \in Procs, g \in Files : FdSound(p, g)'
    <3> TAKE p \in Procs, g \in Files
    <3>1. CASE g = f
      BY <1>1, <2>6, <3>1 DEF FdSound
    <3>2. CASE g # f
      <4>1. file'[g] = file[g] /\ FdSound(p, g)
        BY <2>4, <3>2 DEF IInv, Objects
      <4> QED BY <1>1, <4>1 DEF FdSound
    <3> QED BY <3>1, <3>2
  <2>11. \A v \in Vmas : vma[v] # NoVma => file'[vma[v].file].kind = "share"
    BY <2>4, <2>6 DEF IInv, Objects, AreaSound
  <2>12. CASE file[f].kind = "dev"
    <3>1. PICK c \in Clients : c = file[f].obj
      BY <1>6, <2>12
    <3>2. Then(t, <<CPut(c)>>) /\ CPut(c) \in Steps
      BY <1>3, <1>12, <2>12, <3>1, FormSteps DEF FilePut
    <3>3. Stacks' /\ Replaced(t, 1, 1) /\ work'[t][1] = CPut(c) /\ Delta(Arg(t), CPut(c), Idle, Idle)
      <4> HIDE DEF CPut, Idle
      <4> QED BY <1>1, <1>2, <3>2, StepTo1
    <3>4. /\ \A x \in Bufs : BPuts(x)' = BPuts(x) /\ BGone(x)' = BGone(x)
          /\ \A x \in Clients : CHeld(x)' = CHeld(x) + Bit(x = c) /\ CGone(x)' = CGone(x)
          /\ \A x \in Handles : HHeld(x)' = HHeld(x) /\ HGone(x)' = HGone(x)
          /\ \A g \in Files : FHeld(g)' = FHeld(g) - Bit(g = f)
      BY <1>1, <1>2, <1>3, <3>3, PendingNat
         DEF Delta, ForBPut, ForBGone, ForClient, ForCGone, ForHandle, ForHGone, ForFile, Bit, Idle, CPut
    <3>5. TypeOK'
      BY <1>1, <2>4, <3>3, TypeParts, TypePartsNext DEF IInv
    <3>6. /\ HandleLedger' /\ Objects' /\ HandlesKept /\ ClientsKept
          /\ \A b \in Bufs : OnHandles(b)' = OnHandles(b)
          /\ \A x \in Clients : CAreas(x)' = CAreas(x)
      BY <1>1, <1>9, <2>9, <2>10, <2>11, <3>4, FilesChange
    <3>7. BufferLedger'
      <4>1. \A b \in Bufs : OnFiles(b)' = OnFiles(b)
        <5> TAKE b \in Bufs
        <5>1. FileOn(file[f], b) = 0 /\ FileOn(r, b) = 0
          BY <2>1, <2>12 DEF FileOn, Bit
        <5> QED BY <1>10, <2>4, <5>1
      <4> QED BY <1>1, <3>4, <3>6, <4>1 DEF IInv, BufferLedger, BufferLine
    <3>8. ClientLedger'
      <4> SUFFICES ASSUME NEW x \in Clients PROVE ClientLine(x)'
        BY DEF ClientLedger
      <4>1. ClientLine(x)
        BY DEF IInv, ClientLedger
      <4>2. CFiles(x)' + CHeld(x)' = CFiles(x) + CHeld(x)
        <5>1. CASE x = c
          <6>1. FileOf(file[f], x) = 1 /\ FileOf(r, x) = 0 /\ CHeld(x)' = CHeld(x) + 1
            BY <1>5, <2>1, <2>12, <3>1, <3>4, <5>1 DEF FileOf, Bit
          <6> QED BY <1>10, <2>4, <6>1
        <5>2. CASE x # c
          <6>1. FileOf(file[f], x) = 0 /\ FileOf(r, x) = 0 /\ CHeld(x)' = CHeld(x) + 0
            BY <1>5, <2>1, <2>12, <3>1, <3>4, <5>2 DEF FileOf, Bit
          <6> QED BY <1>10, <2>4, <6>1
        <5> QED BY <5>1, <5>2
      <4>3. CFiles(x)' \in Nat /\ CHeld(x)' \in Nat
        BY <3>3, FilesNatNext
      <4> QED BY <1>1, <1>10, <3>4, <3>6, <4>1, <4>2, <4>3 DEF ClientLine
    <3>9. FileLedger' /\ FilesKept
      BY <1>8, <2>1, <2>4, <2>5, <3>4, FileGone
    <3>10. StepFits(t, CPut(c))'
      <4>1. CFiles(c) # 0
        <5>1. f \in ClientFiles(c)
          BY <1>5, <2>12, <3>1 DEF ClientFiles
        <5> QED BY <5>1, FiniteCounts
      <4>2. client'[c].state = "live" /\ client'[c].task = Proc[t]
        BY <1>1, <1>6, <2>12, <3>1, <4>1, ClientThere
      <4> QED BY <4>2 DEF StepFits, CPut
    <3>11. Fits' /\ Shape'
      <4>1. CPut(c).op = "cput" /\ "cput" \notin Single /\ "fput" \notin Putting
        BY DEF CPut, Single, Putting
      <4> HIDE DEF CPut, Idle
      <4> QED BY <1>1, <3>2, <3>3, <3>6, <3>9, <3>10, <4>1, Step1Comes
    <3> QED BY <3>5, <3>6, <3>7, <3>8, <3>9, <3>11 DEF IInv
  <2>13. CASE file[f].kind = "share"
    <3>1. PICK b \in Bufs : b = file[f].obj
      BY <2>13, Typed DEF IInv
    <3>2. Then(t, <<BPut(b)>>) /\ BPut(b) \in Steps
      BY <1>3, <1>12, <2>13, <3>1, FormSteps DEF FilePut
    <3>3. Stacks' /\ Replaced(t, 1, 1) /\ work'[t][1] = BPut(b) /\ Delta(Arg(t), BPut(b), Idle, Idle)
      <4> HIDE DEF BPut, Idle
      <4> QED BY <1>1, <1>2, <3>2, StepTo1
    <3>4. /\ \A x \in Bufs : BPuts(x)' = BPuts(x) + Bit(x = b) /\ BGone(x)' = BGone(x)
          /\ \A x \in Clients : CHeld(x)' = CHeld(x) /\ CGone(x)' = CGone(x)
          /\ \A x \in Handles : HHeld(x)' = HHeld(x) /\ HGone(x)' = HGone(x)
          /\ \A g \in Files : FHeld(g)' = FHeld(g) - Bit(g = f)
      BY <1>1, <1>2, <1>3, <3>3, PendingNat
         DEF Delta, ForBPut, ForBGone, ForClient, ForCGone, ForHandle, ForHGone, ForFile, Bit, Idle, BPut
    <3>5. TypeOK'
      BY <1>1, <2>4, <3>3, TypeParts, TypePartsNext DEF IInv
    <3>6. /\ HandleLedger' /\ Objects' /\ HandlesKept /\ ClientsKept
          /\ \A x \in Bufs : OnHandles(x)' = OnHandles(x)
          /\ \A x \in Clients : CAreas(x)' = CAreas(x)
      BY <1>1, <1>9, <2>9, <2>10, <2>11, <3>4, FilesChange
    <3>7. ClientLedger'
      <4>1. \A x \in Clients : CFiles(x)' = CFiles(x)
        <5> TAKE x \in Clients
        <5>1. FileOf(file[f], x) = 0 /\ FileOf(r, x) = 0
          BY <2>1, <2>13 DEF FileOf, Bit
        <5> QED BY <1>10, <2>4, <5>1
      <4> QED BY <1>1, <3>4, <3>6, <4>1 DEF IInv, ClientLedger, ClientLine
    <3>8. BufferLedger'
      <4> SUFFICES ASSUME NEW x \in Bufs PROVE BufferLine(x)'
        BY DEF BufferLedger
      <4>1. BufferLine(x)
        BY DEF IInv, BufferLedger
      <4>2. OnFiles(x)' + BPuts(x)' = OnFiles(x) + BPuts(x)
        <5>1. CASE x = b
          <6>1. FileOn(file[f], x) = 1 /\ FileOn(r, x) = 0 /\ BPuts(x)' = BPuts(x) + 1
            BY <1>5, <2>1, <2>13, <3>1, <3>4, <5>1 DEF FileOn, Bit
          <6> QED BY <1>10, <2>4, <6>1
        <5>2. CASE x # b
          <6>1. FileOn(file[f], x) = 0 /\ FileOn(r, x) = 0 /\ BPuts(x)' = BPuts(x) + 0
            BY <1>5, <2>1, <2>13, <3>1, <3>4, <5>2 DEF FileOn, Bit
          <6> QED BY <1>10, <2>4, <6>1
        <5> QED BY <5>1, <5>2
      <4>3. OnFiles(x)' \in Nat /\ BPuts(x)' \in Nat
        BY <3>3, FilesNatNext
      <4> QED BY <1>1, <1>10, <3>4, <3>6, <4>1, <4>2, <4>3 DEF BufferLine
    <3>9. FileLedger' /\ FilesKept
      BY <1>8, <2>1, <2>4, <2>5, <3>4, FileGone
    <3>10. StepFits(t, BPut(b))'
      BY DEF StepFits, BPut
    <3>11. Fits' /\ Shape'
      <4>1. BPut(b).op = "bput" /\ "bput" \notin Single /\ "fput" \notin Putting
        BY DEF BPut, Single, Putting
      <4> HIDE DEF BPut, Idle
      <4> QED BY <1>1, <3>2, <3>3, <3>6, <3>9, <3>10, <4>1, Step1Comes
    <3> QED BY <3>5, <3>6, <3>7, <3>8, <3>9, <3>11 DEF IInv
  <2> QED BY <1>5, <2>12, <2>13, Typed DEF IInv
<1> QED BY <1>11, <1>12
-----------------------------------------------------------------------------
(* A file that is being opened is held by the open alone.                  *)
LEMMA NotOpenYet ==
  ASSUME IInv, NEW f \in Files, FHeld(f) # 0, file[f].kind = "dev", file[f].obj = Null
  PROVE  /\ file[f].ref = 1 /\ file[f].state = "live" /\ FHeld(f) = 1 /\ FFds(f) = 0 /\ FAreas(f) = 0
         /\ \A p \in Procs : f \notin fds[p]
         /\ \A v \in Vmas : vma[v].file # f
<1>1. FFds(f) \in Nat /\ FAreas(f) \in Nat /\ FHeld(f) \in Nat /\ FileLine(f) /\ FileSound(f)
  BY CountsNat DEF IInv, FileLedger, Objects
<1>2. file[f].ref = 1 /\ file[f].state = "live" /\ FHeld(f) = 1 /\ FFds(f) = 0 /\ FAreas(f) = 0
  <2>1. file[f].ref = 1 /\ file[f].state = "live"
    BY <1>1 DEF FileSound
  <2> QED BY <1>1, <2>1 DEF FileLine
<1>3. FdHolders(f) = {} /\ FileAreas(f) = {}
  BY <1>2, FiniteCounts
<1> QED BY <1>2, <1>3 DEF FdHolders, FileAreas

(* A client that its process finds is not being destroyed: the one thread  *)
(* of the process is looking it up.                                        *)
LEMMA FoundClient ==
  ASSUME IInv, OneThreadEach, NEW t \in Threads, work[t] # <<>>,
         Arg(t).op \in {"openLookup", "mmapLookup"}, NEW r,
         NEW c \in LookupResults(Proc[t], r) \ {Null}
  PROVE  /\ c \in Clients /\ client[c].state = "live" /\ client[c].ref # 0 /\ CGone(c) = 0
         /\ client[c].task = Proc[t]
<1>1. Arg(t) = work[t][1] /\ 1 \in 1 .. Len(work[t])
  BY TopFits
<1>2. c \in Clients /\ client[c].intree /\ client[c].task = Proc[t]
  BY DEF LookupResults, ClientsOf, UserClients
<1>3. client[c].state = "live"
  BY <1>2 DEF IInv, Objects, ClientSound
<1>4. CGone(c) = 0
  <2>1. SUFFICES ASSUME CGone(c) # 0 PROVE FALSE
    OBVIOUS
  <2>2. PICK u \in Threads : \E i \in 1 .. Len(work[u]) :
          work[u][i].op = "cdestroy" /\ client[c].task = Proc[u]
    BY <1>2, <2>1, StepOwner
  <2>3. PICK i \in 1 .. Len(work[u]) : work[u][i].op = "cdestroy" /\ client[c].task = Proc[u]
    BY <2>2
  <2>4. u = t
    BY <1>2, <2>3 DEF OneThreadEach
  <2>5. Len(work[t]) = 1
    BY <1>1 DEF IInv, Shape, Alone
  <2>6. i = 1
    BY <2>4, <2>5
  <2> QED BY <1>1, <2>3, <2>4, <2>6
<1>5. client[c].ref # 0
  BY <1>2, <1>3, <1>4 DEF IInv, ClientLedger, ClientLine, Bit
<1> QED BY <1>2, <1>3, <1>4, <1>5

(* The end of an open that succeeds. *)
LEMMA FileOpened ==
  ASSUME IInv, Stacks', NEW t \in Threads, NEW f \in Files, NEW c \in Clients,
         FHeld(f) # 0, file[f].kind = "dev", file[f].obj = Null,
         client[c].state = "live", client[c].task = Proc[t],
         file' = [file EXCEPT ![f].obj = c], Install(Proc[t], f),
         UNCHANGED <<buffer, handle, vma, uref>>,
         \A x \in Clients : /\ client'[x].state = client[x].state /\ client'[x].task = client[x].task
                            /\ client'[x].intree => client[x].state = "live",
         \A x \in Bufs : BPuts(x)' = BPuts(x) /\ BGone(x)' = BGone(x),
         \A x \in Handles : HHeld(x)' = HHeld(x) /\ HGone(x)' = HGone(x),
         \A g \in Files : FHeld(g)' = FHeld(g) - Bit(g = f)
  PROVE  /\ file' \in AllFiles /\ (\A g \in Files : SharesBuffer(g)') /\ fds' \in AllFds
         /\ HandleLedger' /\ Objects' /\ BufferLedger' /\ FileLedger'
         /\ HandlesKept /\ ClientsKept /\ FilesKept
         /\ \A x \in Clients : CAreas(x)' = CAreas(x) /\ CFiles(x)' = CFiles(x) + Bit(x = c)
<1>1. /\ file[f].ref = 1 /\ file[f].state = "live" /\ FHeld(f) = 1 /\ FFds(f) = 0 /\ FAreas(f) = 0
      /\ \A p \in Procs : f \notin fds[p]
      /\ \A v \in Vmas : vma[v].file # f
  BY NotOpenYet
<1>2. PICK p \in Procs : p = Proc[t]
  BY Typed DEF IInv
<1> DEFINE r == [file[f] EXCEPT !.obj = c]
<1>3. r \in FileRecs /\ r.state = "live" /\ r.ref = 1 /\ r.kind = "dev" /\ r.obj = c /\ c # Null
  <2>1. file[f] \in FileRecs
    BY TypeParts DEF IInv, AllFiles
  <2> QED BY <1>1, <2>1 DEF FileRecs, Clients, Null
<1>4. file' = [file EXCEPT ![f] = r]
  OBVIOUS
<1> HIDE DEF r
<1>5. /\ file' \in AllFiles /\ \A g \in Files : SharesBuffer(g)'
      /\ file'[f] = r /\ \A g \in Files \ {f} : file'[g] = file[g]
      /\ \A b \in Bufs : OnFiles(b)' = OnFiles(b) - FileOn(file[f], b) + FileOn(r, b)
      /\ \A x \in Clients : CFiles(x)' = CFiles(x) - FileOf(file[f], x) + FileOf(r, x)
  BY <1>3, <1>4, OneFile
<1>6. /\ fds' \in AllFds /\ fds'[p] = fds[p] \cup {f} /\ \A q \in Procs \ {p} : fds'[q] = fds[q]
  <2>1. fds \in AllFds /\ fds' = [fds EXCEPT ![p] = @ \cup {f}]
    BY <1>2, TypeParts DEF IInv, Install
  <2> QED BY <2>1 DEF AllFds
<1>7. \A g \in Files : FileSound(g)'
  <2> TAKE g \in Files
  <2>1. CASE g = f
    BY <1>3, <1>5, <2>1 DEF FileSound
  <2>2. CASE g # f
    BY <1>5, <2>2 DEF IInv, Objects, FileSound
  <2> QED BY <2>1, <2>2
<1>8. \A q \in Procs, g \in Files : FdSound(q, g)'
  <2> SUFFICES ASSUME NEW q \in Procs, NEW g \in Files, g \in fds'[q], file'[g].kind = "dev"
               PROVE  file'[g].obj # Null /\ client'[file'[g].obj].task = q
    BY DEF FdSound
  <2>1. CASE g = f
    <3>1. q = p
      BY <1>1, <1>6, <2>1
    <3> QED BY <1>2, <1>3, <1>5, <2>1, <3>1
  <2>2. CASE g # f
    <3>1. g \in fds[q] /\ file'[g] = file[g]
      BY <1>5, <1>6, <2>2
    <3>2. file[g].obj # Null /\ client[file[g].obj].task = q /\ file[g].obj \in Clients \cup {Null}
      BY <3>1 DEF IInv, Objects, FdSound, FileSound
    <3> QED BY <3>1, <3>2
  <2> QED BY <2>1, <2>2
<1>9. \A v \in Vmas : vma[v] # NoVma => file'[vma[v].file].kind = "share"
  BY <1>1, <1>5 DEF IInv, Objects, AreaSound
<1>10. /\ HandleLedger' /\ Objects' /\ HandlesKept /\ ClientsKept
       /\ \A b \in Bufs : OnHandles(b)' = OnHandles(b)
       /\ \A x \in Clients : CAreas(x)' = CAreas(x)
       /\ \A g \in Files : FAreas(g)' = FAreas(g)
  BY <1>7, <1>8, <1>9, FilesChange
<1>11. BufferLedger'
  <2>1. \A b \in Bufs : OnFiles(b)' = OnFiles(b)
    <3> TAKE b \in Bufs
    <3>1. FileOn(file[f], b) = 0 /\ FileOn(r, b) = 0 /\ OnFiles(b) \in Nat
      BY <1>3, CountsNat DEF FileOn, Bit
    <3> QED BY <1>5, <3>1
  <2> QED BY <1>10, <2>1 DEF IInv, BufferLedger, BufferLine
<1>12. \A x \in Clients : CFiles(x)' = CFiles(x) + Bit(x = c)
  <2> TAKE x \in Clients
  <2>1. FileOf(file[f], x) = 0
    BY DEF FileOf, Bit, Clients, Null
  <2>2. FileOf(r, x) = Bit(x = c)
    BY <1>3 DEF FileOf, Bit
  <2>3. CFiles(x) \in Nat /\ Bit(x = c) \in Nat
    BY CountsNat DEF Bit
  <2> QED BY <1>5, <2>1, <2>2, <2>3
<1>13. FileLedger'
  <2> SUFFICES ASSUME NEW g \in Files PROVE FileLine(g)'
    BY DEF FileLedger
  <2>1. FileLine(g) /\ FFds(g) \in Nat /\ FHeld(g) \in Nat
    BY CountsNat DEF IInv, FileLedger
  <2>2. FFds(g)' = FFds(g) - Bit(g \in fds[p]) + Bit(g \in fds'[p])
    BY <1>6, FdChanges
  <2>3. CASE g = f
    <3>1. FFds(g)' = 1 /\ FHeld(g)' = 0 /\ FAreas(g)' = 0
      <4>1. Bit(g \in fds[p]) = 0 /\ Bit(g \in fds'[p]) = 1
        BY <1>1, <1>6, <2>3 DEF Bit
      <4>2. FFds(g)' = 0 - 0 + 1
        BY <1>1, <2>2, <2>3, <4>1
      <4>3. FHeld(g)' = 1 - 1
        BY <1>1, <2>3 DEF Bit
      <4> QED BY <1>1, <1>10, <2>3, <4>2, <4>3
    <3>2. file'[g].ref = 1 /\ file'[g].state = "live"
      BY <1>3, <1>5, <2>3
    <3> QED BY <3>1, <3>2 DEF FileLine
  <2>4. CASE g # f
    <3>1. FFds(g)' = FFds(g)
      <4>1. Bit(g \in fds'[p]) = Bit(g \in fds[p]) /\ Bit(g \in fds[p]) \in Nat
        BY <1>6, <2>4 DEF Bit
      <4> QED BY <2>1, <2>2, <4>1
    <3>2. FHeld(g)' = FHeld(g)
      BY <2>1, <2>4 DEF Bit
    <3> QED BY <1>5, <1>10, <2>1, <2>4, <3>1, <3>2 DEF FileLine
  <2> QED BY <2>3, <2>4
<1>14. FilesKept
  <2> SUFFICES ASSUME NEW g \in Files, FHeld(g)' # 0
               PROVE  file'[g].kind = file[g].kind /\ file'[g].obj = file[g].obj
    BY DEF FilesKept
  <2>1. g # f
    BY <1>1 DEF Bit
  <2> QED BY <1>5, <2>1
<1> QED BY <1>5, <1>6, <1>10, <1>11, <1>12, <1>13, <1>14

(* ion_open of a process that has a client. *)
LEMMA OpenFoundKeeps ==
  ASSUME IInv, OneThreadEach, NEW t \in Threads, OpenFound(t) PROVE IInv'
<1>1. /\ work[t] # <<>> /\ Arg(t).op = "openLookup" /\ Then(t, <<>>)
      /\ UNCHANGED <<buffer, handle, root, spinning, vma, uref>>
  BY DEF OpenFound, At, Arg
<1>2. Stacks /\ Arg(t) \in Steps /\ StepFits(t, Arg(t)) /\ Arg(t) = work[t][1] /\ 1 \in 1 .. Len(work[t])
  BY <1>1, TopFits
<1>3. PICK f \in Files : f = Arg(t).f
  BY <1>1, <1>2, StepFields
<1>4. FHeld(f) # 0 /\ file[f].kind = "dev" /\ file[f].obj = Null
  BY <1>1, <1>2, <1>3, StepCounts DEF StepFits
<1>5. PICK q : q = Arg(t).root
  OBVIOUS
<1>6. PICK c \in LookupResults(Proc[t], q) \ {Null} :
        client' = [client EXCEPT ![c].ref = @ + 1] /\ file' = [file EXCEPT ![f].obj = c]
  BY <1>3, <1>5 DEF OpenFound
<1>7. /\ c \in Clients /\ client[c].state = "live" /\ client[c].ref # 0 /\ CGone(c) = 0
      /\ client[c].task = Proc[t]
  BY <1>1, <1>6, FoundClient
<1>8. Install(Proc[t], f)
  BY <1>3 DEF OpenFound
<1>9. Stacks' /\ Replaced(t, 1, 0) /\ Delta(Arg(t), Idle, Idle, Idle)
  BY <1>1, <1>2, EndStep
<1>10. /\ \A x \in Bufs : BPuts(x)' = BPuts(x) /\ BGone(x)' = BGone(x)
       /\ \A x \in Clients : CHeld(x)' = CHeld(x) /\ CGone(x)' = CGone(x)
       /\ \A x \in Handles : HHeld(x)' = HHeld(x) /\ HGone(x)' = HGone(x)
       /\ \A g \in Files : FHeld(g)' = FHeld(g) - Bit(g = f)
  BY <1>1, <1>2, <1>3, <1>9, PendingNat
     DEF Delta, ForBPut, ForBGone, ForClient, ForCGone, ForHandle, ForHGone, ForFile, Bit, Idle
<1>11. \A x \in Clients : /\ CFiles(x) \in Nat /\ CAreas(x) \in Nat /\ CHeld(x) \in Nat /\ CGone(x) \in Nat
                          /\ client[x].ref \in Nat /\ ClientLine(x)
  BY CountsNat DEF IInv, ClientLedger
<1> DEFINE r == [client[c] EXCEPT !.ref = @ + 1]
<1>12. /\ r \in ClientRecs /\ r.ref = client[c].ref + 1 /\ r.state = client[c].state
       /\ r.task = client[c].task /\ r.intree = client[c].intree
  <2>1. client[c] \in ClientRecs /\ client[c].ref + 1 \in Nat
    BY <1>7, <1>11, TypeParts DEF IInv, AllClients
  <2> QED BY <2>1 DEF ClientRecs
<1>13. client' = [client EXCEPT ![c] = r]
  BY <1>6
<1> HIDE DEF r
<1>14. client' \in AllClients /\ client'[c] = r /\ \A x \in Clients \ {c} : client'[x] = client[x]
  BY <1>7, <1>12, <1>13, ClientSet, TypeParts DEF IInv
<1>15. \A x \in Clients : /\ client'[x].state = client[x].state /\ client'[x].task = client[x].task
                          /\ client'[x].intree => client[x].state = "live"
  BY <1>12, <1>14 DEF IInv, Objects, ClientSound
<1>16. /\ file' \in AllFiles /\ (\A g \in Files : SharesBuffer(g)') /\ fds' \in AllFds
       /\ HandleLedger' /\ Objects' /\ BufferLedger' /\ FileLedger'
       /\ HandlesKept /\ ClientsKept /\ FilesKept
       /\ \A x \in Clients : CAreas(x)' = CAreas(x) /\ CFiles(x)' = CFiles(x) + Bit(x = c)
  BY <1>1, <1>4, <1>6, <1>7, <1>8, <1>9, <1>10, <1>15, FileOpened
<1>17. TypeOK'
  BY <1>1, <1>9, <1>14, <1>16, TypeParts, TypePartsNext DEF IInv
<1>18. ClientLedger'
  <2> SUFFICES ASSUME NEW x \in Clients PROVE ClientLine(x)'
    BY DEF ClientLedger
  <2>1. CASE x = c
    <3>1. CFiles(x)' = CFiles(x) + 1
      BY <1>16, <2>1 DEF Bit
    <3>2. client'[x].ref = client[x].ref + 1 /\ client'[x].state = "live" /\ client'[x].ref # 0
      BY <1>7, <1>11, <1>12, <1>14, <2>1
    <3> QED BY <1>7, <1>10, <1>11, <1>16, <2>1, <3>1, <3>2 DEF ClientLine, Bit
  <2>2. CASE x # c
    <3>1. CFiles(x)' = CFiles(x)
      BY <1>11, <1>16, <2>2 DEF Bit
    <3> QED BY <1>10, <1>11, <1>14, <1>16, <2>2, <3>1 DEF ClientLine
  <2> QED BY <2>1, <2>2
<1>19. Fits' /\ Shape'
  BY <1>1, <1>9, <1>16, StepsEnd
<1> QED BY <1>16, <1>17, <1>18, <1>19 DEF IInv

(* The end of an open that had to make a client. *)
LEMMA OpenInsertKeeps ==
  ASSUME IInv, NEW t \in Threads, OpenInsert(t) PROVE IInv'
<1>1. /\ work[t] # <<>> /\ Arg(t).op = "insert" /\ Then(t, <<>>)
      /\ UNCHANGED <<buffer, handle, spinning, vma, uref>>
  BY DEF OpenInsert, At, Arg
<1>2. Stacks /\ Arg(t) \in Steps /\ StepFits(t, Arg(t)) /\ Arg(t) = work[t][1] /\ 1 \in 1 .. Len(work[t])
  BY <1>1, TopFits
<1>3. PICK f \in Files, c \in Clients : f = Arg(t).f /\ c = Arg(t).c
  BY <1>1, <1>2, StepFields
<1>4. FHeld(f) # 0 /\ CHeld(c) # 0 /\ file[f].kind = "dev" /\ file[f].obj = Null
  BY <1>1, <1>2, <1>3, StepCounts DEF StepFits
<1>5. /\ client[c].state = "live" /\ client[c].task = Proc[t]
  BY <1>1, <1>2, <1>3 DEF StepFits
<1>6. /\ client' = [client EXCEPT ![c].intree = TRUE]
      /\ file' = [file EXCEPT ![f].obj = c] /\ Install(Proc[t], f)
      /\ root' = IF root = Null THEN c ELSE root
  BY <1>3 DEF OpenInsert
<1>7. root' \in Clients \cup {Null}
  <2>1. root \in Clients \cup {Null}
    BY TypeParts DEF IInv
  <2> QED BY <1>6, <2>1
<1>9. Stacks' /\ Replaced(t, 1, 0) /\ Delta(Arg(t), Idle, Idle, Idle)
  BY <1>1, <1>2, EndStep
<1>10. /\ \A x \in Bufs : BPuts(x)' = BPuts(x) /\ BGone(x)' = BGone(x)
       /\ \A x \in Clients : CHeld(x)' = CHeld(x) - Bit(x = c) /\ CGone(x)' = CGone(x)
       /\ \A x \in Handles : HHeld(x)' = HHeld(x) /\ HGone(x)' = HGone(x)
       /\ \A g \in Files : FHeld(g)' = FHeld(g) - Bit(g = f)
  BY <1>1, <1>2, <1>3, <1>9, PendingNat
     DEF Delta, ForBPut, ForBGone, ForClient, ForCGone, ForHandle, ForHGone, ForFile, Bit, Idle
<1>11. \A x \in Clients : /\ CFiles(x) \in Nat /\ CAreas(x) \in Nat /\ CHeld(x) \in Nat /\ CGone(x) \in Nat
                          /\ client[x].ref \in Nat /\ ClientLine(x)
  BY CountsNat DEF IInv, ClientLedger
<1> DEFINE r == [client[c] EXCEPT !.intree = TRUE]
<1>12. /\ r \in ClientRecs /\ r.ref = client[c].ref /\ r.state = client[c].state
       /\ r.task = client[c].task
  <2>1. client[c] \in ClientRecs
    BY TypeParts DEF IInv, AllClients
  <2> QED BY <2>1 DEF ClientRecs
<1>13. client' = [client EXCEPT ![c] = r]
  BY <1>6
<1> HIDE DEF r
<1>14. client' \in AllClients /\ client'[c] = r /\ \A x \in Clients \ {c} : client'[x] = client[x]
  BY <1>12, <1>13, ClientSet, TypeParts DEF IInv
<1>15. \A x \in Clients : /\ client'[x].state = client[x].state /\ client'[x].task = client[x].task
                          /\ client'[x].ref = client[x].ref
                          /\ client'[x].intree => client[x].state = "live"
  BY <1>5, <1>12, <1>14 DEF IInv, Objects, ClientSound
<1>16. /\ file' \in AllFiles /\ (\A g \in Files : SharesBuffer(g)') /\ fds' \in AllFds
       /\ HandleLedger' /\ Objects' /\ BufferLedger' /\ FileLedger'
       /\ HandlesKept /\ ClientsKept /\ FilesKept
       /\ \A x \in Clients : CAreas(x)' = CAreas(x) /\ CFiles(x)' = CFiles(x) + Bit(x = c)
  BY <1>1, <1>4, <1>5, <1>6, <1>9, <1>10, <1>15, FileOpened
<1>17. TypeOK'
  BY <1>1, <1>7, <1>9, <1>14, <1>16, TypeParts, TypePartsNext DEF IInv
<1>18. ClientLedger'
  <2> SUFFICES ASSUME NEW x \in Clients PROVE ClientLine(x)'
    BY DEF ClientLedger
  <2>1. CFiles(x)' = CFiles(x) + Bit(x = c) /\ CHeld(x)' = CHeld(x) - Bit(x = c) /\ Bit(x = c) \in Nat
    BY <1>10, <1>16 DEF Bit
  <2>2. CFiles(x)' + CHeld(x)' = CFiles(x) + CHeld(x)
    BY <1>11, <2>1
  <2>3. CFiles(x)' \in Nat /\ CHeld(x)' \in Nat
    BY <1>9, FilesNatNext
  <2> QED BY <1>10, <1>11, <1>15, <1>16, <2>2, <2>3 DEF ClientLine
<1>19. Fits' /\ Shape'
  BY <1>1, <1>9, <1>16, StepsEnd
<1> QED BY <1>16, <1>17, <1>18, <1>19 DEF IInv
(* An open that finds no memory for a client: the file goes. *)
LEMMA OpenNoMemoryKeeps ==
  ASSUME IInv, NEW t \in Threads, OpenNoMemory(t) PROVE IInv'
<1>1. /\ work[t] # <<>> /\ Arg(t).op = "openLookup" /\ Then(t, <<>>)
      /\ UNCHANGED <<buffer, handle, client, root, spinning, fds, vma, uref>>
  BY DEF OpenNoMemory, At, Arg, objects
<1>2. Stacks /\ Arg(t) \in Steps /\ StepFits(t, Arg(t)) /\ Arg(t) = work[t][1] /\ 1 \in 1 .. Len(work[t])
  BY <1>1, TopFits
<1>3. PICK f \in Files : f = Arg(t).f
  BY <1>1, <1>2, StepFields
<1>4. FHeld(f) # 0 /\ file[f].kind = "dev" /\ file[f].obj = Null
  BY <1>1, <1>2, <1>3, StepCounts DEF StepFits
<1>5. /\ FHeld(f) = 1 /\ FFds(f) = 0 /\ FAreas(f) = 0
      /\ \A p \in Procs : f \notin fds[p]
      /\ \A v \in Vmas : vma[v].file # f
  BY <1>4, NotOpenYet
<1> DEFINE r == [NoFile EXCEPT !.state = "freed"]
<1>6. r \in FileRecs /\ r.state = "freed" /\ r.kind = "none" /\ r.ref = 0
  BY DEF FileRecs, NoFile
<1>7. file' = [file EXCEPT ![f] = r]
  BY <1>3 DEF OpenNoMemory
<1> HIDE DEF r
<1>8. /\ file' \in AllFiles /\ \A g \in Files : SharesBuffer(g)'
      /\ file'[f] = r /\ \A g \in Files \ {f} : file'[g] = file[g]
      /\ \A b \in Bufs : OnFiles(b)' = OnFiles(b) - FileOn(file[f], b) + FileOn(r, b)
      /\ \A c \in Clients : CFiles(c)' = CFiles(c) - FileOf(file[f], c) + FileOf(r, c)
  BY <1>6, <1>7, OneFile
<1>9. Stacks' /\ Replaced(t, 1, 0) /\ Delta(Arg(t), Idle, Idle, Idle)
  BY <1>1, <1>2, EndStep
<1>10. /\ \A x \in Bufs : BPuts(x)' = BPuts(x) /\ BGone(x)' = BGone(x)
       /\ \A x \in Clients : CHeld(x)' = CHeld(x) /\ CGone(x)' = CGone(x)
       /\ \A x \in Handles : HHeld(x)' = HHeld(x) /\ HGone(x)' = HGone(x)
       /\ \A g \in Files : FHeld(g)' = FHeld(g) - Bit(g = f)
  BY <1>1, <1>2, <1>3, <1>9, PendingNat
     DEF Delta, ForBPut, ForBGone, ForClient, ForCGone, ForHandle, ForHGone, ForFile, Bit, Idle
<1>11. TypeOK'
  BY <1>1, <1>8, <1>9, TypeParts, TypePartsNext DEF IInv
<1>12. \A g \in Files : FileSound(g)'
  <2> TAKE g \in Files
  <2>1. CASE g = f
    BY <1>6, <1>8, <2>1 DEF FileSound
  <2>2. CASE g # f
    BY <1>8, <2>2 DEF IInv, Objects, FileSound
  <2> QED BY <2>1, <2>2
<1>13. \A p \in Procs, g \in Files : FdSound(p, g)'
  <2> TAKE p \in Procs, g \in Files
  <2>1. CASE g = f
    BY <1>1, <1>5, <2>1 DEF FdSound
  <2>2. CASE g # f
    <3>1. file'[g] = file[g] /\ FdSound(p, g)
      BY <1>8, <2>2 DEF IInv, Objects
    <3> QED BY <1>1, <3>1 DEF FdSound
  <2> QED BY <2>1, <2>2
<1>14. \A v \in Vmas : vma[v] # NoVma => file'[vma[v].file].kind = "share"
  BY <1>5, <1>8 DEF IInv, Objects, AreaSound
<1>15. \A c \in Clients : client'[c].intree => client[c].state = "live"
  BY <1>1 DEF IInv, Objects, ClientSound
<1>16. /\ HandleLedger' /\ Objects' /\ HandlesKept /\ ClientsKept
       /\ \A b \in Bufs : OnHandles(b)' = OnHandles(b)
       /\ \A c \in Clients : CAreas(c)' = CAreas(c)
  BY <1>1, <1>10, <1>12, <1>13, <1>14, <1>15, FilesChange
<1>17. BufferLedger'
  <2>1. \A b \in Bufs : OnFiles(b)' = OnFiles(b)
    <3> TAKE b \in Bufs
    <3>1. FileOn(file[f], b) = 0 /\ FileOn(r, b) = 0 /\ OnFiles(b) \in Nat
      BY <1>4, <1>6, CountsNat DEF FileOn, Bit
    <3> QED BY <1>8, <3>1
  <2> QED BY <1>1, <1>10, <1>16, <2>1 DEF IInv, BufferLedger, BufferLine
<1>18. ClientLedger'
  <2>1. \A c \in Clients : CFiles(c)' = CFiles(c)
    <3> TAKE c \in Clients
    <3>1. FileOf(file[f], c) = 0 /\ FileOf(r, c) = 0 /\ CFiles(c) \in Nat
      BY <1>4, <1>6, CountsNat DEF FileOf, Bit, Clients, Null
    <3> QED BY <1>8, <3>1
  <2> QED BY <1>1, <1>10, <1>16, <2>1 DEF IInv, ClientLedger, ClientLine
<1>19. FileLedger' /\ FilesKept
  <2>1. \A g \in Files : /\ FHeld(g) \in Nat /\ FileLine(g)
                         /\ FFds(g)' = FFds(g) /\ FAreas(g)' = FAreas(g)
    BY <1>1, CountsNat, SameFds, SameAreas DEF IInv, FileLedger
  <2> QED BY <1>5, <1>6, <1>8, <1>10, <2>1, FileGone
<1>20. Fits' /\ Shape'
  BY <1>1, <1>9, <1>16, <1>19, StepsEnd
<1> QED BY <1>11, <1>16, <1>17, <1>18, <1>19, <1>20 DEF IInv

(* An open that makes a client, which nothing referred to before.          *)
LEMMA OpenMissedKeeps ==
  ASSUME IInv, NEW t \in Threads, OpenMissed(t) PROVE IInv'
<1>1. /\ work[t] # <<>> /\ Arg(t).op = "openLookup"
      /\ UNCHANGED <<buffer, handle, root, spinning, file, fds, vma, uref>>
  BY DEF OpenMissed, At, Arg
<1>2. Stacks /\ Arg(t) \in Steps /\ StepFits(t, Arg(t)) /\ Arg(t) = work[t][1] /\ 1 \in 1 .. Len(work[t])
  BY <1>1, TopFits
<1>3. PICK f \in Files : f = Arg(t).f
  BY <1>1, <1>2, StepFields
<1>4. file[f].kind = "dev" /\ file[f].obj = Null
  BY <1>1, <1>2, <1>3 DEF StepFits
<1> DEFINE R(p) == [state |-> "live", ref |-> 1, task |-> p, intree |-> FALSE]
<1>5. PICK c \in Clients : /\ client[c].state = "none"
                           /\ client' = [client EXCEPT ![c] = R(Proc[t])]
                           /\ Then(t, <<InsertStep(c, f)>>)
  BY <1>3 DEF OpenMissed, IsFresh, InsertStep
<1>6. PICK p \in Procs : p = Proc[t]
  BY Typed DEF IInv
<1> DEFINE r == R(p)
<1>7. r \in ClientRecs /\ r.state = "live" /\ r.ref = 1 /\ r.task = p /\ r.intree = FALSE
  BY DEF ClientRecs
<1>8. client' = [client EXCEPT ![c] = r]
  BY <1>5, <1>6
<1> HIDE DEF r, R
<1>9. client' \in AllClients /\ client'[c] = r /\ \A x \in Clients \ {c} : client'[x] = client[x]
  BY <1>7, <1>8, ClientSet, TypeParts DEF IInv
<1>10. \A x \in Clients : /\ CFiles(x) \in Nat /\ CAreas(x) \in Nat /\ CHeld(x) \in Nat /\ CGone(x) \in Nat
                          /\ client[x].ref \in Nat /\ ClientLine(x)
  BY CountsNat DEF IInv, ClientLedger
<1>11. CFiles(c) = 0 /\ CAreas(c) = 0 /\ CHeld(c) = 0 /\ CGone(c) = 0
  BY <1>5, <1>10 DEF ClientLine, Bit
<1>12. InsertStep(c, f) \in Steps
  BY FormSteps
<1>13. /\ Stacks' /\ Replaced(t, 1, 1) /\ work'[t][1] = InsertStep(c, f)
       /\ Delta(Arg(t), InsertStep(c, f), Idle, Idle)
  <2> HIDE DEF InsertStep, Idle
  <2> QED BY <1>1, <1>2, <1>5, <1>12, StepTo1
<1>14. /\ \A x \in Bufs : BPuts(x)' = BPuts(x) /\ BGone(x)' = BGone(x)
       /\ \A x \in Clients : CHeld(x)' = CHeld(x) + Bit(x = c) /\ CGone(x)' = CGone(x)
       /\ \A x \in Handles : HHeld(x)' = HHeld(x) /\ HGone(x)' = HGone(x)
       /\ \A g \in Files : FHeld(g)' = FHeld(g)
  BY <1>1, <1>2, <1>3, <1>13, PendingNat
     DEF Delta, ForBPut, ForBGone, ForClient, ForCGone, ForHandle, ForHGone, ForFile, Bit, Idle, InsertStep
<1>15. TypeOK'
  BY <1>1, <1>9, <1>13, TypeParts, TypePartsNext DEF IInv, SharesBuffer
<1>16. \A h \in Handles : handle[h].client # Null =>
         Owner(h)' = Owner(h) /\ client'[handle[h].client] = client[handle[h].client]
  <2> SUFFICES ASSUME NEW h \in Handles, handle[h].client # Null
               PROVE  Owner(h)' = Owner(h) /\ client'[handle[h].client] = client[handle[h].client]
    OBVIOUS
  <2>1. handle[h].client \in Clients /\ client[handle[h].client].state = "live"
    BY Typed DEF IInv, Objects, HandleSound
  <2> QED BY <1>1, <1>5, <1>9, <2>1 DEF Owner
<1>17. BufferLedger'
  <2>1. \A b \in Bufs : OnHandles(b)' = OnHandles(b) /\ OnFiles(b)' = OnFiles(b)
    BY <1>1, SameHandles, SameFiles
  <2> QED BY <1>1, <1>14, <2>1 DEF IInv, BufferLedger, BufferLine
<1>18. ClientLedger'
  <2> SUFFICES ASSUME NEW x \in Clients PROVE ClientLine(x)'
    BY DEF ClientLedger
  <2>1. CFiles(x)' = CFiles(x) /\ CAreas(x)' = CAreas(x) /\ CGone(x)' = CGone(x)
    BY <1>1, <1>14, SameFiles, SameAreas
  <2>2. CASE x = c
    <3>1. CHeld(x)' = 1
      BY <1>11, <1>14, <2>2 DEF Bit
    <3> QED BY <1>7, <1>9, <1>11, <2>1, <2>2, <3>1 DEF ClientLine, Bit
  <2>3. CASE x # c
    <3>1. CHeld(x)' = CHeld(x)
      BY <1>10, <1>14, <2>3 DEF Bit
    <3> QED BY <1>9, <1>10, <2>1, <2>3, <3>1 DEF ClientLine
  <2> QED BY <2>2, <2>3
<1>19. HandleLedger'
  <2> SUFFICES ASSUME NEW x \in Handles PROVE HandleLine(x)'
    BY DEF HandleLedger
  <2>1. HandleLine(x) /\ HAreas(x)' = HAreas(x)
    BY <1>1, SameAreas DEF IInv, HandleLedger
  <2>2. Uses(x)' = Uses(x)
    BY <1>1, <1>16 DEF Uses
  <2> QED BY <1>1, <1>14, <1>16, <2>1, <2>2 DEF HandleLine
<1>20. FileLedger'
  <2>1. \A g \in Files : FFds(g)' = FFds(g) /\ FAreas(g)' = FAreas(g)
    BY <1>1, SameFds, SameAreas
  <2> QED BY <1>1, <1>14, <2>1 DEF IInv, FileLedger, FileLine
<1>21. Objects'
  <2>1. \A x \in Handles : HandleSound(x)'
    BY <1>1, <1>16 DEF IInv, Objects, HandleSound
  <2>2. \A x \in Clients : ClientSound(x)'
    <3> TAKE x \in Clients
    <3>1. CASE x = c
      BY <1>7, <1>9, <3>1 DEF ClientSound
    <3>2. CASE x # c
      BY <1>9, <3>2 DEF IInv, Objects, ClientSound
    <3> QED BY <3>1, <3>2
  <2>3. \A g \in Files : FileSound(g)'
    BY <1>1 DEF IInv, Objects, FileSound
  <2>4. \A q \in Procs, g \in Files : FdSound(q, g)'
    <3> SUFFICES ASSUME NEW q \in Procs, NEW g \in Files, g \in fds[q], file[g].kind = "dev"
                 PROVE  file[g].obj # Null /\ client'[file[g].obj].task = q
      BY <1>1 DEF FdSound
    <3>1. file[g].obj # Null /\ client[file[g].obj].task = q /\ file[g].obj \in Clients \cup {Null}
      BY DEF IInv, Objects, FdSound, FileSound
    <3>2. file[g].obj # c
      <4>1. file[g].state = "live"
        BY DEF IInv, Objects, FileSound
      <4>2. ClientFiles(c) = {}
        BY <1>11, FiniteCounts
      <4> QED BY <4>1, <4>2 DEF ClientFiles
    <3> QED BY <1>9, <3>1, <3>2
  <2>5. \A v \in Vmas : AreaSound(v)'
    <3> SUFFICES ASSUME NEW v \in Vmas, vma[v] # NoVma PROVE AreaSound(v)'
      BY <1>1 DEF AreaSound
    <3>1. AreaSound(v) /\ vma[v].handle \in Handles /\ handle[vma[v].handle].client # Null
      BY AreaThere DEF IInv, Objects
    <3> QED BY <1>1, <1>16, <3>1 DEF AreaSound
  <2> QED BY <2>1, <2>2, <2>3, <2>4, <2>5 DEF Objects
<1>22. HandlesKept /\ FilesKept
  BY <1>1 DEF HandlesKept, FilesKept
<1>23. ClientsKept
  BY <1>5, <1>9 DEF ClientsKept
<1>24. StepFits(t, InsertStep(c, f))'
  <2>1. client'[c].state = "live" /\ client'[c].task = Proc[t] /\ file' = file
    BY <1>1, <1>6, <1>7, <1>9
  <2> QED BY <1>4, <2>1 DEF StepFits, InsertStep
<1>25. Fits' /\ Shape'
  <2>1. InsertStep(c, f).op = "insert" /\ "openLookup" \in Single /\ "openLookup" \notin Putting
    BY DEF InsertStep, Single, Putting
  <2> HIDE DEF InsertStep, Idle
  <2> QED BY <1>1, <1>12, <1>13, <1>22, <1>23, <1>24, <2>1, Step1Comes
<1> QED BY <1>15, <1>17, <1>18, <1>19, <1>20, <1>21, <1>25 DEF IInv

(* ion_share_mmap finds the client of the process, and takes a reference.  *)
LEMMA MmapFoundKeeps ==
  ASSUME IInv, OneThreadEach, NEW t \in Threads, MmapFound(t) PROVE IInv'
<1>1. /\ work[t] # <<>> /\ Arg(t).op = "mmapLookup"
      /\ UNCHANGED <<buffer, handle, root, spinning, file, fds, vma, uref>>
  BY DEF MmapFound, At, Arg
<1>2. Stacks /\ Arg(t) \in Steps /\ StepFits(t, Arg(t)) /\ Arg(t) = work[t][1] /\ 1 \in 1 .. Len(work[t])
  BY <1>1, TopFits
<1>3. PICK f \in Files : f = Arg(t).f
  BY <1>1, <1>2, StepFields
<1>4. file[f].kind = "share"
  BY <1>1, <1>2, <1>3 DEF StepFits
<1>5. PICK q : q = Arg(t).root
  OBVIOUS
<1>6. PICK c \in LookupResults(Proc[t], q) \ {Null} :
        /\ client' = [client EXCEPT ![c].ref = @ + 1]
        /\ Then(t, <<MmapImportStep(c, f)>>) \/ Then(t, <<CPut(c), FPut(f)>>)
  BY <1>3, <1>5 DEF MmapFound, MmapImportStep
<1>7. /\ c \in Clients /\ client[c].state = "live" /\ client[c].ref # 0 /\ CGone(c) = 0
      /\ client[c].task = Proc[t]
  BY <1>1, <1>6, FoundClient
<1>8. \A x \in Clients : /\ CFiles(x) \in Nat /\ CAreas(x) \in Nat /\ CHeld(x) \in Nat /\ CGone(x) \in Nat
                         /\ client[x].ref \in Nat /\ ClientLine(x)
  BY CountsNat DEF IInv, ClientLedger
<1> DEFINE n == client[c].ref + 1
<1>9. n \in Nat /\ n # 0 /\ n = client[c].ref + 1 /\ client' = [client EXCEPT ![c].ref = n]
  BY <1>6, <1>7, <1>8
<1> HIDE DEF n
<1>10. MmapImportStep(c, f) \in Steps /\ CPut(c) \in Steps /\ FPut(f) \in Steps
  BY <1>7, FormSteps
<1>11. /\ Stacks'
       /\ \/ Replaced(t, 1, 1) /\ work'[t][1] = MmapImportStep(c, f)
          \/ Replaced(t, 1, 2) /\ work'[t][1] = CPut(c) /\ work'[t][2] = FPut(f)
       /\ \A x \in Bufs : BPuts(x)' = BPuts(x) /\ BGone(x)' = BGone(x)
       /\ \A x \in Clients : CHeld(x)' = CHeld(x) + Bit(x = c) /\ CGone(x)' = CGone(x)
       /\ \A x \in Handles : HHeld(x)' = HHeld(x) /\ HGone(x)' = HGone(x)
       /\ \A g \in Files : FHeld(g)' = FHeld(g)
  <2>1. CASE Then(t, <<MmapImportStep(c, f)>>)
    <3>1. /\ Stacks' /\ Replaced(t, 1, 1) /\ work'[t][1] = MmapImportStep(c, f)
          /\ Delta(Arg(t), MmapImportStep(c, f), Idle, Idle)
      <4> HIDE DEF MmapImportStep, Idle
      <4> QED BY <1>1, <1>2, <1>10, <2>1, StepTo1
    <3>2. /\ \A x \in Bufs : BPuts(x)' = BPuts(x) /\ BGone(x)' = BGone(x)
          /\ \A x \in Clients : CHeld(x)' = CHeld(x) + Bit(x = c) /\ CGone(x)' = CGone(x)
          /\ \A x \in Handles : HHeld(x)' = HHeld(x) /\ HGone(x)' = HGone(x)
          /\ \A g \in Files : FHeld(g)' = FHeld(g)
      <4>1. \A x \in Bufs : BPuts(x)' = BPuts(x)
        <5> TAKE x \in Bufs
        <5>1. BPuts(x)' = BPuts(x) - ForBPut(Arg(t), x) + ForBPut(MmapImportStep(c, f), x) + ForBPut(Idle, x) + ForBPut(Idle, x) /\ BPuts(x) \in Nat
          BY <1>1, <1>2, <1>3, <1>7, <3>1, PendingNat DEF Delta
        <5>2. QED BY <1>1, <1>2, <1>3, <1>7, <3>1, <5>1 DEF ForBPut, Bit, MmapImportStep, Idle
      <4>2. \A x \in Bufs : BGone(x)' = BGone(x)
        <5> TAKE x \in Bufs
        <5>1. BGone(x)' = BGone(x) - ForBGone(Arg(t), x) + ForBGone(MmapImportStep(c, f), x) + ForBGone(Idle, x) + ForBGone(Idle, x) /\ BGone(x) \in Nat
          BY <1>1, <1>2, <1>3, <1>7, <3>1, PendingNat DEF Delta
        <5>2. QED BY <1>1, <1>2, <1>3, <1>7, <3>1, <5>1 DEF ForBGone, Bit, MmapImportStep, Idle
      <4>3. \A x \in Clients : CHeld(x)' = CHeld(x) + Bit(x = c)
        <5> TAKE x \in Clients
        <5>1. CHeld(x)' = CHeld(x) - ForClient(Arg(t), x) + ForClient(MmapImportStep(c, f), x) + ForClient(Idle, x) + ForClient(Idle, x) /\ CHeld(x) \in Nat
          BY <1>1, <1>2, <1>3, <1>7, <3>1, PendingNat DEF Delta
        <5>2. QED BY <1>1, <1>2, <1>3, <1>7, <3>1, <5>1 DEF ForClient, Bit, MmapImportStep, Idle
      <4>4. \A x \in Clients : CGone(x)' = CGone(x)
        <5> TAKE x \in Clients
        <5>1. CGone(x)' = CGone(x) - ForCGone(Arg(t), x) + ForCGone(MmapImportStep(c, f), x) + ForCGone(Idle, x) + ForCGone(Idle, x) /\ CGone(x) \in Nat
          BY <1>1, <1>2, <1>3, <1>7, <3>1, PendingNat DEF Delta
        <5>2. QED BY <1>1, <1>2, <1>3, <1>7, <3>1, <5>1 DEF ForCGone, Bit, MmapImportStep, Idle
      <4>5. \A x \in Handles : HHeld(x)' = HHeld(x)
        <5> TAKE x \in Handles
        <5>1. HHeld(x)' = HHeld(x) - ForHandle(Arg(t), x) + ForHandle(MmapImportStep(c, f), x) + ForHandle(Idle, x) + ForHandle(Idle, x) /\ HHeld(x) \in Nat
          BY <1>1, <1>2, <1>3, <1>7, <3>1, PendingNat DEF Delta
        <5>2. QED BY <1>1, <1>2, <1>3, <1>7, <3>1, <5>1 DEF ForHandle, Bit, MmapImportStep, Idle
      <4>6. \A x \in Handles : HGone(x)' = HGone(x)
        <5> TAKE x \in Handles
        <5>1. HGone(x)' = HGone(x) - ForHGone(Arg(t), x) + ForHGone(MmapImportStep(c, f), x) + ForHGone(Idle, x) + ForHGone(Idle, x) /\ HGone(x) \in Nat
          BY <1>1, <1>2, <1>3, <1>7, <3>1, PendingNat DEF Delta
        <5>2. QED BY <1>1, <1>2, <1>3, <1>7, <3>1, <5>1 DEF ForHGone, Bit, MmapImportStep, Idle
      <4>7. \A g \in Files : FHeld(g)' = FHeld(g)
        <5> TAKE g \in Files
        <5>1. FHeld(g)' = FHeld(g) - ForFile(Arg(t), g) + ForFile(MmapImportStep(c, f), g) + ForFile(Idle, g) + ForFile(Idle, g) /\ FHeld(g) \in Nat
          BY <1>1, <1>2, <1>3, <1>7, <3>1, PendingNat DEF Delta
        <5>2. QED BY <1>1, <1>2, <1>3, <1>7, <3>1, <5>1 DEF ForFile, Bit, MmapImportStep, Idle
      <4> QED BY <4>1, <4>2, <4>3, <4>4, <4>5, <4>6, <4>7
    <3> QED BY <3>1, <3>2
  <2>2. CASE Then(t, <<CPut(c), FPut(f)>>)
    <3>1. /\ Stacks' /\ Replaced(t, 1, 2) /\ work'[t][1] = CPut(c) /\ work'[t][2] = FPut(f)
          /\ Delta(Arg(t), CPut(c), FPut(f), Idle)
      <4> HIDE DEF CPut, FPut, Idle
      <4> QED BY <1>1, <1>2, <1>10, <2>2, StepTo2
    <3>2. /\ \A x \in Bufs : BPuts(x)' = BPuts(x) /\ BGone(x)' = BGone(x)
          /\ \A x \in Clients : CHeld(x)' = CHeld(x) + Bit(x = c) /\ CGone(x)' = CGone(x)
          /\ \A x \in Handles : HHeld(x)' = HHeld(x) /\ HGone(x)' = HGone(x)
          /\ \A g \in Files : FHeld(g)' = FHeld(g)
      <4>1. \A x \in Bufs : BPuts(x)' = BPuts(x)
        <5> TAKE x \in Bufs
        <5>1. BPuts(x)' = BPuts(x) - ForBPut(Arg(t), x) + ForBPut(CPut(c), x) + ForBPut(FPut(f), x) + ForBPut(Idle, x) /\ BPuts(x) \in Nat
          BY <1>1, <1>2, <1>3, <1>7, <3>1, PendingNat DEF Delta
        <5>2. QED BY <1>1, <1>2, <1>3, <1>7, <3>1, <5>1 DEF ForBPut, Bit, CPut, FPut, Idle
      <4>2. \A x \in Bufs : BGone(x)' = BGone(x)
        <5> TAKE x \in Bufs
        <5>1. BGone(x)' = BGone(x) - ForBGone(Arg(t), x) + ForBGone(CPut(c), x) + ForBGone(FPut(f), x) + ForBGone(Idle, x) /\ BGone(x) \in Nat
          BY <1>1, <1>2, <1>3, <1>7, <3>1, PendingNat DEF Delta
        <5>2. QED BY <1>1, <1>2, <1>3, <1>7, <3>1, <5>1 DEF ForBGone, Bit, CPut, FPut, Idle
      <4>3. \A x \in Clients : CHeld(x)' = CHeld(x) + Bit(x = c)
        <5> TAKE x \in Clients
        <5>1. CHeld(x)' = CHeld(x) - ForClient(Arg(t), x) + ForClient(CPut(c), x) + ForClient(FPut(f), x) + ForClient(Idle, x) /\ CHeld(x) \in Nat
          BY <1>1, <1>2, <1>3, <1>7, <3>1, PendingNat DEF Delta
        <5>2. QED BY <1>1, <1>2, <1>3, <1>7, <3>1, <5>1 DEF ForClient, Bit, CPut, FPut, Idle
      <4>4. \A x \in Clients : CGone(x)' = CGone(x)
        <5> TAKE x \in Clients
        <5>1. CGone(x)' = CGone(x) - ForCGone(Arg(t), x) + ForCGone(CPut(c), x) + ForCGone(FPut(f), x) + ForCGone(Idle, x) /\ CGone(x) \in Nat
          BY <1>1, <1>2, <1>3, <1>7, <3>1, PendingNat DEF Delta
        <5>2. QED BY <1>1, <1>2, <1>3, <1>7, <3>1, <5>1 DEF ForCGone, Bit, CPut, FPut, Idle
      <4>5. \A x \in Handles : HHeld(x)' = HHeld(x)
        <5> TAKE x \in Handles
        <5>1. HHeld(x)' = HHeld(x) - ForHandle(Arg(t), x) + ForHandle(CPut(c), x) + ForHandle(FPut(f), x) + ForHandle(Idle, x) /\ HHeld(x) \in Nat
          BY <1>1, <1>2, <1>3, <1>7, <3>1, PendingNat DEF Delta
        <5>2. QED BY <1>1, <1>2, <1>3, <1>7, <3>1, <5>1 DEF ForHandle, Bit, CPut, FPut, Idle
      <4>6. \A x \in Handles : HGone(x)' = HGone(x)
        <5> TAKE x \in Handles
        <5>1. HGone(x)' = HGone(x) - ForHGone(Arg(t), x) + ForHGone(CPut(c), x) + ForHGone(FPut(f), x) + ForHGone(Idle, x) /\ HGone(x) \in Nat
          BY <1>1, <1>2, <1>3, <1>7, <3>1, PendingNat DEF Delta
        <5>2. QED BY <1>1, <1>2, <1>3, <1>7, <3>1, <5>1 DEF ForHGone, Bit, CPut, FPut, Idle
      <4>7. \A g \in Files : FHeld(g)' = FHeld(g)
        <5> TAKE g \in Files
        <5>1. FHeld(g)' = FHeld(g) - ForFile(Arg(t), g) + ForFile(CPut(c), g) + ForFile(FPut(f), g) + ForFile(Idle, g) /\ FHeld(g) \in Nat
          BY <1>1, <1>2, <1>3, <1>7, <3>1, PendingNat DEF Delta
        <5>2. QED BY <1>1, <1>2, <1>3, <1>7, <3>1, <5>1 DEF ForFile, Bit, CPut, FPut, Idle
      <4> QED BY <4>1, <4>2, <4>3, <4>4, <4>5, <4>6, <4>7
    <3> QED BY <3>1, <3>2
  <2> QED BY <1>6, <2>1, <2>2
<1>12. /\ TypeOK' /\ BufferLedger' /\ HandleLedger' /\ FileLedger' /\ Objects'
       /\ HandlesKept /\ ClientsKept /\ FilesKept
       /\ \A x \in Clients : CFiles(x)' = CFiles(x) /\ CAreas(x)' = CAreas(x)
       /\ client'[c].ref = n /\ client'[c].state = client[c].state /\ client'[c].task = client[c].task
       /\ \A x \in Clients \ {c} : client'[x] = client[x]
  BY <1>1, <1>7, <1>9, <1>11, OnlyClientRefChanges
<1>13. ClientLedger'
  <2> SUFFICES ASSUME NEW x \in Clients PROVE ClientLine(x)'
    BY DEF ClientLedger
  <2>1. CASE x = c
    <3>1. CHeld(x)' = CHeld(x) + 1
      BY <1>11, <2>1 DEF Bit
    <3>2. client'[x].ref = client[x].ref + 1 /\ client'[x].ref # 0 /\ client'[x].state = "live"
      BY <1>7, <1>9, <1>12, <2>1
    <3> QED BY <1>7, <1>8, <1>11, <1>12, <2>1, <3>1, <3>2 DEF ClientLine, Bit
  <2>2. CASE x # c
    <3>1. CHeld(x)' = CHeld(x)
      BY <1>8, <1>11, <2>2 DEF Bit
    <3> QED BY <1>8, <1>11, <1>12, <2>2, <3>1 DEF ClientLine
  <2> QED BY <2>1, <2>2
<1>14. StepFits(t, MmapImportStep(c, f))' /\ StepFits(t, CPut(c))' /\ StepFits(t, FPut(f))'
  <2>1. client'[c].state = "live" /\ client'[c].task = Proc[t] /\ file' = file
    BY <1>1, <1>7, <1>12
  <2> QED BY <1>4, <2>1 DEF StepFits, MmapImportStep, CPut, FPut
<1>15. Fits' /\ Shape'
  <2>1. CASE Replaced(t, 1, 1) /\ work'[t][1] = MmapImportStep(c, f)
    <3>1. MmapImportStep(c, f).op = "mmapImport" /\ "mmapLookup" \in Single /\ "mmapLookup" \notin Putting
      BY DEF MmapImportStep, Single, Putting
    <3> HIDE DEF MmapImportStep, Idle
    <3> QED BY <1>1, <1>10, <1>11, <1>12, <1>14, <2>1, <3>1, Step1Comes
  <2>2. CASE Replaced(t, 1, 2) /\ work'[t][1] = CPut(c) /\ work'[t][2] = FPut(f)
    <3>1. /\ CPut(c).op = "cput" /\ "cput" \notin Single /\ "mmapLookup" \notin Putting
          /\ Waits(FPut(f))
      BY DEF CPut, FPut, Waits, Single, Putting
    <3> HIDE DEF CPut, FPut, Idle
    <3> QED BY <1>1, <1>10, <1>11, <1>12, <1>14, <2>2, <3>1, Step2Comes
  <2> QED BY <1>11, <2>1, <2>2
<1> QED BY <1>12, <1>13, <1>15 DEF IInv
-----------------------------------------------------------------------------
(* System calls.                                                           *)

(* A file a process has open is there, and so is what it points to.        *)
LEMMA OpenFile ==
  ASSUME IInv, NEW p \in Procs, NEW f \in fds[p]
  PROVE  /\ f \in Files /\ FFds(f) # 0 /\ file[f].ref # 0 /\ file[f].state = "live"
         /\ file[f].kind \in {"dev", "share"}
         /\ file[f].kind = "dev" =>
              /\ file[f].obj \in Clients /\ file[f].obj # Null /\ CFiles(file[f].obj) # 0
              /\ client[file[f].obj].state = "live" /\ client[file[f].obj].task = p
         /\ file[f].kind = "share" =>
              /\ file[f].obj \in Bufs /\ OnFiles(file[f].obj) # 0 /\ buffer[file[f].obj].state = "live"
<1>1. f \in Files
  BY Typed DEF IInv
<1>2. FFds(f) # 0
  <2>1. p \in FdHolders(f)
    BY DEF FdHolders
  <2> QED BY <1>1, <2>1, FiniteCounts
<1>3. file[f].ref # 0 /\ file[f].state = "live" /\ file[f].kind # "none"
  BY <1>1, <1>2, FileThere
<1>4. file[f].kind \in {"dev", "share"}
  BY <1>1, <1>3, Typed DEF IInv
<1>5. ASSUME file[f].kind = "dev"
      PROVE  /\ file[f].obj \in Clients /\ file[f].obj # Null /\ CFiles(file[f].obj) # 0
             /\ client[file[f].obj].state = "live" /\ client[file[f].obj].task = p
  <2>1. PICK c : c = file[f].obj
    OBVIOUS
  <2>2. FdSound(p, f) /\ FileSound(f)
    BY <1>1 DEF IInv, Objects
  <2>3. c # Null /\ c \in Clients /\ client[c].task = p
    BY <1>5, <2>1, <2>2 DEF FdSound, FileSound
  <2>4. f \in ClientFiles(c)
    BY <1>1, <1>3, <1>5, <2>1 DEF ClientFiles
  <2>5. CFiles(c) # 0
    BY <2>3, <2>4, FiniteCounts
  <2> QED BY <2>1, <2>3, <2>5, ClientThere
<1>6. ASSUME file[f].kind = "share"
      PROVE  /\ file[f].obj \in Bufs /\ OnFiles(file[f].obj) # 0
             /\ buffer[file[f].obj].state = "live"
  <2>1. PICK b : b = file[f].obj
    OBVIOUS
  <2>2. b \in Bufs
    BY <1>1, <1>6, <2>1, Typed DEF IInv
  <2>3. f \in BufferFiles(b)
    BY <1>1, <1>3, <1>6, <2>1 DEF BufferFiles
  <2>4. OnFiles(b) # 0
    BY <2>2, <2>3, FiniteCounts
  <2> QED BY <2>1, <2>2, <2>4, BufferThere
<1> QED BY <1>1, <1>2, <1>3, <1>4, <1>5, <1>6

(* A process of one thread that begins a call, or imports, finds in its    *)
(* client's tree only handles that are not being destroyed.                *)
LEMMA OwnHandle ==
  ASSUME IInv, OneThreadEach, NEW t \in Threads,
         work[t] = <<>> \/ (work[t] # <<>> /\ Arg(t).op \in {"import", "mmapImport"}),
         NEW c \in Clients, client[c].task = Proc[t], NEW h \in Tree(c)
  PROVE  /\ h \in Handles /\ handle[h].state = "live" /\ handle[h].client = c
         /\ handle[h].buf \in Bufs /\ OnHandles(handle[h].buf) # 0
         /\ buffer[handle[h].buf].state = "live" /\ Owner(h) = Proc[t]
<1>1. h \in Handles /\ handle[h].client = c /\ c # Null /\ Owner(h) = Proc[t]
  BY DEF Tree, Owner, Clients, Null
<1>2. HandleSound(h) /\ HandleLine(h)
  BY <1>1 DEF IInv, Objects, HandleLedger
<1>3. handle[h].state \in {"live", "dying"} /\ handle[h].buf \in Bufs
  BY <1>1, <1>2 DEF HandleSound
<1>4. HGone(h) = 0
  <2> SUFFICES ASSUME HGone(h) # 0 PROVE FALSE
    OBVIOUS
  <2>1. PICK u \in Threads : \E i \in 1 .. Len(work[u]) : work[u][i].op = "herase" /\ Owner(h) = Proc[u]
    BY <1>1, StepOwner
  <2>2. u = t
    BY <1>1, <2>1 DEF OneThreadEach
  <2>3. PICK i \in 1 .. Len(work[t]) : work[t][i].op = "herase"
    BY <2>1, <2>2
  <2>4. CASE work[t] = <<>>
    <3>1. Len(work[t]) = 0
      BY <2>4, EmptySeq
    <3> QED BY <2>3, <3>1
  <2>5. CASE work[t] # <<>> /\ Arg(t).op \in {"import", "mmapImport"}
    <3>1. Arg(t) = work[t][1]
      BY <2>5, TopFits
    <3>2. ~Waits(work[t][i])
      BY <2>3 DEF Waits
    <3>3. i = 1 \/ work[t][1].op \in {"bput", "bdestroy"}
      BY <2>3, <3>2, UnderTop
    <3> QED BY <2>3, <2>5, <3>1, <3>3
  <2> QED BY <2>4, <2>5
<1>5. handle[h].state = "live"
  BY <1>2, <1>3, <1>4 DEF HandleLine, Bit
<1>6. PICK b \in Bufs : b = handle[h].buf
  BY <1>3
<1>7. h \in BufferHandles(b)
  BY <1>1, <1>5, <1>6 DEF BufferHandles
<1>8. OnHandles(b) # 0
  BY <1>7, FiniteCounts
<1>9. buffer[b].state = "live"
  BY <1>8, BufferThere
<1> QED BY <1>1, <1>3, <1>5, <1>6, <1>8, <1>9

(* References on open files are taken, and files passed on.                *)
LEMMA OnlyFileRefs ==
  ASSUME IInv, UNCHANGED <<handle, client, vma>>,
         \A f \in Files : /\ file'[f].state = file[f].state /\ file'[f].kind = file[f].kind
                          /\ file'[f].obj = file[f].obj,
         \A f \in Files : file[f].kind = "dev" /\ file[f].obj = Null => file'[f].ref = file[f].ref,
         \A p \in Procs, f \in Files : f \in fds'[p] /\ file[f].kind = "dev" => f \in fds[p]
  PROVE  /\ \A f \in Files : SharesBuffer(f)'
         /\ \A b \in Bufs : OnHandles(b)' = OnHandles(b) /\ OnFiles(b)' = OnFiles(b)
         /\ \A c \in Clients : CFiles(c)' = CFiles(c) /\ CAreas(c)' = CAreas(c)
         /\ \A h \in Handles : HAreas(h)' = HAreas(h) /\ Owner(h)' = Owner(h)
         /\ \A f \in Files : FAreas(f)' = FAreas(f)
         /\ Objects' /\ HandlesKept /\ ClientsKept /\ FilesKept
<1>1. \A f \in Files : SharesBuffer(f)'
  BY Typed DEF IInv, SharesBuffer
<1>2. /\ \A b \in Bufs : OnHandles(b)' = OnHandles(b)
      /\ \A c \in Clients : CAreas(c)' = CAreas(c)
      /\ \A h \in Handles : HAreas(h)' = HAreas(h)
      /\ \A f \in Files : FAreas(f)' = FAreas(f)
  BY SameHandles, SameAreas
<1>3. \A b \in Bufs : OnFiles(b)' = OnFiles(b)
  <2> TAKE b \in Bufs
  <2>1. BufferFiles(b)' = BufferFiles(b)
    BY DEF BufferFiles
  <2> QED BY <2>1 DEF OnFiles
<1>4. \A c \in Clients : CFiles(c)' = CFiles(c)
  <2> TAKE c \in Clients
  <2>1. ClientFiles(c)' = ClientFiles(c)
    BY DEF ClientFiles
  <2> QED BY <2>1 DEF CFiles
<1>5. \A h \in Handles : Owner(h)' = Owner(h)
  BY DEF Owner
<1>6. Objects'
  <2>1. \A h \in Handles : HandleSound(h)'
    BY DEF IInv, Objects, HandleSound
  <2>2. \A c \in Clients : ClientSound(c)'
    BY DEF IInv, Objects, ClientSound
  <2>3. \A f \in Files : FileSound(f)'
    <3> TAKE f \in Files
    <3>1. FileSound(f)
      BY DEF IInv, Objects
    <3> QED BY <3>1 DEF FileSound
  <2>4. \A p \in Procs, f \in Files : FdSound(p, f)'
    BY DEF IInv, Objects, FdSound
  <2>5. \A v \in Vmas : AreaSound(v)'
    <3> TAKE v \in Vmas
    <3>1. AreaSound(v)
      BY DEF IInv, Objects
    <3> QED BY <1>5, <3>1 DEF AreaSound
  <2> QED BY <2>1, <2>2, <2>3, <2>4, <2>5 DEF Objects
<1>7. HandlesKept /\ ClientsKept /\ FilesKept
  BY DEF HandlesKept, ClientsKept, FilesKept
<1> QED BY <1>1, <1>2, <1>3, <1>4, <1>5, <1>6, <1>7

(* The count of a file that is there grows with its references.            *)
LEMMA FileLedgerGrows ==
  ASSUME IInv, \A f \in Files : file'[f].state = file[f].state,
         \A f \in Files : \E d \in Nat :
           /\ file'[f].ref = file[f].ref + d
           /\ FFds(f)' + FAreas(f)' + FHeld(f)' = FFds(f) + FAreas(f) + FHeld(f) + d
           /\ d # 0 => file[f].state = "live"
  PROVE  FileLedger'
<1> SUFFICES ASSUME NEW f \in Files PROVE FileLine(f)'
  BY DEF FileLedger
<1>1. FileLine(f) /\ file[f].ref \in Nat
  BY Typed DEF IInv, FileLedger
<1>2. PICK d \in Nat : /\ file'[f].ref = file[f].ref + d
                       /\ FFds(f)' + FAreas(f)' + FHeld(f)' = FFds(f) + FAreas(f) + FHeld(f) + d
                       /\ d # 0 => file[f].state = "live"
  OBVIOUS
<1>3. file'[f].ref = FFds(f)' + FAreas(f)' + FHeld(f)'
  BY <1>1, <1>2 DEF FileLine
<1>4. file'[f].state = "live" <=> file'[f].ref # 0
  <2>1. CASE d = 0
    BY <1>1, <1>2, <2>1 DEF FileLine
  <2>2. CASE d # 0
    <3>1. file'[f].ref # 0
      BY <1>1, <1>2, <2>2
    <3> QED BY <1>2, <2>2, <3>1
  <2> QED BY <2>1, <2>2
<1> QED BY <1>3, <1>4 DEF FileLine
(* A call of one step begins and ends at once. *)
LEMMA Call0Comes ==
  ASSUME IInv, Stacks', HandlesKept, ClientsKept, FilesKept,
         NEW t \in Threads, work[t] = <<>>, work' = work
  PROVE  Fits' /\ Shape'
<1>1. Replaced(t, 0, 0)
  BY StackOf, Typed DEF Replaced, Stacks, IInv
<1>2. Len(work'[t]) = 0
  BY EmptySeq
<1>3. Fits'
  BY <1>1, <1>2, FitsKept
<1>4. Below2(t)' /\ Alone(t)' /\ ImportHolds(t)'
  BY <1>2 DEF Below2, Alone, ImportHolds
<1>5. Shape'
  BY <1>1, <1>4, ShapeKept
<1> QED BY <1>3, <1>5

(* One file gets one more reference. *)
LEMMA PinIs ==
  ASSUME IInv, NEW f \in Files, file[f].ref # 0, file[f].kind = "dev" => file[f].obj # Null, Pin(f)
  PROVE  /\ file' \in AllFiles
         /\ \A g \in Files : /\ file'[g].state = file[g].state /\ file'[g].kind = file[g].kind
                             /\ file'[g].obj = file[g].obj
                             /\ file'[g].ref = file[g].ref + Bit(g = f)
                             /\ g = f => file[g].state = "live"
         /\ \A g \in Files : file[g].kind = "dev" /\ file[g].obj = Null => file'[g].ref = file[g].ref
<1>1. file \in AllFiles /\ FileLine(f)
  BY TypeParts DEF IInv, FileLedger
<1>2. \A g \in Files : file[g].ref \in Nat
  BY Typed DEF IInv
<1> DEFINE r == [file[f] EXCEPT !.ref = @ + 1]
<1>3. file[f] \in FileRecs /\ file[f].ref + 1 \in Nat
  BY <1>1, <1>2 DEF AllFiles
<1>4. /\ r \in FileRecs /\ r.state = file[f].state /\ r.kind = file[f].kind /\ r.obj = file[f].obj
      /\ r.ref = file[f].ref + 1
  BY <1>3 DEF FileRecs
<1>5. file' = [file EXCEPT ![f] = r]
  BY DEF Pin
<1> HIDE DEF r
<1>6. file' \in AllFiles /\ file'[f] = r /\ \A g \in Files \ {f} : file'[g] = file[g]
  BY <1>1, <1>4, <1>5, FileSet
<1>7. file[f].state = "live"
  BY <1>1 DEF FileLine
<1>8. \A g \in Files : file'[g].ref = file[g].ref + Bit(g = f)
  <2> TAKE g \in Files
  <2>1. CASE g = f
    <3>1. Bit(g = f) = 1
      BY <2>1 DEF Bit
    <3> QED BY <1>4, <1>6, <2>1, <3>1
  <2>2. CASE g # f
    <3>1. Bit(g = f) = 0
      BY <2>2 DEF Bit
    <3> QED BY <1>2, <1>6, <2>2, <3>1
  <2> QED BY <2>1, <2>2
<1>9. \A g \in Files : /\ file'[g].state = file[g].state /\ file'[g].kind = file[g].kind
                       /\ file'[g].obj = file[g].obj
  BY <1>4, <1>6
<1>10. \A g \in Files : file[g].kind = "dev" /\ file[g].obj = Null => file'[g].ref = file[g].ref
  BY <1>6
<1> QED BY <1>6, <1>7, <1>8, <1>9, <1>10

(* mmap of a shared file begins. *)
LEMMA MmapKeeps ==
  ASSUME IInv, NEW t \in Threads, NEW f \in Files, Mmap(t, f) PROVE IInv'
<1>1. /\ f \in fds[Proc[t]] /\ file[f].kind = "share" /\ Pin(f)
      /\ UNCHANGED <<buffer, handle, client, root, spinning, fds, vma, uref>>
  BY DEF Mmap, ShareFds, objects
<1>2. PICK p \in Procs : p = Proc[t]
  BY Typed DEF IInv
<1>3. file[f].ref # 0
  BY <1>1, <1>2, OpenFile
<1>4. PICK q \in Clients \cup {Null} : q = root
  BY TypeParts DEF IInv
<1>5. Call(t, <<MmapLookup(q, f)>>) /\ MmapLookup(q, f) \in Steps
  BY <1>4, FormSteps DEF Mmap, MmapLookup
<1>6. Stacks
  BY Typed DEF IInv
<1>7. /\ work[t] = <<>> /\ Stacks' /\ Replaced(t, 0, 1) /\ work'[t] = <<MmapLookup(q, f)>>
      /\ Delta(Idle, MmapLookup(q, f), Idle, Idle)
  <2> HIDE DEF MmapLookup, Idle
  <2> QED BY <1>5, <1>6, CallOf1
<1>8. /\ \A x \in Bufs : BPuts(x)' = BPuts(x) /\ BGone(x)' = BGone(x)
      /\ \A x \in Clients : CHeld(x)' = CHeld(x) /\ CGone(x)' = CGone(x)
      /\ \A x \in Handles : HHeld(x)' = HHeld(x) /\ HGone(x)' = HGone(x)
      /\ \A g \in Files : FHeld(g)' = FHeld(g) + Bit(g = f)
  BY <1>6, <1>7, PendingNat
     DEF Delta, ForBPut, ForBGone, ForClient, ForCGone, ForHandle, ForHGone, ForFile, Bit, Idle, MmapLookup
<1>9. /\ file' \in AllFiles
      /\ \A g \in Files : /\ file'[g].state = file[g].state /\ file'[g].kind = file[g].kind
                          /\ file'[g].obj = file[g].obj
                          /\ file'[g].ref = file[g].ref + Bit(g = f)
                          /\ g = f => file[g].state = "live"
      /\ \A g \in Files : file[g].kind = "dev" /\ file[g].obj = Null => file'[g].ref = file[g].ref
  BY <1>1, <1>3, PinIs
<1>10. /\ \A g \in Files : SharesBuffer(g)'
       /\ \A b \in Bufs : OnHandles(b)' = OnHandles(b) /\ OnFiles(b)' = OnFiles(b)
       /\ \A c \in Clients : CFiles(c)' = CFiles(c) /\ CAreas(c)' = CAreas(c)
       /\ \A h \in Handles : HAreas(h)' = HAreas(h) /\ Owner(h)' = Owner(h)
       /\ \A g \in Files : FAreas(g)' = FAreas(g)
       /\ Objects' /\ HandlesKept /\ ClientsKept /\ FilesKept
  BY <1>1, <1>9, OnlyFileRefs
<1>11. TypeOK'
  BY <1>1, <1>7, <1>9, <1>10, TypeParts, TypePartsNext DEF IInv
<1>12. BufferLedger'
  BY <1>1, <1>8, <1>10 DEF IInv, BufferLedger, BufferLine
<1>13. ClientLedger'
  BY <1>1, <1>8, <1>10 DEF IInv, ClientLedger, ClientLine
<1>14. HandleLedger'
  BY <1>1, <1>8, <1>10 DEF IInv, HandleLedger, HandleLine, Uses
<1>15. FileLedger'
  <2>1. \A g \in Files : Bit(g = f) \in Nat /\ (Bit(g = f) # 0 => g = f)
    BY DEF Bit
  <2>2. \A g \in Files : FFds(g)' = FFds(g) /\ FFds(g) \in Nat /\ FAreas(g) \in Nat /\ FHeld(g) \in Nat
    BY <1>1, SameFds, CountsNat
  <2>3. \A g \in Files : FFds(g)' + FAreas(g)' + FHeld(g)' = FFds(g) + FAreas(g) + FHeld(g) + Bit(g = f)
    BY <1>8, <1>10, <2>1, <2>2
  <2> QED BY <1>9, <2>1, <2>3, FileLedgerGrows
<1>16. StepFits(t, MmapLookup(q, f))'
  BY <1>1, <1>9 DEF StepFits, MmapLookup
<1>17. Fits' /\ Shape'
  <2>1. MmapLookup(q, f).op = "mmapLookup"
    BY DEF MmapLookup
  <2> HIDE DEF MmapLookup, Idle
  <2> QED BY <1>5, <1>7, <1>10, <1>16, <2>1, Call1Comes
<1> QED BY <1>10, <1>11, <1>12, <1>13, <1>14, <1>15, <1>17 DEF IInv
(* A shared file is passed on. *)
LEMMA PassFdKeeps ==
  ASSUME IInv, NEW t \in Threads, NEW p \in Procs, NEW f \in Files, PassFd(t, p, f) PROVE IInv'
<1>1. /\ f \in fds[Proc[t]] /\ file[f].kind = "share" /\ Pin(f) /\ f \notin fds[p] /\ Install(p, f)
      /\ UNCHANGED <<buffer, handle, client, root, spinning, vma, uref>>
      /\ Call(t, <<>>)
  BY DEF PassFd, ShareFds, objects
<1>2. PICK q \in Procs : q = Proc[t]
  BY Typed DEF IInv
<1>3. file[f].ref # 0
  BY <1>1, <1>2, OpenFile
<1>4. Stacks /\ fds \in AllFds
  BY TypeParts DEF IInv
<1>5. work[t] = <<>> /\ work' = work /\ Stacks' /\ Delta(Idle, Idle, Idle, Idle)
  <2> HIDE DEF Idle
  <2> QED BY <1>1, <1>4, CallAndReturn
<1>6. /\ \A x \in Bufs : BPuts(x)' = BPuts(x) /\ BGone(x)' = BGone(x)
      /\ \A x \in Clients : CHeld(x)' = CHeld(x) /\ CGone(x)' = CGone(x)
      /\ \A x \in Handles : HHeld(x)' = HHeld(x) /\ HGone(x)' = HGone(x)
      /\ \A g \in Files : FHeld(g)' = FHeld(g)
  BY <1>4, <1>5, PendingNat
     DEF Delta, ForBPut, ForBGone, ForClient, ForCGone, ForHandle, ForHGone, ForFile, Bit, Idle
<1>7. fds' \in AllFds /\ fds'[p] = fds[p] \cup {f} /\ \A x \in Procs \ {p} : fds'[x] = fds[x]
  BY <1>1, <1>4 DEF AllFds, Install
<1>8. \A x \in Procs, g \in Files : g \in fds'[x] /\ file[g].kind = "dev" => g \in fds[x]
  BY <1>1, <1>7
<1>9. /\ file' \in AllFiles
      /\ \A g \in Files : /\ file'[g].state = file[g].state /\ file'[g].kind = file[g].kind
                          /\ file'[g].obj = file[g].obj
                          /\ file'[g].ref = file[g].ref + Bit(g = f)
                          /\ g = f => file[g].state = "live"
      /\ \A g \in Files : file[g].kind = "dev" /\ file[g].obj = Null => file'[g].ref = file[g].ref
  BY <1>1, <1>3, PinIs
<1>10. /\ \A g \in Files : SharesBuffer(g)'
       /\ \A b \in Bufs : OnHandles(b)' = OnHandles(b) /\ OnFiles(b)' = OnFiles(b)
       /\ \A c \in Clients : CFiles(c)' = CFiles(c) /\ CAreas(c)' = CAreas(c)
       /\ \A h \in Handles : HAreas(h)' = HAreas(h) /\ Owner(h)' = Owner(h)
       /\ \A g \in Files : FAreas(g)' = FAreas(g)
       /\ Objects' /\ HandlesKept /\ ClientsKept /\ FilesKept
  BY <1>1, <1>8, <1>9, OnlyFileRefs
<1>11. TypeOK'
  BY <1>1, <1>5, <1>7, <1>9, <1>10, TypeParts, TypePartsNext DEF IInv
<1>12. BufferLedger'
  BY <1>1, <1>6, <1>10 DEF IInv, BufferLedger, BufferLine
<1>13. ClientLedger'
  BY <1>1, <1>6, <1>10 DEF IInv, ClientLedger, ClientLine
<1>14. HandleLedger'
  BY <1>1, <1>6, <1>10 DEF IInv, HandleLedger, HandleLine, Uses
<1>15. FileLedger'
  <2>1. \A g \in Files : Bit(g = f) \in Nat /\ (Bit(g = f) # 0 => g = f)
    BY DEF Bit
  <2>2. \A g \in Files : FFds(g) \in Nat /\ FAreas(g) \in Nat /\ FHeld(g) \in Nat
    BY CountsNat
  <2>3. \A g \in Files : FFds(g)' = FFds(g) + Bit(g = f)
    <3> TAKE g \in Files
    <3>1. FFds(g)' = FFds(g) - Bit(g \in fds[p]) + Bit(g \in fds'[p])
      BY <1>7, FdChanges
    <3>2. CASE g = f
      <4>1. Bit(g \in fds[p]) = 0 /\ Bit(g \in fds'[p]) = 1 /\ Bit(g = f) = 1
        BY <1>1, <1>7, <3>2 DEF Bit
      <4> QED BY <2>2, <3>1, <4>1
    <3>3. CASE g # f
      <4>1. Bit(g \in fds[p]) = Bit(g \in fds'[p]) /\ Bit(g \in fds[p]) \in Nat /\ Bit(g = f) = 0
        BY <1>7, <3>3 DEF Bit
      <4> QED BY <2>2, <3>1, <4>1
    <3> QED BY <3>2, <3>3
  <2>4. \A g \in Files : FFds(g)' + FAreas(g)' + FHeld(g)' = FFds(g) + FAreas(g) + FHeld(g) + Bit(g = f)
    BY <1>6, <1>10, <2>1, <2>2, <2>3
  <2> QED BY <1>9, <2>1, <2>4, FileLedgerGrows
<1>16. Fits' /\ Shape'
  BY <1>5, <1>10, Call0Comes
<1> QED BY <1>10, <1>11, <1>12, <1>13, <1>14, <1>15, <1>16 DEF IInv

(* An allocation that finds no memory for a handle: a buffer with nothing  *)
(* but a put to come.                                                      *)
LEMMA AllocNoHandleKeeps ==
  ASSUME IInv, NEW t \in Threads, NEW f \in Files, AllocNoHandle(t, f) PROVE IInv'
<1>1. /\ f \in fds[Proc[t]] /\ file[f].kind = "dev" /\ Pin(f)
      /\ UNCHANGED <<handle, client, root, spinning, fds, vma, uref>>
  BY DEF AllocNoHandle, DevFds
<1>2. PICK p \in Procs : p = Proc[t]
  BY Typed DEF IInv
<1>3. file[f].ref # 0 /\ file[f].obj # Null /\ file[f].obj \in Clients /\ client[file[f].obj].task = Proc[t]
  BY <1>1, <1>2, OpenFile
<1> DEFINE r == [state |-> "live", ref |-> 1]
<1>4. PICK b \in Bufs : /\ buffer[b].state = "none" /\ buffer' = [buffer EXCEPT ![b] = r]
                        /\ Call(t, <<BPut(b), FPut(f)>>)
  BY DEF AllocNoHandle, IsFresh
<1>5. BPut(b) \in Steps /\ FPut(f) \in Steps /\ r \in BufferRecs /\ r.state = "live" /\ r.ref = 1
  BY FormSteps DEF BufferRecs
<1> HIDE DEF r
<1>6. Stacks /\ buffer \in AllBuffers
  BY TypeParts DEF IInv
<1>7. /\ work[t] = <<>> /\ Stacks' /\ Replaced(t, 0, 2) /\ work'[t] = <<BPut(b), FPut(f)>>
      /\ Delta(Idle, BPut(b), FPut(f), Idle)
  <2> HIDE DEF BPut, FPut, Idle
  <2> QED BY <1>4, <1>5, <1>6, CallOf2
<1>8. /\ \A x \in Bufs : BPuts(x)' = BPuts(x) + Bit(x = b) /\ BGone(x)' = BGone(x)
      /\ \A x \in Clients : CHeld(x)' = CHeld(x) /\ CGone(x)' = CGone(x)
      /\ \A x \in Handles : HHeld(x)' = HHeld(x) /\ HGone(x)' = HGone(x)
      /\ \A g \in Files : FHeld(g)' = FHeld(g) + Bit(g = f)
  BY <1>6, <1>7, PendingNat
     DEF Delta, ForBPut, ForBGone, ForClient, ForCGone, ForHandle, ForHGone, ForFile, Bit, Idle, BPut, FPut
<1>9. /\ file' \in AllFiles
      /\ \A g \in Files : /\ file'[g].state = file[g].state /\ file'[g].kind = file[g].kind
                          /\ file'[g].obj = file[g].obj
                          /\ file'[g].ref = file[g].ref + Bit(g = f)
                          /\ g = f => file[g].state = "live"
      /\ \A g \in Files : file[g].kind = "dev" /\ file[g].obj = Null => file'[g].ref = file[g].ref
  BY <1>1, <1>3, PinIs
<1>10. /\ \A g \in Files : SharesBuffer(g)'
       /\ \A x \in Bufs : OnHandles(x)' = OnHandles(x) /\ OnFiles(x)' = OnFiles(x)
       /\ \A c \in Clients : CFiles(c)' = CFiles(c) /\ CAreas(c)' = CAreas(c)
       /\ \A h \in Handles : HAreas(h)' = HAreas(h) /\ Owner(h)' = Owner(h)
       /\ \A g \in Files : FAreas(g)' = FAreas(g)
       /\ Objects' /\ HandlesKept /\ ClientsKept /\ FilesKept
  BY <1>1, <1>9, OnlyFileRefs
<1>11. buffer' \in AllBuffers /\ buffer'[b] = r /\ \A x \in Bufs \ {b} : buffer'[x] = buffer[x]
  BY <1>4, <1>5, <1>6, BufferSet
<1>12. TypeOK'
  BY <1>1, <1>7, <1>9, <1>10, <1>11, TypeParts, TypePartsNext DEF IInv
<1>13. BufferLedger'
  <2> SUFFICES ASSUME NEW x \in Bufs PROVE BufferLine(x)'
    BY DEF BufferLedger
  <2>1. /\ BufferLine(x) /\ OnHandles(x) \in Nat /\ OnFiles(x) \in Nat /\ BPuts(x) \in Nat
        /\ BGone(x) \in Nat /\ buffer[x].ref \in Nat
    BY CountsNat DEF IInv, BufferLedger
  <2>2. CASE x = b
    <3>1. OnHandles(x) = 0 /\ OnFiles(x) = 0 /\ BPuts(x) = 0 /\ BGone(x) = 0
      BY <1>4, <2>1, <2>2 DEF BufferLine, Bit
    <3>2. BPuts(x)' = 1
      BY <1>8, <2>2, <3>1 DEF Bit
    <3>3. buffer'[x].ref = 1 /\ buffer'[x].state = "live"
      BY <1>5, <1>11, <2>2
    <3> QED BY <1>8, <1>10, <3>1, <3>2, <3>3 DEF BufferLine, Bit
  <2>3. CASE x # b
    <3>1. BPuts(x)' = BPuts(x)
      BY <1>8, <2>1, <2>3 DEF Bit
    <3> QED BY <1>8, <1>10, <1>11, <2>1, <2>3, <3>1 DEF BufferLine
  <2> QED BY <2>2, <2>3
<1>14. ClientLedger'
  BY <1>1, <1>8, <1>10 DEF IInv, ClientLedger, ClientLine
<1>15. HandleLedger'
  BY <1>1, <1>8, <1>10 DEF IInv, HandleLedger, HandleLine, Uses
<1>16. FileLedger'
  <2>1. \A g \in Files : Bit(g = f) \in Nat /\ (Bit(g = f) # 0 => g = f)
    BY DEF Bit
  <2>2. \A g \in Files : FFds(g)' = FFds(g) /\ FFds(g) \in Nat /\ FAreas(g) \in Nat /\ FHeld(g) \in Nat
    BY <1>1, SameFds, CountsNat
  <2>3. \A g \in Files : FFds(g)' + FAreas(g)' + FHeld(g)' = FFds(g) + FAreas(g) + FHeld(g) + Bit(g = f)
    BY <1>8, <1>10, <2>1, <2>2
  <2> QED BY <1>9, <2>1, <2>3, FileLedgerGrows
<1>17. StepFits(t, BPut(b))' /\ StepFits(t, FPut(f))'
  BY <1>1, <1>3, <1>9 DEF StepFits, BPut, FPut
<1>18. Fits' /\ Shape'
  <2>1. BPut(b).op = "bput" /\ "bput" \notin Single /\ Waits(FPut(f))
    BY DEF BPut, FPut, Waits, Single
  <2> HIDE DEF BPut, FPut, Idle
  <2> QED BY <1>5, <1>7, <1>10, <1>17, <2>1, Call2Comes
<1> QED BY <1>10, <1>12, <1>13, <1>14, <1>15, <1>16, <1>18 DEF IInv
(* A file is closed: its number goes, a put of it comes. *)
LEMMA CloseKeeps ==
  ASSUME IInv, NEW t \in Threads, NEW f \in Files, Close(t, f) PROVE IInv'
<1>1. /\ f \in fds[Proc[t]] /\ Call(t, <<FPut(f)>>)
      /\ UNCHANGED <<buffer, handle, client, root, spinning, file, vma, uref>>
  BY DEF Close, objects
<1>2. PICK p \in Procs : p = Proc[t]
  BY Typed DEF IInv
<1>3. file[f].kind = "dev" => file[f].obj # Null /\ client[file[f].obj].task = Proc[t]
  BY <1>1, <1>2, OpenFile
<1>4. Stacks /\ fds \in AllFds /\ FPut(f) \in Steps
  BY TypeParts, FormSteps DEF IInv
<1>5. /\ work[t] = <<>> /\ Stacks' /\ Replaced(t, 0, 1) /\ work'[t] = <<FPut(f)>>
      /\ Delta(Idle, FPut(f), Idle, Idle)
  <2> HIDE DEF FPut, Idle
  <2> QED BY <1>1, <1>4, CallOf1
<1>6. /\ \A x \in Bufs : BPuts(x)' = BPuts(x) /\ BGone(x)' = BGone(x)
      /\ \A x \in Clients : CHeld(x)' = CHeld(x) /\ CGone(x)' = CGone(x)
      /\ \A x \in Handles : HHeld(x)' = HHeld(x) /\ HGone(x)' = HGone(x)
      /\ \A g \in Files : FHeld(g)' = FHeld(g) + Bit(g = f)
  BY <1>4, <1>5, PendingNat
     DEF Delta, ForBPut, ForBGone, ForClient, ForCGone, ForHandle, ForHGone, ForFile, Bit, Idle, FPut
<1>7. fds' \in AllFds /\ fds'[p] = fds[p] \ {f} /\ \A x \in Procs \ {p} : fds'[x] = fds[x]
  BY <1>2, <1>4 DEF AllFds, Close
<1>8. \A x \in Procs, g \in Files : g \in fds'[x] /\ file[g].kind = "dev" => g \in fds[x]
  BY <1>7
<1>9. /\ \A g \in Files : SharesBuffer(g)'
      /\ \A b \in Bufs : OnHandles(b)' = OnHandles(b) /\ OnFiles(b)' = OnFiles(b)
      /\ \A c \in Clients : CFiles(c)' = CFiles(c) /\ CAreas(c)' = CAreas(c)
      /\ \A h \in Handles : HAreas(h)' = HAreas(h) /\ Owner(h)' = Owner(h)
      /\ \A g \in Files : FAreas(g)' = FAreas(g)
      /\ Objects' /\ HandlesKept /\ ClientsKept /\ FilesKept
  BY <1>1, <1>8, OnlyFileRefs
<1>10. TypeOK'
  BY <1>1, <1>5, <1>7, <1>9, TypeParts, TypePartsNext DEF IInv
<1>11. BufferLedger'
  BY <1>1, <1>6, <1>9 DEF IInv, BufferLedger, BufferLine
<1>12. ClientLedger'
  BY <1>1, <1>6, <1>9 DEF IInv, ClientLedger, ClientLine
<1>13. HandleLedger'
  BY <1>1, <1>6, <1>9 DEF IInv, HandleLedger, HandleLine, Uses
<1>14. FileLedger'
  <2> SUFFICES ASSUME NEW g \in Files PROVE FileLine(g)'
    BY DEF FileLedger
  <2>1. FileLine(g) /\ FFds(g) \in Nat /\ FAreas(g) \in Nat /\ FHeld(g) \in Nat
    BY CountsNat DEF IInv, FileLedger
  <2>2. FFds(g)' = FFds(g) - Bit(g \in fds[p]) + Bit(g \in fds'[p])
    BY <1>7, FdChanges
  <2>3. FFds(g)' = FFds(g) - Bit(g = f)
    <3>1. CASE g = f
      <4>1. Bit(g \in fds[p]) = 1 /\ Bit(g \in fds'[p]) = 0 /\ Bit(g = f) = 1
        BY <1>1, <1>2, <1>7, <3>1 DEF Bit
      <4> QED BY <2>1, <2>2, <4>1
    <3>2. CASE g # f
      <4>1. Bit(g \in fds[p]) = Bit(g \in fds'[p]) /\ Bit(g \in fds[p]) \in Nat /\ Bit(g = f) = 0
        BY <1>7, <3>2 DEF Bit
      <4> QED BY <2>1, <2>2, <4>1
    <3> QED BY <3>1, <3>2
  <2>4. FFds(g)' + FAreas(g)' + FHeld(g)' = FFds(g) + FAreas(g) + FHeld(g)
    <3>1. Bit(g = f) \in Nat
      BY DEF Bit
    <3> QED BY <1>6, <1>9, <2>1, <2>3, <3>1
  <2>5. file'[g].ref = FFds(g)' + FAreas(g)' + FHeld(g)'
    BY <1>1, <2>1, <2>4 DEF FileLine
  <2> QED BY <1>1, <2>1, <2>5 DEF FileLine
<1>15. StepFits(t, FPut(f))'
  BY <1>1, <1>3 DEF StepFits, FPut
<1>16. Fits' /\ Shape'
  <2>1. FPut(f).op = "fput"
    BY DEF FPut
  <2> HIDE DEF FPut, Idle
  <2> QED BY <1>4, <1>5, <1>9, <1>15, <2>1, Call1Comes
<1> QED BY <1>9, <1>10, <1>11, <1>12, <1>13, <1>14, <1>16 DEF IInv

(* An open begins, with a file nothing referred to before. *)
LEMMA OpenKeeps ==
  ASSUME IInv, NEW t \in Threads, Open(t) PROVE IInv'
<1>1. UNCHANGED <<buffer, handle, client, root, spinning, fds, vma, uref>>
  BY DEF Open, objects
<1> DEFINE r == [state |-> "live", ref |-> 1, kind |-> "dev", obj |-> Null]
<1>2. PICK q \in Clients \cup {Null} : q = root
  BY TypeParts DEF IInv
<1>3. PICK f \in Files : /\ file[f].state = "none" /\ file' = [file EXCEPT ![f] = r]
                         /\ Call(t, <<OpenLookup(q, f)>>)
  BY <1>2 DEF Open, NewFile, IsFresh, OpenLookup
<1>4. /\ r \in FileRecs /\ r.state = "live" /\ r.ref = 1 /\ r.kind = "dev" /\ r.obj = Null
      /\ OpenLookup(q, f) \in Steps /\ Stacks
  BY FormSteps, Typed DEF FileRecs, IInv
<1> HIDE DEF r
<1>5. /\ work[t] = <<>> /\ Stacks' /\ Replaced(t, 0, 1) /\ work'[t] = <<OpenLookup(q, f)>>
      /\ Delta(Idle, OpenLookup(q, f), Idle, Idle)
  <2> HIDE DEF OpenLookup, Idle
  <2> QED BY <1>3, <1>4, CallOf1
<1>6. /\ \A x \in Bufs : BPuts(x)' = BPuts(x) /\ BGone(x)' = BGone(x)
      /\ \A x \in Clients : CHeld(x)' = CHeld(x) /\ CGone(x)' = CGone(x)
      /\ \A x \in Handles : HHeld(x)' = HHeld(x) /\ HGone(x)' = HGone(x)
      /\ \A g \in Files : FHeld(g)' = FHeld(g) + Bit(g = f)
  BY <1>4, <1>5, PendingNat
     DEF Delta, ForBPut, ForBGone, ForClient, ForCGone, ForHandle, ForHGone, ForFile, Bit, Idle, OpenLookup
<1>7. /\ file' \in AllFiles /\ \A g \in Files : SharesBuffer(g)'
      /\ file'[f] = r /\ \A g \in Files \ {f} : file'[g] = file[g]
      /\ \A b \in Bufs : OnFiles(b)' = OnFiles(b) - FileOn(file[f], b) + FileOn(r, b)
      /\ \A c \in Clients : CFiles(c)' = CFiles(c) - FileOf(file[f], c) + FileOf(r, c)
  BY <1>3, <1>4, OneFile
<1>8. \A g \in Files : /\ FileLine(g) /\ FileSound(g)
                       /\ FFds(g) \in Nat /\ FAreas(g) \in Nat /\ FHeld(g) \in Nat
  BY CountsNat DEF IInv, FileLedger, Objects
<1>9. FFds(f) = 0 /\ FAreas(f) = 0 /\ FHeld(f) = 0 /\ file[f].kind = "none"
  <2>1. file[f].ref = 0 /\ file[f].kind = "none"
    BY <1>3, <1>8 DEF FileLine, FileSound
  <2> QED BY <1>8, <2>1 DEF FileLine
<1>10. (\A p \in Procs : f \notin fds[p]) /\ \A v \in Vmas : vma[v].file # f
  <2>1. FdHolders(f) = {} /\ FileAreas(f) = {}
    BY <1>9, FiniteCounts
  <2> QED BY <2>1 DEF FdHolders, FileAreas
<1>11. TypeOK'
  BY <1>1, <1>5, <1>7, TypeParts, TypePartsNext DEF IInv
<1>12. \A g \in Files : FileSound(g)'
  <2> TAKE g \in Files
  <2>1. CASE g = f
    BY <1>4, <1>7, <2>1 DEF FileSound
  <2>2. CASE g # f
    BY <1>7, <1>8, <2>2 DEF FileSound
  <2> QED BY <2>1, <2>2
<1>13. \A p \in Procs, g \in Files : FdSound(p, g)'
  <2> TAKE p \in Procs, g \in Files
  <2>1. CASE g = f
    BY <1>1, <1>10, <2>1 DEF FdSound
  <2>2. CASE g # f
    <3>1. file'[g] = file[g] /\ FdSound(p, g)
      BY <1>7, <2>2 DEF IInv, Objects
    <3> QED BY <1>1, <3>1 DEF FdSound
  <2> QED BY <2>1, <2>2
<1>14. \A v \in Vmas : vma[v] # NoVma => file'[vma[v].file].kind = "share"
  BY <1>7, <1>10 DEF IInv, Objects, AreaSound
<1>15. \A c \in Clients : client'[c].intree => client[c].state = "live"
  BY <1>1 DEF IInv, Objects, ClientSound
<1>16. /\ HandleLedger' /\ Objects' /\ HandlesKept /\ ClientsKept
       /\ \A b \in Bufs : OnHandles(b)' = OnHandles(b)
       /\ \A c \in Clients : CAreas(c)' = CAreas(c)
       /\ \A g \in Files : FAreas(g)' = FAreas(g)
  BY <1>1, <1>6, <1>12, <1>13, <1>14, <1>15, FilesChange
<1>17. BufferLedger'
  <2>1. \A b \in Bufs : OnFiles(b)' = OnFiles(b)
    <3> TAKE b \in Bufs
    <3>1. FileOn(file[f], b) = 0 /\ FileOn(r, b) = 0 /\ OnFiles(b) \in Nat
      BY <1>3, <1>4, CountsNat DEF FileOn, Bit
    <3> QED BY <1>7, <3>1
  <2> QED BY <1>1, <1>6, <1>16, <2>1 DEF IInv, BufferLedger, BufferLine
<1>18. ClientLedger'
  <2>1. \A c \in Clients : CFiles(c)' = CFiles(c)
    <3> TAKE c \in Clients
    <3>1. FileOf(file[f], c) = 0 /\ FileOf(r, c) = 0 /\ CFiles(c) \in Nat
      BY <1>3, <1>4, CountsNat DEF FileOf, Bit, Clients, Null
    <3> QED BY <1>7, <3>1
  <2> QED BY <1>1, <1>6, <1>16, <2>1 DEF IInv, ClientLedger, ClientLine
<1>19. FileLedger'
  <2> SUFFICES ASSUME NEW g \in Files PROVE FileLine(g)'
    BY DEF FileLedger
  <2>1. FFds(g)' = FFds(g)
    BY <1>1, SameFds
  <2>2. CASE g = f
    <3>1. FHeld(g)' = 1
      BY <1>6, <1>9, <2>2 DEF Bit
    <3>2. file'[g].ref = 1 /\ file'[g].state = "live"
      BY <1>4, <1>7, <2>2
    <3> QED BY <1>9, <1>16, <2>1, <2>2, <3>1, <3>2 DEF FileLine
  <2>3. CASE g # f
    <3>1. FHeld(g)' = FHeld(g)
      BY <1>6, <1>8, <2>3 DEF Bit
    <3> QED BY <1>7, <1>8, <1>16, <2>1, <2>3, <3>1 DEF FileLine
  <2> QED BY <2>2, <2>3
<1>20. FilesKept
  BY <1>7, <1>9 DEF FilesKept
<1>21. StepFits(t, OpenLookup(q, f))'
  BY <1>4, <1>7 DEF StepFits, OpenLookup
<1>22. Fits' /\ Shape'
  <2>1. OpenLookup(q, f).op = "openLookup"
    BY DEF OpenLookup
  <2> HIDE DEF OpenLookup, Idle
  <2> QED BY <1>4, <1>5, <1>16, <1>20, <1>21, <2>1, Call1Comes
<1> QED BY <1>11, <1>16, <1>17, <1>18, <1>19, <1>22 DEF IInv
(* ION_IOC_FREE begins: a reference of the process is now the call's.      *)
LEMMA FreeKeeps ==
  ASSUME IInv, OneThreadEach, NEW t \in Threads, NEW f \in Files, NEW h \in Handles, Free(t, f, h)
  PROVE  IInv'
<1>1. /\ f \in fds[Proc[t]] /\ file[f].kind = "dev" /\ Pin(f)
      /\ UNCHANGED <<buffer, handle, client, root, spinning, fds, vma>>
  BY DEF Free, DevFds, objects
<1>2. PICK p \in Procs : p = Proc[t]
  BY Typed DEF IInv
<1>3. PICK c : c = file[f].obj
  OBVIOUS
<1>4. file[f].ref # 0 /\ c # Null /\ c \in Clients /\ client[c].task = Proc[t]
  BY <1>1, <1>2, <1>3, OpenFile
<1>5. /\ uref[p][h] > 0 /\ uref' = [uref EXCEPT ![p][h] = uref[p][h] - 1] /\ h \in Tree(c)
      /\ Call(t, <<FreeStep(c, h), FPut(f)>>)
  BY <1>2, <1>3 DEF Free, FreeStep
<1>6. FreeStep(c, h) \in Steps /\ FPut(f) \in Steps
  BY <1>4, FormSteps
<1>7. Stacks /\ uref \in AllUrefs /\ uref[p][h] \in Nat
  BY TypeParts, Typed DEF IInv
<1>8. /\ work[t] = <<>> /\ Stacks' /\ Replaced(t, 0, 2) /\ work'[t] = <<FreeStep(c, h), FPut(f)>>
      /\ Delta(Idle, FreeStep(c, h), FPut(f), Idle)
  <2> HIDE DEF FreeStep, FPut, Idle
  <2> QED BY <1>5, <1>6, <1>7, CallOf2
<1>9. /\ \A x \in Bufs : BPuts(x)' = BPuts(x) /\ BGone(x)' = BGone(x)
      /\ \A x \in Clients : CHeld(x)' = CHeld(x) /\ CGone(x)' = CGone(x)
      /\ \A x \in Handles : HHeld(x)' = HHeld(x) + Bit(x = h) /\ HGone(x)' = HGone(x)
      /\ \A g \in Files : FHeld(g)' = FHeld(g) + Bit(g = f)
  BY <1>7, <1>8, PendingNat
     DEF Delta, ForBPut, ForBGone, ForClient, ForCGone, ForHandle, ForHGone, ForFile, Bit, Idle, FreeStep, FPut
<1>10. /\ file' \in AllFiles
       /\ \A g \in Files : /\ file'[g].state = file[g].state /\ file'[g].kind = file[g].kind
                           /\ file'[g].obj = file[g].obj
                           /\ file'[g].ref = file[g].ref + Bit(g = f)
                           /\ g = f => file[g].state = "live"
       /\ \A g \in Files : file[g].kind = "dev" /\ file[g].obj = Null => file'[g].ref = file[g].ref
  BY <1>1, <1>3, <1>4, PinIs
<1>11. /\ \A g \in Files : SharesBuffer(g)'
       /\ \A x \in Bufs : OnHandles(x)' = OnHandles(x) /\ OnFiles(x)' = OnFiles(x)
       /\ \A x \in Clients : CFiles(x)' = CFiles(x) /\ CAreas(x)' = CAreas(x)
       /\ \A x \in Handles : HAreas(x)' = HAreas(x) /\ Owner(x)' = Owner(x)
       /\ \A g \in Files : FAreas(g)' = FAreas(g)
       /\ Objects' /\ HandlesKept /\ ClientsKept /\ FilesKept
  BY <1>1, <1>10, OnlyFileRefs
<1> DEFINE n == uref[p][h] - 1
<1>12. n \in Nat /\ uref' = [uref EXCEPT ![p][h] = n] /\ n = uref[p][h] - 1
  BY <1>5, <1>7
<1> HIDE DEF n
<1>13. /\ uref' \in AllUrefs /\ uref'[p][h] = n
       /\ \A q \in Procs, k \in Handles : q # p \/ k # h => uref'[q][k] = uref[q][k]
  <2>1. n \in Nat /\ uref' = [uref EXCEPT ![p] = [uref[p] EXCEPT ![h] = n]]
    BY <1>7, <1>12
  <2>2. \A q \in Procs : uref[q] \in [Handles -> Nat]
    BY <1>7 DEF AllUrefs
  <2> QED BY <1>7, <2>1, <2>2 DEF AllUrefs
<1>14. TypeOK'
  BY <1>1, <1>8, <1>10, <1>11, <1>13, TypeParts, TypePartsNext DEF IInv
<1>15. BufferLedger'
  BY <1>1, <1>9, <1>11 DEF IInv, BufferLedger, BufferLine
<1>16. ClientLedger'
  BY <1>1, <1>9, <1>11 DEF IInv, ClientLedger, ClientLine
<1>17. handle[h].state = "live" /\ handle[h].client = c /\ Owner(h) = p
  BY <1>2, <1>4, <1>5, <1>8, OwnHandle
<1>18. HandleLedger'
  <2> SUFFICES ASSUME NEW x \in Handles PROVE HandleLine(x)'
    BY DEF HandleLedger
  <2>1. /\ HandleLine(x) /\ Uses(x) \in Nat /\ HAreas(x) \in Nat /\ HHeld(x) \in Nat
        /\ handle[x].ref \in Nat
    BY CountsNat DEF IInv, HandleLedger
  <2>2. \A q \in Procs : uref'[q][x] # 0 => uref[q][x] # 0
    BY <1>5, <1>7, <1>13
  <2>3. \A q \in Procs : uref'[q][x] # 0 => handle'[x].client # Null /\ Owner(x)' = q
    BY <1>1, <1>11, <2>1, <2>2 DEF HandleLine
  <2>4. CASE x = h
    <3>1. HHeld(x)' = HHeld(x) + 1
      BY <1>9, <2>4 DEF Bit
    <3>2. Uses(x) = uref[p][x] /\ Uses(x)' = uref'[p][x]
      BY <1>1, <1>4, <1>11, <1>17, <2>4 DEF Uses
    <3>3. Uses(x)' = Uses(x) - 1
      BY <1>12, <1>13, <2>4, <3>2
    <3>4. handle'[x].ref = Uses(x)' + HAreas(x)' + HHeld(x)'
      BY <1>1, <1>11, <2>1, <3>1, <3>3 DEF HandleLine
    <3>5. handle'[x].state = "live" /\ HGone(x)' = HGone(x)
      BY <1>1, <1>9, <1>17, <2>4
    <3>6. HGone(x)' = Bit(handle'[x].state = "dying")
      BY <1>1, <2>1, <3>5 DEF HandleLine
    <3> QED BY <2>3, <3>4, <3>5, <3>6 DEF HandleLine
  <2>5. CASE x # h
    <3>1. HHeld(x)' = HHeld(x)
      BY <1>9, <2>1, <2>5 DEF Bit
    <3>2. Uses(x)' = Uses(x)
      <4>1. CASE handle[x].client = Null
        BY <1>1, <4>1 DEF Uses
      <4>2. CASE handle[x].client # Null
        <5>1. Owner(x) \in Procs
          BY <4>2, Typed DEF Owner, IInv, Objects, HandleSound, ClientSound
        <5> QED BY <1>1, <1>11, <1>13, <2>5, <5>1 DEF Uses
      <4> QED BY <4>1, <4>2
    <3> QED BY <1>1, <1>9, <1>11, <2>1, <2>3, <3>1, <3>2 DEF HandleLine
  <2> QED BY <2>4, <2>5
<1>19. FileLedger'
  <2>1. \A g \in Files : Bit(g = f) \in Nat /\ (Bit(g = f) # 0 => g = f)
    BY DEF Bit
  <2>2. \A g \in Files : FFds(g)' = FFds(g) /\ FFds(g) \in Nat /\ FAreas(g) \in Nat /\ FHeld(g) \in Nat
    BY <1>1, SameFds, CountsNat
  <2>3. \A g \in Files : FFds(g)' + FAreas(g)' + FHeld(g)' = FFds(g) + FAreas(g) + FHeld(g) + Bit(g = f)
    BY <1>9, <1>11, <2>1, <2>2
  <2> QED BY <1>10, <2>1, <2>3, FileLedgerGrows
<1>20. StepFits(t, FreeStep(c, h))' /\ StepFits(t, FPut(f))'
  <2>1. Owner(h)' = Proc[t]
    BY <1>2, <1>11, <1>17
  <2>2. handle'[h].client = c /\ file'[f].obj = c /\ client'[c].task = Proc[t]
    BY <1>1, <1>3, <1>4, <1>10, <1>17
  <2>3. StepFits(t, FreeStep(c, h))'
    BY <1>4, <2>1, <2>2 DEF StepFits, FreeStep
  <2>4. StepFits(t, FPut(f))'
    BY <1>4, <2>2 DEF StepFits, FPut
  <2> QED BY <2>3, <2>4
<1>21. Fits' /\ Shape'
  <2>1. FreeStep(c, h).op = "free" /\ "free" \notin Single /\ Waits(FPut(f))
    BY DEF FreeStep, FPut, Waits, Single
  <2> HIDE DEF FreeStep, FPut, Idle
  <2> QED BY <1>6, <1>8, <1>11, <1>20, <2>1, Call2Comes
<1> QED BY <1>11, <1>14, <1>15, <1>16, <1>18, <1>19, <1>21 DEF IInv

(* ION_IOC_IMPORT begins: it holds both files.                             *)
LEMMA ImportKeeps ==
  ASSUME IInv, NEW t \in Threads, NEW f \in Files, NEW sf \in Files, Import(t, f, sf) PROVE IInv'
<1>1. /\ f \in fds[Proc[t]] /\ file[f].kind = "dev" /\ sf \in fds[Proc[t]] /\ file[sf].kind = "share"
      /\ file' = [file EXCEPT ![f].ref = @ + 1, ![sf].ref = @ + 1]
      /\ UNCHANGED <<buffer, handle, client, root, spinning, fds, vma, uref>>
  BY DEF Import, DevFds, ShareFds, objects
<1>2. PICK p \in Procs : p = Proc[t]
  BY Typed DEF IInv
<1>3. PICK c : c = file[f].obj
  OBVIOUS
<1>4. PICK b : b = file[sf].obj
  OBVIOUS
<1>5. /\ file[f].state = "live" /\ c # Null /\ c \in Clients /\ client[c].task = Proc[t]
      /\ file[sf].state = "live" /\ b \in Bufs /\ f # sf
  BY <1>1, <1>2, <1>3, <1>4, OpenFile
<1>6. Call(t, <<ImportStep(c, b), FPut(sf), FPut(f)>>)
  BY <1>3, <1>4 DEF Import, ImportStep
<1>7. ImportStep(c, b) \in Steps /\ FPut(sf) \in Steps /\ FPut(f) \in Steps
  BY <1>5, FormSteps
<1>8. Stacks /\ file \in AllFiles /\ \A g \in Files : file[g].ref \in Nat
  BY TypeParts, Typed DEF IInv
<1>9. /\ work[t] = <<>> /\ Stacks' /\ Replaced(t, 0, 3)
      /\ work'[t] = <<ImportStep(c, b), FPut(sf), FPut(f)>>
      /\ Delta(Idle, ImportStep(c, b), FPut(sf), FPut(f))
  <2> HIDE DEF ImportStep, FPut, Idle
  <2> QED BY <1>6, <1>7, <1>8, CallOf3
<1>10. /\ \A x \in Bufs : BPuts(x)' = BPuts(x) /\ BGone(x)' = BGone(x)
       /\ \A x \in Clients : CHeld(x)' = CHeld(x) /\ CGone(x)' = CGone(x)
       /\ \A x \in Handles : HHeld(x)' = HHeld(x) /\ HGone(x)' = HGone(x)
       /\ \A g \in Files : FHeld(g)' = FHeld(g) + Bit(g = sf) + Bit(g = f)
  BY <1>8, <1>9, PendingNat
     DEF Delta, ForBPut, ForBGone, ForClient, ForCGone, ForHandle, ForHGone, ForFile, Bit, Idle, ImportStep, FPut
<1>11. file' \in AllFiles
  <2>1. file[f] \in FileRecs /\ file[sf] \in FileRecs /\ file[f].ref + 1 \in Nat /\ file[sf].ref + 1 \in Nat
    BY <1>8 DEF AllFiles
  <2>2. [file[f] EXCEPT !.ref = @ + 1] \in FileRecs
    BY <2>1 DEF FileRecs
  <2>3. [file[sf] EXCEPT !.ref = @ + 1] \in FileRecs
    BY <2>1 DEF FileRecs
  <2>4. file' = [file EXCEPT ![f] = [file[f] EXCEPT !.ref = @ + 1], ![sf] = [file[sf] EXCEPT !.ref = @ + 1]]
    BY <1>1, <1>5, <1>8 DEF AllFiles
  <2> QED BY <1>8, <2>2, <2>3, <2>4 DEF AllFiles
<1>12. \A g \in Files : /\ file'[g].state = file[g].state /\ file'[g].kind = file[g].kind
                        /\ file'[g].obj = file[g].obj
  <2> TAKE g \in Files
  <2>1. file[f] \in FileRecs /\ file[sf] \in FileRecs
    BY <1>8 DEF AllFiles
  <2> QED BY <1>1, <1>5, <1>8, <2>1 DEF AllFiles, FileRecs
<1>13. file'[f].ref = file[f].ref + 1 /\ file'[sf].ref = file[sf].ref + 1
       /\ \A g \in Files \ {f, sf} : file'[g] = file[g]
  <2>1. file[f] \in FileRecs /\ file[sf] \in FileRecs
    BY <1>8 DEF AllFiles
  <2> QED BY <1>1, <1>5, <1>8, <2>1 DEF AllFiles, FileRecs
<1>14. \A g \in Files : file[g].kind = "dev" /\ file[g].obj = Null => file'[g].ref = file[g].ref
  BY <1>1, <1>3, <1>5, <1>13
<1>15. /\ \A g \in Files : SharesBuffer(g)'
       /\ \A x \in Bufs : OnHandles(x)' = OnHandles(x) /\ OnFiles(x)' = OnFiles(x)
       /\ \A x \in Clients : CFiles(x)' = CFiles(x) /\ CAreas(x)' = CAreas(x)
       /\ \A x \in Handles : HAreas(x)' = HAreas(x) /\ Owner(x)' = Owner(x)
       /\ \A g \in Files : FAreas(g)' = FAreas(g)
       /\ Objects' /\ HandlesKept /\ ClientsKept /\ FilesKept
  BY <1>1, <1>12, <1>14, OnlyFileRefs
<1>16. TypeOK'
  BY <1>1, <1>9, <1>11, <1>15, TypeParts, TypePartsNext DEF IInv
<1>17. BufferLedger'
  BY <1>1, <1>10, <1>15 DEF IInv, BufferLedger, BufferLine
<1>18. ClientLedger'
  BY <1>1, <1>10, <1>15 DEF IInv, ClientLedger, ClientLine
<1>19. HandleLedger'
  BY <1>1, <1>10, <1>15 DEF IInv, HandleLedger, HandleLine, Uses
<1>20. FileLedger'
  <2> DEFINE d(g) == Bit(g = sf) + Bit(g = f)
  <2>1. \A g \in Files : d(g) \in Nat /\ (d(g) # 0 => file[g].state = "live")
    BY <1>5 DEF Bit
  <2>2. \A g \in Files : file'[g].ref = file[g].ref + d(g)
    <3> TAKE g \in Files
    <3>1. CASE g = f
      <4>1. d(g) = 1
        BY <1>5, <3>1 DEF Bit
      <4> QED BY <1>13, <3>1, <4>1
    <3>2. CASE g = sf
      <4>1. d(g) = 1
        BY <1>5, <3>2 DEF Bit
      <4> QED BY <1>13, <3>2, <4>1
    <3>3. CASE g # f /\ g # sf
      <4>1. d(g) = 0
        BY <3>3 DEF Bit
      <4> QED BY <1>8, <1>13, <3>3, <4>1
    <3> QED BY <3>1, <3>2, <3>3
  <2>3. \A g \in Files : /\ FFds(g)' = FFds(g) /\ FFds(g) \in Nat /\ FAreas(g) \in Nat /\ FHeld(g) \in Nat
                         /\ Bit(g = sf) \in Nat /\ Bit(g = f) \in Nat
    BY <1>1, SameFds, CountsNat DEF Bit
  <2>4. \A g \in Files : FFds(g)' + FAreas(g)' + FHeld(g)' = FFds(g) + FAreas(g) + FHeld(g) + d(g)
    BY <1>10, <1>15, <2>3
  <2> HIDE DEF d
  <2> QED BY <1>12, <2>1, <2>2, <2>4, FileLedgerGrows
<1>21. StepFits(t, ImportStep(c, b))' /\ StepFits(t, FPut(sf))' /\ StepFits(t, FPut(f))'
  <2>1. file'[f].obj = c /\ file'[f].kind = "dev" /\ file'[sf].kind = "share" /\ client'[c].task = Proc[t]
    BY <1>1, <1>3, <1>5, <1>12
  <2>2. StepFits(t, ImportStep(c, b))'
    BY DEF StepFits, ImportStep
  <2>3. StepFits(t, FPut(sf))'
    BY <2>1 DEF StepFits, FPut
  <2>4. StepFits(t, FPut(f))'
    BY <1>5, <2>1 DEF StepFits, FPut
  <2> QED BY <2>2, <2>3, <2>4
<1>22. ImportHolds(t)'
  <2>1. /\ Len(work'[t]) = 3 /\ work'[t][1] = ImportStep(c, b)
        /\ work'[t][2] = FPut(sf) /\ work'[t][3] = FPut(f)
    BY <1>9
  <2>2. /\ file'[f].kind = "dev" /\ file'[f].obj = c
        /\ file'[sf].kind = "share" /\ file'[sf].obj = b
    BY <1>1, <1>3, <1>4, <1>12
  <2>3. ImportStep(c, b).c = c /\ ImportStep(c, b).b = b
    BY DEF ImportStep
  <2> QED BY <2>1, <2>2, <2>3 DEF ImportHolds
<1>23. Fits' /\ Shape'
  <2>1. ImportStep(c, b).op \notin Single /\ Waits(FPut(sf)) /\ Waits(FPut(f))
    BY DEF ImportStep, FPut, Waits, Single
  <2> HIDE DEF ImportStep, FPut, Idle
  <2> QED BY <1>7, <1>9, <1>15, <1>21, <1>22, <2>1, Call3Comes
<1> QED BY <1>15, <1>16, <1>17, <1>18, <1>19, <1>20, <1>23 DEF IInv
-----------------------------------------------------------------------------
(* ion_import, for a user or for a mapping.                                *)

(* One more reference on a handle on buffer b of client c, which may have  *)
(* to be made: held by the client's process p, or by the call.             *)
Taken(h, c, b, p, r) ==
  /\ client[c].state = "live" /\ client[c].task = p
  /\ \/ handle[h].state = "none"
     \/ handle[h].state = "live" /\ handle[h].client = c /\ handle[h].buf = b
  /\ handle' = [handle EXCEPT ![h] = r]
  /\ r.state = "live" /\ r.client = c /\ r.buf = b /\ r.intree
  /\ r.ref = handle[h].ref + 1
  /\ UNCHANGED <<client, file, fds, vma>>
  /\ \A x \in Handles : HGone(x)' = HGone(x)
  /\ \A x \in Handles \ {h} : HHeld(x)' = HHeld(x)
  /\ \A q \in Procs : \A x \in Handles : q # p \/ x # h => uref'[q][x] = uref[q][x]
  /\ uref'[p][h] \in Nat /\ HHeld(h)' \in Nat
  /\ uref'[p][h] + HHeld(h)' = uref[p][h] + HHeld(h) + 1

(* The handle is then the client's, and all else as before.                *)
LEMMA HandleTaken ==
  ASSUME IInv, NEW h \in Handles, NEW c \in Clients, NEW b \in Bufs, NEW p \in Procs,
         NEW r \in HandleRecs, Taken(h, c, b, p, r)
  PROVE  /\ handle' \in AllHandles /\ HandleLedger' /\ Objects'
         /\ HandlesKept /\ ClientsKept /\ FilesKept
         /\ \A x \in Bufs : /\ OnFiles(x)' = OnFiles(x)
                            /\ OnHandles(x)' = OnHandles(x) + Bit(x = b /\ handle[h].state = "none")
         /\ \A x \in Clients : CFiles(x)' = CFiles(x) /\ CAreas(x)' = CAreas(x)
         /\ handle'[h].client = c /\ Owner(h)' = p
<1> USE DEF Taken
<1>1. handle' \in AllHandles /\ handle'[h] = r /\ \A x \in Handles \ {h} : handle'[x] = handle[x]
  BY HandleSet, TypeParts DEF IInv
<1>2. \A x \in Handles : /\ HandleLine(x) /\ HandleSound(x) /\ handle[x].ref \in Nat
                         /\ Uses(x) \in Nat /\ HAreas(x) \in Nat /\ HHeld(x) \in Nat
  BY CountsNat DEF IInv, HandleLedger, Objects
<1>3. c # Null
  BY DEF Clients, Null
<1>4. ASSUME handle[h].state = "none"
      PROVE  handle[h].ref = 0 /\ HAreas(h) = 0 /\ HHeld(h) = 0 /\ handle[h].client = Null
  <2>1. handle[h].ref = 0 /\ handle[h].client = Null
    BY <1>2, <1>4 DEF HandleLine, HandleSound
  <2> QED BY <1>2, <2>1 DEF HandleLine
<1>5. \A v \in Vmas : vma[v].handle = h => handle[h].state = "live" /\ handle[h].client = c
  <2> SUFFICES ASSUME NEW v \in Vmas, vma[v].handle = h, handle[h].state = "none" PROVE FALSE
    OBVIOUS
  <2>1. v \in HandleAreas(h)
    BY DEF HandleAreas
  <2> QED BY <1>4, <2>1, FiniteCounts
<1>6. \A x \in Handles \ {h} : Owner(x)' = Owner(x)
  BY <1>1 DEF Owner
<1>7. Owner(h)' = p
  BY <1>1 DEF Owner
<1>8. \A x \in Clients : CFiles(x)' = CFiles(x)
  BY SameFiles
<1>9. \A x \in Bufs : OnFiles(x)' = OnFiles(x)
  BY SameFiles
<1>10. \A x \in Handles : HAreas(x)' = HAreas(x)
  BY SameAreas
<1>11. \A f \in Files : FAreas(f)' = FAreas(f)
  BY SameAreas
<1>12. \A x \in Clients : CAreas(x)' = CAreas(x)
  <2> TAKE x \in Clients
  <2>1. \A w \in Vmas : AreaOf(w, x)' <=> AreaOf(w, x)
    <3> TAKE w \in Vmas
    <3>1. vma[w].handle \in Handles \cup {Null}
      BY TypeParts DEF IInv, AllVmas, VmaRecs
    <3>2. CASE vma[w].handle = h
      BY <1>1, <1>5, <3>2 DEF AreaOf
    <3>3. CASE vma[w].handle # h
      BY <1>1, <3>1, <3>3 DEF AreaOf
    <3> QED BY <3>2, <3>3
  <2> QED BY <2>1, AreasStayWithClient
<1>13. \A x \in Bufs : OnHandles(x)' = OnHandles(x) + Bit(x = b /\ handle[h].state = "none")
  <2> TAKE x \in Bufs
  <2>1. OnHandles(x)' = OnHandles(x) - HandleOn(handle[h], x) + HandleOn(r, x) /\ OnHandles(x) \in Nat
    BY <1>1, HandleChanges, FiniteCounts
  <2>2. HandleOn(r, x) = Bit(x = b)
    BY DEF HandleOn
  <2>3. CASE handle[h].state = "none"
    <3>1. HandleOn(handle[h], x) = 0 /\ Bit(x = b /\ handle[h].state = "none") = Bit(x = b) /\ Bit(x = b) \in Nat
      BY <2>3 DEF HandleOn, Bit
    <3> QED BY <2>1, <2>2, <3>1
  <2>4. CASE handle[h].state = "live" /\ handle[h].client = c /\ handle[h].buf = b
    <3>1. HandleOn(handle[h], x) = Bit(x = b) /\ Bit(x = b /\ handle[h].state = "none") = 0 /\ Bit(x = b) \in Nat
      BY <2>4 DEF HandleOn, Bit
    <3> QED BY <2>1, <2>2, <3>1
  <2> QED BY <2>3, <2>4
<1>14. HandleLedger'
  <2> SUFFICES ASSUME NEW x \in Handles PROVE HandleLine(x)'
    BY DEF HandleLedger
  <2>1. CASE x = h
    <3>1. uref[p][h] = Uses(h) /\ \A q \in Procs \ {p} : uref[q][h] = 0
      <4>1. \A q \in Procs : uref[q][h] # 0 => handle[h].client # Null /\ Owner(h) = q
        BY <1>2 DEF HandleLine
      <4>2. CASE handle[h].state = "none"
        BY <1>4, <4>1, <4>2 DEF Uses
      <4>3. CASE handle[h].state = "live" /\ handle[h].client = c /\ handle[h].buf = b
        BY <1>3, <4>1, <4>3 DEF Uses, Owner
      <4> QED BY <4>2, <4>3
    <3>2. Uses(h)' = uref'[p][h]
      BY <1>1, <1>3, <1>7 DEF Uses
    <3>3. handle'[h].ref = Uses(h)' + HAreas(h)' + HHeld(h)'
      <4>1. handle[h].ref = Uses(h) + HAreas(h) + HHeld(h)
        BY <1>2 DEF HandleLine
      <4>2. handle'[h].ref = handle[h].ref + 1
        BY <1>1
      <4> QED BY <1>2, <1>10, <3>1, <3>2, <4>1, <4>2
    <3>4. HGone(h)' = Bit(handle'[h].state = "dying")
      <4>1. HGone(h) = 0
        BY <1>2 DEF HandleLine, Bit
      <4> QED BY <1>1, <4>1 DEF Bit
    <3>5. \A q \in Procs : uref'[q][h] # 0 => handle'[h].client # Null /\ Owner(h)' = q
      BY <1>1, <1>3, <1>7, <3>1
    <3> QED BY <1>1, <2>1, <3>3, <3>4, <3>5 DEF HandleLine
  <2>2. CASE x # h
    <3>1. handle'[x] = handle[x] /\ HHeld(x)' = HHeld(x) /\ HGone(x)' = HGone(x) /\ Owner(x)' = Owner(x)
      BY <1>1, <1>6, <2>2
    <3>2. \A q \in Procs : uref'[q][x] = uref[q][x]
      BY <2>2
    <3>3. Uses(x)' = Uses(x)
      <4>1. CASE handle[x].client = Null
        BY <3>1, <4>1 DEF Uses
      <4>2. CASE handle[x].client # Null
        <5>1. Owner(x) \in Procs
          BY <4>2, Typed DEF Owner, IInv, Objects, HandleSound, ClientSound
        <5> QED BY <3>1, <3>2, <5>1 DEF Uses
      <4> QED BY <4>1, <4>2
    <3> QED BY <1>2, <1>10, <3>1, <3>2, <3>3 DEF HandleLine
  <2> QED BY <2>1, <2>2
<1>15. Objects'
  <2>1. \A x \in Handles : HandleSound(x)'
    <3> TAKE x \in Handles
    <3>1. CASE x = h
      BY <1>1, <1>3, <3>1 DEF HandleSound
    <3>2. CASE x # h
      BY <1>1, <1>2, <3>2 DEF HandleSound
    <3> QED BY <3>1, <3>2
  <2>2. \A x \in Clients : ClientSound(x)'
    BY DEF IInv, Objects, ClientSound
  <2>3. \A f \in Files : FileSound(f)'
    BY DEF IInv, Objects, FileSound
  <2>4. \A q \in Procs, f \in Files : FdSound(q, f)'
    BY DEF IInv, Objects, FdSound
  <2>5. \A v \in Vmas : AreaSound(v)'
    <3> SUFFICES ASSUME NEW v \in Vmas, vma[v] # NoVma PROVE AreaSound(v)'
      BY DEF AreaSound
    <3>1. AreaSound(v)
      BY DEF IInv, Objects
    <3>2. CASE vma[v].handle = h
      <4>1. Owner(vma[v].handle) = p
        BY <1>5, <3>2 DEF Owner
      <4> QED BY <1>7, <3>1, <3>2, <4>1 DEF AreaSound
    <3>3. CASE vma[v].handle # h
      BY <1>6, <3>1, <3>3 DEF AreaSound
    <3> QED BY <3>2, <3>3
  <2> QED BY <2>1, <2>2, <2>3, <2>4, <2>5 DEF Objects
<1>16. HandlesKept
  <2> SUFFICES ASSUME NEW x \in Handles, handle[x].client # Null
               PROVE  handle'[x].client = handle[x].client
    BY DEF HandlesKept
  <2> QED BY <1>1, <1>4
<1>17. ClientsKept /\ FilesKept
  BY DEF ClientsKept, FilesKept
<1> QED BY <1>1, <1>7, <1>8, <1>9, <1>12, <1>13, <1>14, <1>15, <1>16, <1>17

(* A buffer's counts in the next state are natural numbers too. *)
LEMMA BuffersNatNext == \A b \in Bufs : OnHandles(b)' \in Nat /\ OnFiles(b)' \in Nat
<1>1. IsFiniteSet(Handles) /\ IsFiniteSet(Files)
  BY BoundAssumption, FS_Interval DEF Handles, Files
<1>2. ASSUME NEW b \in Bufs PROVE OnHandles(b)' \in Nat
  <2>1. BufferHandles(b)' \in SUBSET Handles
    BY DEF BufferHandles
  <2> QED BY <1>1, <2>1, FS_Subset, FS_CardinalityType DEF OnHandles
<1>3. ASSUME NEW b \in Bufs PROVE OnFiles(b)' \in Nat
  <2>1. BufferFiles(b)' \in SUBSET Files
    BY DEF BufferFiles
  <2> QED BY <1>1, <2>1, FS_Subset, FS_CardinalityType DEF OnFiles
<1> QED BY <1>2, <1>3

(* One more reference on a buffer that is there, by a handle or a file.    *)
LEMMA BufferTaken ==
  ASSUME IInv, NEW b \in Bufs, buffer[b].ref # 0, buffer' = [buffer EXCEPT ![b].ref = @ + 1],
         \A x \in Bufs : /\ OnHandles(x)' + OnFiles(x)' = OnHandles(x) + OnFiles(x) + Bit(x = b)
                         /\ BPuts(x)' = BPuts(x) /\ BGone(x)' = BGone(x)
  PROVE  buffer' \in AllBuffers /\ BufferLedger'
<1>1. buffer \in AllBuffers
  BY TypeParts DEF IInv
<1>2. \A x \in Bufs : /\ BufferLine(x) /\ OnHandles(x) \in Nat /\ OnFiles(x) \in Nat /\ BPuts(x) \in Nat
                      /\ BGone(x) \in Nat /\ buffer[x].ref \in Nat
  BY CountsNat DEF IInv, BufferLedger
<1> DEFINE r == [buffer[b] EXCEPT !.ref = @ + 1]
<1>3. buffer[b] \in BufferRecs /\ buffer[b].ref + 1 \in Nat
  BY <1>1, <1>2 DEF AllBuffers
<1>4. r \in BufferRecs /\ r.state = buffer[b].state /\ r.ref = buffer[b].ref + 1
  BY <1>3 DEF BufferRecs
<1>5. buffer' = [buffer EXCEPT ![b] = r]
  OBVIOUS
<1> HIDE DEF r
<1>6. buffer' \in AllBuffers /\ buffer'[b] = r /\ \A x \in Bufs \ {b} : buffer'[x] = buffer[x]
  BY <1>1, <1>4, <1>5, BufferSet
<1>7. BufferLedger'
  <2> SUFFICES ASSUME NEW x \in Bufs PROVE BufferLine(x)'
    BY DEF BufferLedger
  <2>1. OnHandles(x)' \in Nat /\ OnFiles(x)' \in Nat
    BY BuffersNatNext
  <2>2. CASE x = b
    <3>1. OnHandles(x)' + OnFiles(x)' = OnHandles(x) + OnFiles(x) + 1
      BY <2>2 DEF Bit
    <3>2. buffer'[x].ref = buffer[x].ref + 1 /\ buffer'[x].state = buffer[x].state
      BY <1>4, <1>6, <2>2
    <3>3. buffer[x].state = "live" /\ BGone(x) = 0
      BY <1>2, <2>2 DEF BufferLine, Bit
    <3>4. buffer'[x].ref = OnHandles(x)' + OnFiles(x)' + BPuts(x)'
      BY <1>2, <2>1, <3>1, <3>2 DEF BufferLine
    <3>5. buffer'[x].ref # 0
      BY <1>2, <3>2
    <3> QED BY <3>2, <3>3, <3>4, <3>5 DEF BufferLine, Bit
  <2>3. CASE x # b
    <3>1. OnHandles(x)' + OnFiles(x)' = OnHandles(x) + OnFiles(x)
      <4>1. Bit(x = b) = 0
        BY <2>3 DEF Bit
      <4> QED BY <1>2, <4>1
    <3>2. buffer'[x].ref = OnHandles(x)' + OnFiles(x)' + BPuts(x)'
      BY <1>2, <1>6, <2>1, <2>3, <3>1 DEF BufferLine
    <3> QED BY <1>2, <1>6, <2>3, <3>2 DEF BufferLine
  <2> QED BY <2>2, <2>3
<1> QED BY <1>6, <1>7
(* What an import works on is there: the two files it holds see to that.   *)
LEMMA ImportArgs ==
  ASSUME IInv, NEW t \in Threads, work[t] # <<>>, Arg(t).op = "import", NEW c, NEW b,
         c = Arg(t).c, b = Arg(t).b
  PROVE  /\ c \in Clients /\ client[c].state = "live" /\ client[c].task = Proc[t]
         /\ b \in Bufs /\ buffer[b].ref # 0 /\ OnFiles(b) # 0
<1>1. Stacks /\ Arg(t) \in Steps /\ Arg(t) = work[t][1]
  BY TopFits
<1>2. c \in Clients /\ b \in Bufs
  BY <1>1, StepFields
<1>3. PICK f \in Files, sf \in Files :
        /\ Len(work[t]) = 3 /\ work[t][2] = FPut(sf) /\ work[t][3] = FPut(f)
        /\ file[f].kind = "dev" /\ file[f].obj = c
        /\ file[sf].kind = "share" /\ file[sf].obj = b
  BY <1>1 DEF IInv, Shape, ImportHolds
<1>4. FHeld(f) # 0 /\ FHeld(sf) # 0
  <2>1. 2 \in 1 .. Len(work[t]) /\ 3 \in 1 .. Len(work[t])
    BY <1>3
  <2>2. work[t][2].op = "fput" /\ work[t][2].f = sf /\ work[t][3].op = "fput" /\ work[t][3].f = f
    BY <1>3 DEF FPut
  <2>3. FHeld(work[t][2].f) # 0
    BY <1>1, <2>1, <2>2, StepCounts
  <2>4. FHeld(work[t][3].f) # 0
    BY <1>1, <2>1, <2>2, StepCounts
  <2> QED BY <2>2, <2>3, <2>4
<1>5. file[f].state = "live" /\ file[sf].state = "live"
  BY <1>4, FileThere
<1>6. CFiles(c) # 0
  <2>1. f \in ClientFiles(c)
    BY <1>3, <1>5 DEF ClientFiles
  <2> QED BY <1>2, <2>1, FiniteCounts
<1>7. OnFiles(b) # 0
  <2>1. sf \in BufferFiles(b)
    BY <1>3, <1>5 DEF BufferFiles
  <2> QED BY <1>2, <2>1, FiniteCounts
<1>8. client[c].task = Proc[t]
  <2>1. StepFits(t, work[t][3])
    BY <1>3 DEF IInv, Fits
  <2> QED BY <1>3, <2>1 DEF StepFits, FPut
<1> QED BY <1>2, <1>6, <1>7, <1>8, BufferThere, ClientThere

(* So is what a mapping imports: the call holds the client and the file.   *)
LEMMA MmapImportArgs ==
  ASSUME IInv, NEW t \in Threads, work[t] # <<>>, Arg(t).op = "mmapImport", NEW c, NEW f, NEW b,
         c = Arg(t).c, f = Arg(t).f, b = file[f].obj
  PROVE  /\ c \in Clients /\ client[c].state = "live" /\ client[c].task = Proc[t]
         /\ f \in Files /\ file[f].kind = "share" /\ b \in Bufs /\ buffer[b].ref # 0 /\ OnFiles(b) # 0
<1>1. Stacks /\ Arg(t) \in Steps /\ Arg(t) = work[t][1] /\ StepFits(t, Arg(t)) /\ 1 \in 1 .. Len(work[t])
  BY TopFits
<1>2. c \in Clients /\ f \in Files
  BY <1>1, StepFields
<1>3. client[c].state = "live" /\ client[c].task = Proc[t] /\ file[f].kind = "share"
  BY <1>1 DEF StepFits
<1>4. FHeld(f) # 0
  BY <1>1, StepCounts
<1>5. b \in Bufs
  BY <1>2, <1>3, Typed DEF IInv
<1>6. f \in BufferFiles(b)
  BY <1>2, <1>3, <1>4, FileThere DEF BufferFiles
<1>7. OnFiles(b) # 0
  BY <1>5, <1>6, FiniteCounts
<1> QED BY <1>2, <1>3, <1>5, <1>7, BufferThere

(* What ion_import leaves of a handle and a buffer: the handle it returns  *)
(* was the client's, on the buffer and live, or is new.                    *)
LEMMA ImportHandleIs ==
  ASSUME IInv, OneThreadEach, NEW t \in Threads, work[t] # <<>>, Arg(t).op \in {"import", "mmapImport"},
         NEW c \in Clients, client[c].task = Proc[t], NEW b \in Bufs, NEW h \in Handles,
         ImportHandle(c, b, h)
  PROVE  \E r \in HandleRecs :
           /\ handle' = [handle EXCEPT ![h] = r]
           /\ r.state = "live" /\ r.client = c /\ r.buf = b /\ r.intree /\ r.ref = handle[h].ref + 1
           /\ \/ handle[h].state = "none" /\ buffer' = [buffer EXCEPT ![b].ref = @ + 1]
              \/ /\ handle[h].state = "live" /\ handle[h].client = c /\ handle[h].buf = b
                 /\ buffer' = buffer
<1>1. HandleLine(h) /\ HandleSound(h) /\ handle[h].ref \in Nat /\ handle \in AllHandles /\ c # Null
  BY CountsNat, TypeParts DEF IInv, HandleLedger, Objects, Clients, Null
<1>2. CASE /\ h \in Tree(c) /\ handle[h].buf = b
           /\ handle' = [handle EXCEPT ![h].ref = @ + 1] /\ UNCHANGED buffer
  <2> DEFINE r == [handle[h] EXCEPT !.ref = @ + 1]
  <2>1. handle[h].state = "live" /\ handle[h].client = c
    BY <1>2, OwnHandle
  <2>2. handle[h] \in HandleRecs /\ handle[h].ref + 1 \in Nat /\ handle[h].intree
    BY <1>1, <1>2 DEF AllHandles, Tree
  <2>3. /\ r \in HandleRecs /\ r.state = "live" /\ r.client = c /\ r.buf = b /\ r.intree
        /\ r.ref = handle[h].ref + 1
    BY <1>2, <2>1, <2>2 DEF HandleRecs
  <2>4. handle' = [handle EXCEPT ![h] = r]
    BY <1>2
  <2> QED BY <1>2, <2>1, <2>3, <2>4
<1>3. CASE NewHandle(h, c, b) /\ buffer' = [buffer EXCEPT ![b].ref = @ + 1]
  <2> DEFINE r == [HandleCreate(c, b) EXCEPT !.intree = TRUE]
  <2>1. handle[h].state = "none" /\ handle' = [handle EXCEPT ![h] = r]
    BY <1>3 DEF NewHandle, IsFresh, HandleAdd
  <2>2. handle[h].ref = 0
    BY <1>1, <2>1 DEF HandleLine
  <2>3. HandleCreate(c, b) \in HandleRecs
    BY DEF HandleRecs, HandleCreate
  <2>4. r \in HandleRecs
    BY <2>3 DEF HandleRecs
  <2>5. r.state = "live" /\ r.client = c /\ r.buf = b
    BY DEF HandleCreate
  <2>6. r.intree
    BY <2>3 DEF HandleRecs
  <2>7. r.ref = handle[h].ref + 1
    BY <2>2 DEF HandleCreate
  <2> QED BY <1>3, <2>1, <2>4, <2>5, <2>6, <2>7
<1> QED BY <1>2, <1>3 DEF ImportHandle
(* The buffer's count after an import: more by the handle, if it is new.   *)
LEMMA ImportLedger ==
  ASSUME IInv, NEW b \in Bufs, buffer[b].ref # 0, NEW h \in Handles,
         \/ handle[h].state = "none" /\ buffer' = [buffer EXCEPT ![b].ref = @ + 1]
         \/ handle[h].state # "none" /\ buffer' = buffer,
         \A x \in Bufs : /\ OnFiles(x)' = OnFiles(x) /\ BPuts(x)' = BPuts(x) /\ BGone(x)' = BGone(x)
                         /\ OnHandles(x)' = OnHandles(x) + Bit(x = b /\ handle[h].state = "none")
  PROVE  buffer' \in AllBuffers /\ BufferLedger'
<1>1. \A x \in Bufs : OnHandles(x) \in Nat /\ OnFiles(x) \in Nat
  BY CountsNat
<1>2. CASE handle[h].state = "none" /\ buffer' = [buffer EXCEPT ![b].ref = @ + 1]
  <2>1. \A x \in Bufs : OnHandles(x)' + OnFiles(x)' = OnHandles(x) + OnFiles(x) + Bit(x = b)
    <3> TAKE x \in Bufs
    <3>1. Bit(x = b /\ handle[h].state = "none") = Bit(x = b) /\ Bit(x = b) \in Nat
      BY <1>2 DEF Bit
    <3> QED BY <1>1, <3>1
  <2> QED BY <1>2, <2>1, BufferTaken
<1>3. CASE handle[h].state # "none" /\ buffer' = buffer
  <2>1. \A x \in Bufs : OnHandles(x)' = OnHandles(x)
    <3> TAKE x \in Bufs
    <3>1. Bit(x = b /\ handle[h].state = "none") = 0
      BY <1>3 DEF Bit
    <3> QED BY <1>1, <3>1
  <2>2. buffer' \in AllBuffers
    BY <1>3, TypeParts DEF IInv
  <2> QED BY <1>3, <2>1, <2>2 DEF IInv, BufferLedger, BufferLine
<1> QED BY <1>2, <1>3

(* ion_import for a user. *)
LEMMA ImportDoneKeeps ==
  ASSUME IInv, OneThreadEach, NEW t \in Threads, ImportDone(t) PROVE IInv'
<1>1. /\ work[t] # <<>> /\ Arg(t).op = "import" /\ Then(t, <<>>)
      /\ UNCHANGED <<client, root, spinning, file, fds, vma>>
  BY DEF ImportDone, At, Arg
<1>2. PICK c, b : c = Arg(t).c /\ b = Arg(t).b
  OBVIOUS
<1>3. c \in Clients /\ client[c].state = "live" /\ client[c].task = Proc[t] /\ b \in Bufs /\ buffer[b].ref # 0
  BY <1>1, <1>2, ImportArgs
<1>4. PICK p \in Procs : p = Proc[t]
  BY Typed DEF IInv
<1>5. PICK h \in Handles : ImportHandle(c, b, h) /\ uref' = [uref EXCEPT ![p][h] = @ + 1]
  BY <1>2, <1>4 DEF ImportDone
<1>6. PICK r \in HandleRecs :
        /\ handle' = [handle EXCEPT ![h] = r]
        /\ r.state = "live" /\ r.client = c /\ r.buf = b /\ r.intree /\ r.ref = handle[h].ref + 1
        /\ \/ handle[h].state = "none" /\ buffer' = [buffer EXCEPT ![b].ref = @ + 1]
           \/ /\ handle[h].state = "live" /\ handle[h].client = c /\ handle[h].buf = b
              /\ buffer' = buffer
  BY <1>1, <1>3, <1>5, ImportHandleIs
<1>7. Stacks /\ Arg(t) \in Steps /\ uref \in AllUrefs /\ \A q \in Procs : uref[q] \in [Handles -> Nat]
  BY <1>1, TopFits, TypeParts DEF IInv, AllUrefs
<1>8. Stacks' /\ Replaced(t, 1, 0) /\ Delta(Arg(t), Idle, Idle, Idle)
  BY <1>1, <1>7, EndStep
<1>9. /\ \A x \in Bufs : BPuts(x)' = BPuts(x) /\ BGone(x)' = BGone(x)
      /\ \A x \in Clients : CHeld(x)' = CHeld(x) /\ CGone(x)' = CGone(x)
      /\ \A x \in Handles : HHeld(x)' = HHeld(x) /\ HGone(x)' = HGone(x)
      /\ \A g \in Files : FHeld(g)' = FHeld(g)
  BY <1>1, <1>7, <1>8, PendingNat
     DEF Delta, ForBPut, ForBGone, ForClient, ForCGone, ForHandle, ForHGone, ForFile, Bit, Idle
<1>10. uref[p][h] \in Nat /\ HHeld(h) \in Nat
  BY <1>7, PendingNat
<1>11. /\ uref' \in AllUrefs /\ uref'[p][h] = uref[p][h] + 1
       /\ \A q \in Procs : \A x \in Handles : q # p \/ x # h => uref'[q][x] = uref[q][x]
  BY <1>5, <1>7, <1>10 DEF AllUrefs
<1>12. /\ \A x \in Handles \ {h} : HHeld(x)' = HHeld(x)
       /\ \A x \in Handles : HGone(x)' = HGone(x)
       /\ uref'[p][h] \in Nat /\ HHeld(h)' \in Nat
       /\ uref'[p][h] + HHeld(h)' = uref[p][h] + HHeld(h) + 1
  BY <1>9, <1>10, <1>11
<1>13. /\ handle' \in AllHandles /\ HandleLedger' /\ Objects'
       /\ HandlesKept /\ ClientsKept /\ FilesKept
       /\ \A x \in Bufs : /\ OnFiles(x)' = OnFiles(x)
                          /\ OnHandles(x)' = OnHandles(x) + Bit(x = b /\ handle[h].state = "none")
       /\ \A x \in Clients : CFiles(x)' = CFiles(x) /\ CAreas(x)' = CAreas(x)
  <2>1. client[c].task = p
    BY <1>3, <1>4
  <2>2. Taken(h, c, b, p, r)
    BY <1>1, <1>3, <1>6, <1>11, <1>12, <2>1 DEF Taken
  <2> QED BY <1>3, <2>2, HandleTaken
<1>14. buffer' \in AllBuffers /\ BufferLedger'
  BY <1>3, <1>6, <1>9, <1>13, ImportLedger
<1>15. TypeOK'
  BY <1>1, <1>8, <1>11, <1>13, <1>14, TypeParts, TypePartsNext DEF IInv, SharesBuffer
<1>16. ClientLedger'
  BY <1>1, <1>9, <1>13 DEF IInv, ClientLedger, ClientLine
<1>17. FileLedger'
  <2>1. \A g \in Files : FFds(g)' = FFds(g) /\ FAreas(g)' = FAreas(g)
    BY <1>1, SameFds, SameAreas
  <2> QED BY <1>1, <1>9, <2>1 DEF IInv, FileLedger, FileLine
<1>18. Fits' /\ Shape'
  BY <1>1, <1>8, <1>13, StepsEnd
<1> QED BY <1>13, <1>14, <1>15, <1>16, <1>17, <1>18 DEF IInv

(* ion_import for a mapping: the reference is the call's. *)
LEMMA MmapImportKeeps ==
  ASSUME IInv, OneThreadEach, NEW t \in Threads, MmapImport(t) PROVE IInv'
<1>1. /\ work[t] # <<>> /\ Arg(t).op = "mmapImport"
      /\ UNCHANGED <<client, root, spinning, file, fds, vma, uref>>
  BY DEF MmapImport, At, Arg
<1>2. PICK c, f : c = Arg(t).c /\ f = Arg(t).f
  OBVIOUS
<1>3. PICK b : b = file[f].obj
  OBVIOUS
<1>4. /\ c \in Clients /\ client[c].state = "live" /\ client[c].task = Proc[t]
      /\ f \in Files /\ file[f].kind = "share" /\ b \in Bufs /\ buffer[b].ref # 0
  BY <1>1, <1>2, <1>3, MmapImportArgs
<1>5. PICK p \in Procs : p = Proc[t]
  BY Typed DEF IInv
<1>6. PICK h \in Handles : ImportHandle(c, b, h) /\ Then(t, <<MmapMap(c, h, f)>>)
  BY <1>2, <1>3 DEF MmapImport, MmapMap
<1>7. PICK r \in HandleRecs :
        /\ handle' = [handle EXCEPT ![h] = r]
        /\ r.state = "live" /\ r.client = c /\ r.buf = b /\ r.intree /\ r.ref = handle[h].ref + 1
        /\ \/ handle[h].state = "none" /\ buffer' = [buffer EXCEPT ![b].ref = @ + 1]
           \/ /\ handle[h].state = "live" /\ handle[h].client = c /\ handle[h].buf = b
              /\ buffer' = buffer
  BY <1>1, <1>4, <1>6, ImportHandleIs
<1>8. Stacks /\ Arg(t) \in Steps /\ MmapMap(c, h, f) \in Steps
  BY <1>1, <1>4, TopFits, FormSteps
<1>9. /\ Stacks' /\ Replaced(t, 1, 1) /\ work'[t][1] = MmapMap(c, h, f)
      /\ Delta(Arg(t), MmapMap(c, h, f), Idle, Idle)
  <2> HIDE DEF MmapMap, Idle
  <2> QED BY <1>1, <1>6, <1>8, StepTo1
<1>10. /\ \A x \in Bufs : BPuts(x)' = BPuts(x) /\ BGone(x)' = BGone(x)
       /\ \A x \in Clients : CHeld(x)' = CHeld(x) /\ CGone(x)' = CGone(x)
       /\ \A x \in Handles : HHeld(x)' = HHeld(x) + Bit(x = h) /\ HGone(x)' = HGone(x)
       /\ \A g \in Files : FHeld(g)' = FHeld(g)
  <2>1. \A x \in Bufs : BPuts(x)' = BPuts(x)
    <3> TAKE x \in Bufs
    <3>1. BPuts(x)' = BPuts(x) - ForBPut(Arg(t), x) + ForBPut(MmapMap(c, h, f), x) + ForBPut(Idle, x) + ForBPut(Idle, x) /\ BPuts(x) \in Nat
      BY <1>1, <1>2, <1>4, <1>8, <1>9, PendingNat DEF Delta
    <3>2. QED BY <1>1, <1>2, <1>4, <1>8, <1>9, <3>1 DEF ForBPut, Bit, MmapMap, Idle
  <2>2. \A x \in Bufs : BGone(x)' = BGone(x)
    <3> TAKE x \in Bufs
    <3>1. BGone(x)' = BGone(x) - ForBGone(Arg(t), x) + ForBGone(MmapMap(c, h, f), x) + ForBGone(Idle, x) + ForBGone(Idle, x) /\ BGone(x) \in Nat
      BY <1>1, <1>2, <1>4, <1>8, <1>9, PendingNat DEF Delta
    <3>2. QED BY <1>1, <1>2, <1>4, <1>8, <1>9, <3>1 DEF ForBGone, Bit, MmapMap, Idle
  <2>3. \A x \in Clients : CHeld(x)' = CHeld(x)
    <3> TAKE x \in Clients
    <3>1. CHeld(x)' = CHeld(x) - ForClient(Arg(t), x) + ForClient(MmapMap(c, h, f), x) + ForClient(Idle, x) + ForClient(Idle, x) /\ CHeld(x) \in Nat
      BY <1>1, <1>2, <1>4, <1>8, <1>9, PendingNat DEF Delta
    <3>2. QED BY <1>1, <1>2, <1>4, <1>8, <1>9, <3>1 DEF ForClient, Bit, MmapMap, Idle
  <2>4. \A x \in Clients : CGone(x)' = CGone(x)
    <3> TAKE x \in Clients
    <3>1. CGone(x)' = CGone(x) - ForCGone(Arg(t), x) + ForCGone(MmapMap(c, h, f), x) + ForCGone(Idle, x) + ForCGone(Idle, x) /\ CGone(x) \in Nat
      BY <1>1, <1>2, <1>4, <1>8, <1>9, PendingNat DEF Delta
    <3>2. QED BY <1>1, <1>2, <1>4, <1>8, <1>9, <3>1 DEF ForCGone, Bit, MmapMap, Idle
  <2>5. \A x \in Handles : HHeld(x)' = HHeld(x) + Bit(x = h)
    <3> TAKE x \in Handles
    <3>1. HHeld(x)' = HHeld(x) - ForHandle(Arg(t), x) + ForHandle(MmapMap(c, h, f), x) + ForHandle(Idle, x) + ForHandle(Idle, x) /\ HHeld(x) \in Nat
      BY <1>1, <1>2, <1>4, <1>8, <1>9, PendingNat DEF Delta
    <3>2. QED BY <1>1, <1>2, <1>4, <1>8, <1>9, <3>1 DEF ForHandle, Bit, MmapMap, Idle
  <2>6. \A x \in Handles : HGone(x)' = HGone(x)
    <3> TAKE x \in Handles
    <3>1. HGone(x)' = HGone(x) - ForHGone(Arg(t), x) + ForHGone(MmapMap(c, h, f), x) + ForHGone(Idle, x) + ForHGone(Idle, x) /\ HGone(x) \in Nat
      BY <1>1, <1>2, <1>4, <1>8, <1>9, PendingNat DEF Delta
    <3>2. QED BY <1>1, <1>2, <1>4, <1>8, <1>9, <3>1 DEF ForHGone, Bit, MmapMap, Idle
  <2>7. \A g \in Files : FHeld(g)' = FHeld(g)
    <3> TAKE g \in Files
    <3>1. FHeld(g)' = FHeld(g) - ForFile(Arg(t), g) + ForFile(MmapMap(c, h, f), g) + ForFile(Idle, g) + ForFile(Idle, g) /\ FHeld(g) \in Nat
      BY <1>1, <1>2, <1>4, <1>8, <1>9, PendingNat DEF Delta
    <3>2. QED BY <1>1, <1>2, <1>4, <1>8, <1>9, <3>1 DEF ForFile, Bit, MmapMap, Idle
  <2> QED BY <2>1, <2>2, <2>3, <2>4, <2>5, <2>6, <2>7
<1>11. uref[p][h] \in Nat /\ HHeld(h) \in Nat
  BY <1>8, PendingNat, Typed DEF IInv
<1>12. /\ \A x \in Handles \ {h} : HHeld(x)' = HHeld(x)
       /\ \A x \in Handles : HGone(x)' = HGone(x)
       /\ uref'[p][h] \in Nat /\ HHeld(h)' \in Nat
       /\ uref'[p][h] + HHeld(h)' = uref[p][h] + HHeld(h) + 1
  <2>1. HHeld(h)' = HHeld(h) + 1
    BY <1>10 DEF Bit
  <2>2. \A x \in Handles \ {h} : HHeld(x)' = HHeld(x)
    BY <1>8, <1>10, PendingNat DEF Bit
  <2> QED BY <1>1, <1>10, <1>11, <2>1, <2>2
<1>13. /\ handle' \in AllHandles /\ HandleLedger' /\ Objects'
       /\ HandlesKept /\ ClientsKept /\ FilesKept
       /\ \A x \in Bufs : /\ OnFiles(x)' = OnFiles(x)
                          /\ OnHandles(x)' = OnHandles(x) + Bit(x = b /\ handle[h].state = "none")
       /\ \A x \in Clients : CFiles(x)' = CFiles(x) /\ CAreas(x)' = CAreas(x)
       /\ handle'[h].client = c /\ Owner(h)' = p
  <2>1. client[c].task = p
    BY <1>4, <1>5
  <2>2. Taken(h, c, b, p, r)
    BY <1>1, <1>4, <1>7, <1>12, <2>1 DEF Taken
  <2> QED BY <1>4, <2>2, HandleTaken
<1>14. buffer' \in AllBuffers /\ BufferLedger'
  BY <1>4, <1>7, <1>10, <1>13, ImportLedger
<1>15. TypeOK'
  BY <1>1, <1>9, <1>13, <1>14, TypeParts, TypePartsNext DEF IInv, SharesBuffer
<1>16. ClientLedger'
  BY <1>1, <1>10, <1>13 DEF IInv, ClientLedger, ClientLine
<1>17. FileLedger'
  <2>1. \A g \in Files : FFds(g)' = FFds(g) /\ FAreas(g)' = FAreas(g)
    BY <1>1, SameFds, SameAreas
  <2> QED BY <1>1, <1>10, <2>1 DEF IInv, FileLedger, FileLine
<1>18. StepFits(t, MmapMap(c, h, f))'
  <2>1. c # Null
    BY <1>4 DEF Clients, Null
  <2>2. handle'[h].client = c /\ Owner(h)' = Proc[t] /\ client' = client /\ file' = file
    BY <1>1, <1>5, <1>13
  <2> QED BY <1>4, <2>1, <2>2 DEF StepFits, MmapMap
<1>19. Fits' /\ Shape'
  <2>1. MmapMap(c, h, f).op = "mmapMap" /\ "mmapImport" \in Single /\ "mmapImport" \notin Putting
    BY DEF MmapMap, Single, Putting
  <2> HIDE DEF MmapMap, Idle
  <2> QED BY <1>1, <1>8, <1>9, <1>13, <1>18, <2>1, Step1Comes
<1> QED BY <1>13, <1>14, <1>15, <1>16, <1>17, <1>19 DEF IInv
-----------------------------------------------------------------------------
(* References that pass between a call and a mapping.                      *)

(* One area changes, and nothing else but the stacks. *)
LEMMA OneArea ==
  ASSUME IInv, NEW v \in Vmas, NEW r \in VmaRecs, vma' = [vma EXCEPT ![v] = r],
         UNCHANGED <<buffer, handle, client, root, spinning, file, fds, uref>>,
         AreaSound(v)', Stacks'
  PROVE  /\ TypeOK' /\ Objects' /\ HandlesKept /\ ClientsKept /\ FilesKept
         /\ vma'[v] = r
         /\ \A h \in Handles : HAreas(h)' = HAreas(h) - Bit(vma[v].handle = h) + Bit(r.handle = h)
         /\ \A f \in Files : FAreas(f)' = FAreas(f) - Bit(vma[v].file = f) + Bit(r.file = f)
         /\ \A c \in Clients : CAreas(c)' = CAreas(c) - Bit(AreaOf(v, c))
                                 + Bit(r.handle # Null /\ handle[r.handle].client = c)
<1>1. vma' \in AllVmas /\ vma'[v] = r /\ \A x \in Vmas \ {v} : vma'[x] = vma[x]
  BY VmaSet, TypeParts DEF IInv
<1>2. TypeOK'
  BY <1>1, TypeParts, TypePartsNext DEF IInv, SharesBuffer
<1>3. \A h \in Handles : HAreas(h)' = HAreas(h) - Bit(vma[v].handle = h) + Bit(r.handle = h)
  <2> TAKE h \in Handles
  <2>1. HAreas(h)' = HAreas(h) - Bit(vma[v].handle = h) + Bit(vma'[v].handle = h)
    BY <1>1, AreaChangesHandles
  <2> QED BY <1>1, <2>1
<1>4. \A f \in Files : FAreas(f)' = FAreas(f) - Bit(vma[v].file = f) + Bit(r.file = f)
  <2> TAKE f \in Files
  <2>1. FAreas(f)' = FAreas(f) - Bit(vma[v].file = f) + Bit(vma'[v].file = f)
    BY <1>1, AreaChangesFiles
  <2> QED BY <1>1, <2>1
<1>5. \A c \in Clients : CAreas(c)' = CAreas(c) - Bit(AreaOf(v, c))
                           + Bit(r.handle # Null /\ handle[r.handle].client = c)
  <2> TAKE c \in Clients
  <2>1. \A w \in Vmas \ {v} : AreaOf(w, c)' <=> AreaOf(w, c)
    BY <1>1 DEF AreaOf
  <2>2. CAreas(c)' = CAreas(c) - Bit(AreaOf(v, c)) + Bit(AreaOf(v, c)')
    BY <2>1, AreaChangesClients
  <2>3. AreaOf(v, c)' <=> r.handle # Null /\ handle[r.handle].client = c
    BY <1>1 DEF AreaOf
  <2>4. Bit(AreaOf(v, c)') = Bit(r.handle # Null /\ handle[r.handle].client = c)
    BY <2>3 DEF Bit
  <2> QED BY <2>2, <2>4
<1>6. Objects'
  <2>1. \A x \in Handles : HandleSound(x)'
    BY DEF IInv, Objects, HandleSound
  <2>2. \A x \in Clients : ClientSound(x)'
    BY DEF IInv, Objects, ClientSound
  <2>3. \A f \in Files : FileSound(f)'
    BY DEF IInv, Objects, FileSound
  <2>4. \A q \in Procs, f \in Files : FdSound(q, f)'
    BY DEF IInv, Objects, FdSound
  <2>5. \A w \in Vmas : AreaSound(w)'
    <3> TAKE w \in Vmas
    <3>1. CASE w = v
      BY <3>1
    <3>2. CASE w # v
      <4>1. AreaSound(w) /\ vma'[w] = vma[w]
        BY <1>1, <3>2 DEF IInv, Objects
      <4> QED BY <4>1 DEF AreaSound, Owner
    <3> QED BY <3>1, <3>2
  <2> QED BY <2>1, <2>2, <2>3, <2>4, <2>5 DEF Objects
<1>7. HandlesKept /\ ClientsKept /\ FilesKept
  BY DEF HandlesKept, ClientsKept, FilesKept
<1> QED BY <1>1, <1>2, <1>3, <1>4, <1>5, <1>6, <1>7

(* Each object keeps as many references in all.                            *)
LEMMA Balanced ==
  ASSUME IInv, UNCHANGED <<buffer, handle, client, file, fds, uref>>,
         \A x \in Bufs : BPuts(x)' = BPuts(x) /\ BGone(x)' = BGone(x),
         \A x \in Handles : /\ HAreas(x)' \in Nat /\ HHeld(x)' \in Nat
                            /\ HAreas(x)' + HHeld(x)' = HAreas(x) + HHeld(x)
                            /\ HGone(x)' = HGone(x)
                            /\ handle[x].state = "dying" => HAreas(x)' = HAreas(x) /\ HHeld(x)' = HHeld(x),
         \A x \in Clients : /\ CAreas(x)' \in Nat /\ CHeld(x)' \in Nat
                            /\ CAreas(x)' + CHeld(x)' = CAreas(x) + CHeld(x)
                            /\ CGone(x)' = CGone(x),
         \A x \in Files : /\ FAreas(x)' \in Nat /\ FHeld(x)' \in Nat
                          /\ FAreas(x)' + FHeld(x)' = FAreas(x) + FHeld(x)
  PROVE  BufferLedger' /\ ClientLedger' /\ HandleLedger' /\ FileLedger'
<1>1. BufferLedger'
  <2>1. \A b \in Bufs : OnHandles(b)' = OnHandles(b) /\ OnFiles(b)' = OnFiles(b)
    BY SameHandles, SameFiles
  <2> QED BY <2>1 DEF IInv, BufferLedger, BufferLine
<1>2. ClientLedger'
  <2> SUFFICES ASSUME NEW x \in Clients PROVE ClientLine(x)'
    BY DEF ClientLedger
  <2>1. /\ ClientLine(x) /\ CFiles(x) \in Nat /\ CAreas(x) \in Nat /\ CHeld(x) \in Nat
        /\ CFiles(x)' = CFiles(x)
    BY CountsNat, SameFiles DEF IInv, ClientLedger
  <2>2. client'[x].ref = CFiles(x)' + CAreas(x)' + CHeld(x)'
    BY <2>1 DEF ClientLine
  <2> QED BY <2>1, <2>2 DEF ClientLine
<1>3. HandleLedger'
  <2> SUFFICES ASSUME NEW x \in Handles PROVE HandleLine(x)'
    BY DEF HandleLedger
  <2>1. /\ HandleLine(x) /\ Uses(x) \in Nat /\ HAreas(x) \in Nat /\ HHeld(x) \in Nat
        /\ Uses(x)' = Uses(x) /\ Owner(x)' = Owner(x)
    BY CountsNat DEF IInv, HandleLedger, Uses, Owner
  <2>2. handle'[x].ref = Uses(x)' + HAreas(x)' + HHeld(x)'
    BY <2>1 DEF HandleLine
  <2> QED BY <2>1, <2>2 DEF HandleLine
<1>4. FileLedger'
  <2> SUFFICES ASSUME NEW x \in Files PROVE FileLine(x)'
    BY DEF FileLedger
  <2>1. /\ FileLine(x) /\ FFds(x) \in Nat /\ FAreas(x) \in Nat /\ FHeld(x) \in Nat
        /\ FFds(x)' = FFds(x)
    BY CountsNat, SameFds DEF IInv, FileLedger
  <2>2. file'[x].ref = FFds(x)' + FAreas(x)' + FHeld(x)'
    BY <2>1 DEF FileLine
  <2> QED BY <2>1, <2>2 DEF FileLine
<1> QED BY <1>1, <1>2, <1>3, <1>4

(* The counts of areas in the next state are natural numbers too. *)
LEMMA AreasNatNext ==
  /\ \A x \in Handles : HAreas(x)' \in Nat
  /\ \A x \in Clients : CAreas(x)' \in Nat
  /\ \A x \in Files : FAreas(x)' \in Nat
<1>1. IsFiniteSet(Vmas)
  BY BoundAssumption, FS_Interval DEF Vmas
<1>2. ASSUME NEW x \in Handles PROVE HAreas(x)' \in Nat
  <2>1. HandleAreas(x)' \in SUBSET Vmas
    BY DEF HandleAreas
  <2> QED BY <1>1, <2>1, FS_Subset, FS_CardinalityType DEF HAreas
<1>3. ASSUME NEW x \in Clients PROVE CAreas(x)' \in Nat
  <2>1. ClientAreas(x)' \in SUBSET Vmas
    BY DEF ClientAreas
  <2> QED BY <1>1, <2>1, FS_Subset, FS_CardinalityType DEF CAreas
<1>4. ASSUME NEW x \in Files PROVE FAreas(x)' \in Nat
  <2>1. FileAreas(x)' \in SUBSET Vmas
    BY DEF FileAreas
  <2> QED BY <1>1, <2>1, FS_Subset, FS_CardinalityType DEF FAreas
<1> QED BY <1>2, <1>3, <1>4
(* The end of ion_share_mmap: the area has what the call held.             *)
LEMMA MmapDoneKeeps ==
  ASSUME IInv, NEW t \in Threads, MmapDone(t) PROVE IInv'
<1>1. /\ work[t] # <<>> /\ Arg(t).op = "mmapMap" /\ Then(t, <<>>)
      /\ UNCHANGED <<buffer, handle, client, root, spinning, file, fds, uref>>
  BY DEF MmapDone, At, Arg, objects
<1>2. Stacks /\ Arg(t) \in Steps /\ StepFits(t, Arg(t)) /\ Arg(t) = work[t][1] /\ 1 \in 1 .. Len(work[t])
  BY <1>1, TopFits
<1>3. PICK c \in Clients, h \in Handles, f \in Files : c = Arg(t).c /\ h = Arg(t).h /\ f = Arg(t).f
  BY <1>1, <1>2, StepFields
<1>4. /\ handle[h].client # Null /\ Owner(h) = Proc[t] /\ handle[h].client = c
      /\ file[f].kind = "share" /\ HHeld(h) # 0
  BY <1>1, <1>2, <1>3, StepCounts DEF StepFits
<1>5. handle[h].state = "live"
  BY <1>4, HandleThere
<1>6. PICK p \in Procs : p = Proc[t]
  BY Typed DEF IInv
<1> DEFINE r == [proc |-> p, file |-> f, handle |-> h]
<1>7. PICK v \in Vmas : vma[v] = NoVma /\ vma' = [vma EXCEPT ![v] = r]
  BY <1>3, <1>6 DEF MmapDone
<1>8. r \in VmaRecs /\ r.proc = p /\ r.file = f /\ r.handle = h
  BY DEF VmaRecs
<1> HIDE DEF r
<1>9. Stacks' /\ Replaced(t, 1, 0) /\ Delta(Arg(t), Idle, Idle, Idle)
  BY <1>1, <1>2, EndStep
<1>10. /\ \A x \in Bufs : BPuts(x)' = BPuts(x) /\ BGone(x)' = BGone(x)
       /\ \A x \in Clients : CHeld(x)' = CHeld(x) - Bit(x = c) /\ CGone(x)' = CGone(x)
       /\ \A x \in Handles : HHeld(x)' = HHeld(x) - Bit(x = h) /\ HGone(x)' = HGone(x)
       /\ \A g \in Files : FHeld(g)' = FHeld(g) - Bit(g = f)
  <2>1. \A x \in Bufs : BPuts(x)' = BPuts(x)
    <3> TAKE x \in Bufs
    <3>1. BPuts(x)' = BPuts(x) - ForBPut(Arg(t), x) + ForBPut(Idle, x) + ForBPut(Idle, x) + ForBPut(Idle, x) /\ BPuts(x) \in Nat
      BY <1>1, <1>2, <1>3, <1>9, PendingNat DEF Delta
    <3>2. QED BY <1>1, <1>2, <1>3, <1>9, <3>1 DEF ForBPut, Bit, Idle
  <2>2. \A x \in Bufs : BGone(x)' = BGone(x)
    <3> TAKE x \in Bufs
    <3>1. BGone(x)' = BGone(x) - ForBGone(Arg(t), x) + ForBGone(Idle, x) + ForBGone(Idle, x) + ForBGone(Idle, x) /\ BGone(x) \in Nat
      BY <1>1, <1>2, <1>3, <1>9, PendingNat DEF Delta
    <3>2. QED BY <1>1, <1>2, <1>3, <1>9, <3>1 DEF ForBGone, Bit, Idle
  <2>3. \A x \in Clients : CHeld(x)' = CHeld(x) - Bit(x = c)
    <3> TAKE x \in Clients
    <3>1. CHeld(x)' = CHeld(x) - ForClient(Arg(t), x) + ForClient(Idle, x) + ForClient(Idle, x) + ForClient(Idle, x) /\ CHeld(x) \in Nat
      BY <1>1, <1>2, <1>3, <1>9, PendingNat DEF Delta
    <3>2. QED BY <1>1, <1>2, <1>3, <1>9, <3>1 DEF ForClient, Bit, Idle
  <2>4. \A x \in Clients : CGone(x)' = CGone(x)
    <3> TAKE x \in Clients
    <3>1. CGone(x)' = CGone(x) - ForCGone(Arg(t), x) + ForCGone(Idle, x) + ForCGone(Idle, x) + ForCGone(Idle, x) /\ CGone(x) \in Nat
      BY <1>1, <1>2, <1>3, <1>9, PendingNat DEF Delta
    <3>2. QED BY <1>1, <1>2, <1>3, <1>9, <3>1 DEF ForCGone, Bit, Idle
  <2>5. \A x \in Handles : HHeld(x)' = HHeld(x) - Bit(x = h)
    <3> TAKE x \in Handles
    <3>1. HHeld(x)' = HHeld(x) - ForHandle(Arg(t), x) + ForHandle(Idle, x) + ForHandle(Idle, x) + ForHandle(Idle, x) /\ HHeld(x) \in Nat
      BY <1>1, <1>2, <1>3, <1>9, PendingNat DEF Delta
    <3>2. QED BY <1>1, <1>2, <1>3, <1>9, <3>1 DEF ForHandle, Bit, Idle
  <2>6. \A x \in Handles : HGone(x)' = HGone(x)
    <3> TAKE x \in Handles
    <3>1. HGone(x)' = HGone(x) - ForHGone(Arg(t), x) + ForHGone(Idle, x) + ForHGone(Idle, x) + ForHGone(Idle, x) /\ HGone(x) \in Nat
      BY <1>1, <1>2, <1>3, <1>9, PendingNat DEF Delta
    <3>2. QED BY <1>1, <1>2, <1>3, <1>9, <3>1 DEF ForHGone, Bit, Idle
  <2>7. \A g \in Files : FHeld(g)' = FHeld(g) - Bit(g = f)
    <3> TAKE g \in Files
    <3>1. FHeld(g)' = FHeld(g) - ForFile(Arg(t), g) + ForFile(Idle, g) + ForFile(Idle, g) + ForFile(Idle, g) /\ FHeld(g) \in Nat
      BY <1>1, <1>2, <1>3, <1>9, PendingNat DEF Delta
    <3>2. QED BY <1>1, <1>2, <1>3, <1>9, <3>1 DEF ForFile, Bit, Idle
  <2> QED BY <2>1, <2>2, <2>3, <2>4, <2>5, <2>6, <2>7
<1>11. AreaSound(v)'
  <2>1. vma'[v] = r
    BY <1>7, <1>8, VmaSet, TypeParts DEF IInv
  <2>2. Owner(h)' = p /\ file'[f].kind = "share"
    BY <1>1, <1>4, <1>6 DEF Owner
  <2> QED BY <1>8, <2>1, <2>2 DEF AreaSound
<1>12. /\ TypeOK' /\ Objects' /\ HandlesKept /\ ClientsKept /\ FilesKept
       /\ \A x \in Handles : HAreas(x)' = HAreas(x) - Bit(vma[v].handle = x) + Bit(r.handle = x)
       /\ \A g \in Files : FAreas(g)' = FAreas(g) - Bit(vma[v].file = g) + Bit(r.file = g)
       /\ \A x \in Clients : CAreas(x)' = CAreas(x) - Bit(AreaOf(v, x))
                               + Bit(r.handle # Null /\ handle[r.handle].client = x)
  BY <1>1, <1>7, <1>8, <1>9, <1>11, OneArea
<1>13. /\ \A x \in Handles : HAreas(x) \in Nat /\ HHeld(x) \in Nat /\ Bit(x = h) \in Nat
       /\ \A x \in Files : FAreas(x) \in Nat /\ FHeld(x) \in Nat /\ Bit(x = f) \in Nat
       /\ \A x \in Clients : CAreas(x) \in Nat /\ CHeld(x) \in Nat /\ Bit(x = c) \in Nat
  BY CountsNat DEF Bit
<1>14. \A x \in Handles : HAreas(x)' = HAreas(x) + Bit(x = h)
  <2> TAKE x \in Handles
  <2>1. Bit(vma[v].handle = x) = 0 /\ Bit(r.handle = x) = Bit(x = h)
    BY <1>7, <1>8 DEF Bit, NoVma, Null, Handles
  <2> QED BY <1>12, <1>13, <2>1
<1>15. \A x \in Files : FAreas(x)' = FAreas(x) + Bit(x = f)
  <2> TAKE x \in Files
  <2>1. Bit(vma[v].file = x) = 0 /\ Bit(r.file = x) = Bit(x = f)
    BY <1>7, <1>8 DEF Bit, NoVma, Null, Files
  <2> QED BY <1>12, <1>13, <2>1
<1>16. \A x \in Clients : CAreas(x)' = CAreas(x) + Bit(x = c)
  <2> TAKE x \in Clients
  <2>1. Bit(AreaOf(v, x)) = 0
    BY <1>7 DEF Bit, AreaOf, NoVma
  <2>2. h # Null
    BY DEF Handles, Null
  <2>3. Bit(r.handle # Null /\ handle[r.handle].client = x) = Bit(x = c)
    BY <1>4, <1>8, <2>2 DEF Bit
  <2> QED BY <1>12, <1>13, <2>1, <2>3
<1>17. \A x \in Handles : /\ HAreas(x)' \in Nat /\ HHeld(x)' \in Nat
                          /\ HAreas(x)' + HHeld(x)' = HAreas(x) + HHeld(x)
                          /\ HGone(x)' = HGone(x)
                          /\ handle[x].state = "dying" => HAreas(x)' = HAreas(x) /\ HHeld(x)' = HHeld(x)
  <2> TAKE x \in Handles
  <2>1. HAreas(x)' \in Nat /\ HHeld(x)' \in Nat
    BY <1>9, AreasNatNext, PendingFactsNext DEF HHeld
  <2>2. HAreas(x)' + HHeld(x)' = HAreas(x) + HHeld(x)
    BY <1>10, <1>13, <1>14
  <2>3. ASSUME handle[x].state = "dying" PROVE HAreas(x)' = HAreas(x) /\ HHeld(x)' = HHeld(x)
    <3>1. Bit(x = h) = 0
      BY <1>5, <2>3 DEF Bit
    <3> QED BY <1>10, <1>13, <1>14, <3>1
  <2> QED BY <1>10, <2>1, <2>2, <2>3
<1>18. \A x \in Clients : /\ CAreas(x)' \in Nat /\ CHeld(x)' \in Nat
                          /\ CAreas(x)' + CHeld(x)' = CAreas(x) + CHeld(x)
                          /\ CGone(x)' = CGone(x)
  <2> TAKE x \in Clients
  <2>1. CAreas(x)' \in Nat /\ CHeld(x)' \in Nat
    BY <1>9, AreasNatNext, PendingFactsNext DEF CHeld
  <2>2. CAreas(x)' + CHeld(x)' = CAreas(x) + CHeld(x)
    BY <1>10, <1>13, <1>16
  <2> QED BY <1>10, <2>1, <2>2
<1>19. \A x \in Files : /\ FAreas(x)' \in Nat /\ FHeld(x)' \in Nat
                        /\ FAreas(x)' + FHeld(x)' = FAreas(x) + FHeld(x)
  <2> TAKE x \in Files
  <2>1. FAreas(x)' \in Nat /\ FHeld(x)' \in Nat
    BY <1>9, AreasNatNext, PendingFactsNext DEF FHeld
  <2>2. FAreas(x)' + FHeld(x)' = FAreas(x) + FHeld(x)
    BY <1>10, <1>13, <1>15
  <2> QED BY <2>1, <2>2
<1>20. BufferLedger' /\ ClientLedger' /\ HandleLedger' /\ FileLedger'
  BY <1>1, <1>10, <1>17, <1>18, <1>19, Balanced
<1>21. Fits' /\ Shape'
  BY <1>1, <1>9, <1>12, StepsEnd
<1> QED BY <1>12, <1>20, <1>21 DEF IInv

(* munmap: the call puts what the area had. *)
LEMMA MunmapKeeps ==
  ASSUME IInv, NEW t \in Threads, NEW v \in Vmas, Munmap(t, v) PROVE IInv'
<1>1. /\ vma[v] # NoVma /\ vma[v].proc = Proc[t] /\ vma' = [vma EXCEPT ![v] = NoVma]
      /\ UNCHANGED <<buffer, handle, client, root, spinning, file, fds, uref>>
  BY DEF Munmap, objects
<1>2. PICK h, f : h = vma[v].handle /\ f = vma[v].file
  OBVIOUS
<1>3. PICK c : c = handle[h].client
  OBVIOUS
<1>4. /\ h \in Handles /\ handle[h].state = "live" /\ c \in Clients /\ c # Null
      /\ Owner(h) = Proc[t] /\ f \in Files /\ file[f].kind = "share" /\ CAreas(c) # 0
  BY <1>1, <1>2, <1>3, AreaThere
<1>5. client[c].state = "live" /\ client[c].task = Proc[t]
  BY <1>3, <1>4, ClientThere DEF Owner
<1>6. Call(t, <<HPut(h), CPut(c), FPut(f)>>)
  <2>1. h # Null
    BY <1>4 DEF Handles, Null
  <2> QED BY <1>2, <1>3, <2>1 DEF Munmap
<1>7. HPut(h) \in Steps /\ CPut(c) \in Steps /\ FPut(f) \in Steps /\ Stacks
  BY <1>4, FormSteps, Typed DEF IInv
<1>8. /\ work[t] = <<>> /\ Stacks' /\ Replaced(t, 0, 3) /\ work'[t] = <<HPut(h), CPut(c), FPut(f)>>
      /\ Delta(Idle, HPut(h), CPut(c), FPut(f))
  <2> HIDE DEF HPut, CPut, FPut, Idle
  <2> QED BY <1>6, <1>7, CallOf3
<1>9. /\ \A x \in Bufs : BPuts(x)' = BPuts(x) /\ BGone(x)' = BGone(x)
      /\ \A x \in Clients : CHeld(x)' = CHeld(x) + Bit(x = c) /\ CGone(x)' = CGone(x)
      /\ \A x \in Handles : HHeld(x)' = HHeld(x) + Bit(x = h) /\ HGone(x)' = HGone(x)
      /\ \A g \in Files : FHeld(g)' = FHeld(g) + Bit(g = f)
  <2>1. \A x \in Bufs : BPuts(x)' = BPuts(x)
    <3> TAKE x \in Bufs
    <3>1. BPuts(x)' = BPuts(x) - ForBPut(Idle, x) + ForBPut(HPut(h), x) + ForBPut(CPut(c), x) + ForBPut(FPut(f), x) /\ BPuts(x) \in Nat
      BY <1>4, <1>7, <1>8, PendingNat DEF Delta
    <3>2. QED BY <1>4, <1>7, <1>8, <3>1 DEF ForBPut, Bit, HPut, CPut, FPut, Idle
  <2>2. \A x \in Bufs : BGone(x)' = BGone(x)
    <3> TAKE x \in Bufs
    <3>1. BGone(x)' = BGone(x) - ForBGone(Idle, x) + ForBGone(HPut(h), x) + ForBGone(CPut(c), x) + ForBGone(FPut(f), x) /\ BGone(x) \in Nat
      BY <1>4, <1>7, <1>8, PendingNat DEF Delta
    <3>2. QED BY <1>4, <1>7, <1>8, <3>1 DEF ForBGone, Bit, HPut, CPut, FPut, Idle
  <2>3. \A x \in Clients : CHeld(x)' = CHeld(x) + Bit(x = c)
    <3> TAKE x \in Clients
    <3>1. CHeld(x)' = CHeld(x) - ForClient(Idle, x) + ForClient(HPut(h), x) + ForClient(CPut(c), x) + ForClient(FPut(f), x) /\ CHeld(x) \in Nat
      BY <1>4, <1>7, <1>8, PendingNat DEF Delta
    <3>2. QED BY <1>4, <1>7, <1>8, <3>1 DEF ForClient, Bit, HPut, CPut, FPut, Idle
  <2>4. \A x \in Clients : CGone(x)' = CGone(x)
    <3> TAKE x \in Clients
    <3>1. CGone(x)' = CGone(x) - ForCGone(Idle, x) + ForCGone(HPut(h), x) + ForCGone(CPut(c), x) + ForCGone(FPut(f), x) /\ CGone(x) \in Nat
      BY <1>4, <1>7, <1>8, PendingNat DEF Delta
    <3>2. QED BY <1>4, <1>7, <1>8, <3>1 DEF ForCGone, Bit, HPut, CPut, FPut, Idle
  <2>5. \A x \in Handles : HHeld(x)' = HHeld(x) + Bit(x = h)
    <3> TAKE x \in Handles
    <3>1. HHeld(x)' = HHeld(x) - ForHandle(Idle, x) + ForHandle(HPut(h), x) + ForHandle(CPut(c), x) + ForHandle(FPut(f), x) /\ HHeld(x) \in Nat
      BY <1>4, <1>7, <1>8, PendingNat DEF Delta
    <3>2. QED BY <1>4, <1>7, <1>8, <3>1 DEF ForHandle, Bit, HPut, CPut, FPut, Idle
  <2>6. \A x \in Handles : HGone(x)' = HGone(x)
    <3> TAKE x \in Handles
    <3>1. HGone(x)' = HGone(x) - ForHGone(Idle, x) + ForHGone(HPut(h), x) + ForHGone(CPut(c), x) + ForHGone(FPut(f), x) /\ HGone(x) \in Nat
      BY <1>4, <1>7, <1>8, PendingNat DEF Delta
    <3>2. QED BY <1>4, <1>7, <1>8, <3>1 DEF ForHGone, Bit, HPut, CPut, FPut, Idle
  <2>7. \A g \in Files : FHeld(g)' = FHeld(g) + Bit(g = f)
    <3> TAKE g \in Files
    <3>1. FHeld(g)' = FHeld(g) - ForFile(Idle, g) + ForFile(HPut(h), g) + ForFile(CPut(c), g) + ForFile(FPut(f), g) /\ FHeld(g) \in Nat
      BY <1>4, <1>7, <1>8, PendingNat DEF Delta
    <3>2. QED BY <1>4, <1>7, <1>8, <3>1 DEF ForFile, Bit, HPut, CPut, FPut, Idle
  <2> QED BY <2>1, <2>2, <2>3, <2>4, <2>5, <2>6, <2>7
<1>10. NoVma \in VmaRecs /\ NoVma.handle = Null /\ NoVma.file = Null
  BY DEF VmaRecs, NoVma
<1>11. vma'[v] = NoVma
  BY <1>1, <1>10, VmaSet, TypeParts DEF IInv
<1>12. AreaSound(v)'
  BY <1>11 DEF AreaSound
<1>13. /\ TypeOK' /\ Objects' /\ HandlesKept /\ ClientsKept /\ FilesKept
       /\ \A x \in Handles : HAreas(x)' = HAreas(x) - Bit(vma[v].handle = x) + Bit(NoVma.handle = x)
       /\ \A g \in Files : FAreas(g)' = FAreas(g) - Bit(vma[v].file = g) + Bit(NoVma.file = g)
       /\ \A x \in Clients : CAreas(x)' = CAreas(x) - Bit(AreaOf(v, x))
                               + Bit(NoVma.handle # Null /\ handle[NoVma.handle].client = x)
  <2> HIDE DEF NoVma
  <2> QED BY <1>1, <1>8, <1>10, <1>12, OneArea
<1>14. /\ \A x \in Handles : HAreas(x) \in Nat /\ HHeld(x) \in Nat /\ Bit(x = h) \in Nat
       /\ \A x \in Files : FAreas(x) \in Nat /\ FHeld(x) \in Nat /\ Bit(x = f) \in Nat
       /\ \A x \in Clients : CAreas(x) \in Nat /\ CHeld(x) \in Nat /\ Bit(x = c) \in Nat
  BY CountsNat DEF Bit
<1>15. \A x \in Handles : HAreas(x)' = HAreas(x) - Bit(x = h)
  <2> TAKE x \in Handles
  <2>1. Bit(vma[v].handle = x) = Bit(x = h) /\ Bit(NoVma.handle = x) = 0
    BY <1>2, <1>10 DEF Bit, Null, Handles
  <2> QED BY <1>13, <1>14, <2>1
<1>16. \A x \in Files : FAreas(x)' = FAreas(x) - Bit(x = f)
  <2> TAKE x \in Files
  <2>1. Bit(vma[v].file = x) = Bit(x = f) /\ Bit(NoVma.file = x) = 0
    BY <1>2, <1>10 DEF Bit, Null, Files
  <2> QED BY <1>13, <1>14, <2>1
<1>17. \A x \in Clients : CAreas(x)' = CAreas(x) - Bit(x = c)
  <2> TAKE x \in Clients
  <2>1. h # Null
    BY <1>4 DEF Handles, Null
  <2>2. Bit(AreaOf(v, x)) = Bit(x = c)
    BY <1>2, <1>3, <2>1 DEF Bit, AreaOf
  <2>3. Bit(NoVma.handle # Null /\ handle[NoVma.handle].client = x) = 0
    BY <1>10 DEF Bit
  <2> QED BY <1>13, <1>14, <2>2, <2>3
<1>18. \A x \in Handles : /\ HAreas(x)' \in Nat /\ HHeld(x)' \in Nat
                          /\ HAreas(x)' + HHeld(x)' = HAreas(x) + HHeld(x)
                          /\ HGone(x)' = HGone(x)
                          /\ handle[x].state = "dying" => HAreas(x)' = HAreas(x) /\ HHeld(x)' = HHeld(x)
  <2> TAKE x \in Handles
  <2>1. HAreas(x)' \in Nat /\ HHeld(x)' \in Nat
    BY <1>8, AreasNatNext, PendingFactsNext DEF HHeld
  <2>2. HAreas(x)' + HHeld(x)' = HAreas(x) + HHeld(x)
    BY <1>9, <1>14, <1>15
  <2>3. ASSUME handle[x].state = "dying" PROVE HAreas(x)' = HAreas(x) /\ HHeld(x)' = HHeld(x)
    <3>1. Bit(x = h) = 0
      BY <1>4, <2>3 DEF Bit
    <3> QED BY <1>9, <1>14, <1>15, <3>1
  <2> QED BY <1>9, <2>1, <2>2, <2>3
<1>19. \A x \in Clients : /\ CAreas(x)' \in Nat /\ CHeld(x)' \in Nat
                          /\ CAreas(x)' + CHeld(x)' = CAreas(x) + CHeld(x)
                          /\ CGone(x)' = CGone(x)
  <2> TAKE x \in Clients
  <2>1. CAreas(x)' \in Nat /\ CHeld(x)' \in Nat
    BY <1>8, AreasNatNext, PendingFactsNext DEF CHeld
  <2>2. CAreas(x)' + CHeld(x)' = CAreas(x) + CHeld(x)
    BY <1>9, <1>14, <1>17
  <2> QED BY <1>9, <2>1, <2>2
<1>20. \A x \in Files : /\ FAreas(x)' \in Nat /\ FHeld(x)' \in Nat
                        /\ FAreas(x)' + FHeld(x)' = FAreas(x) + FHeld(x)
  <2> TAKE x \in Files
  <2>1. FAreas(x)' \in Nat /\ FHeld(x)' \in Nat
    BY <1>8, AreasNatNext, PendingFactsNext DEF FHeld
  <2>2. FAreas(x)' + FHeld(x)' = FAreas(x) + FHeld(x)
    BY <1>9, <1>14, <1>16
  <2> QED BY <2>1, <2>2
<1>21. BufferLedger' /\ ClientLedger' /\ HandleLedger' /\ FileLedger'
  BY <1>1, <1>9, <1>18, <1>19, <1>20, Balanced
<1>22. StepFits(t, HPut(h))' /\ StepFits(t, CPut(c))' /\ StepFits(t, FPut(f))'
  <2>1. Owner(h)' = Proc[t] /\ handle'[h].client = c /\ client' = client /\ file' = file
    BY <1>1, <1>3, <1>4 DEF Owner
  <2>2. StepFits(t, HPut(h))'
    BY <1>4, <2>1 DEF StepFits, HPut
  <2>3. StepFits(t, CPut(c))'
    BY <1>5, <2>1 DEF StepFits, CPut
  <2>4. StepFits(t, FPut(f))'
    BY <1>4, <2>1 DEF StepFits, FPut
  <2> QED BY <2>2, <2>3, <2>4
<1>23. ImportHolds(t)'
  <2>1. work'[t][1] = HPut(h)
    BY <1>8
  <2> QED BY <2>1 DEF ImportHolds, HPut
<1>24. Fits' /\ Shape'
  <2>1. HPut(h).op \notin Single /\ Waits(CPut(c)) /\ Waits(FPut(f))
    BY DEF HPut, CPut, FPut, Waits, Single
  <2> HIDE DEF HPut, CPut, FPut, Idle
  <2> QED BY <1>7, <1>8, <1>13, <1>22, <1>23, <2>1, Call3Comes
<1> QED BY <1>13, <1>21, <1>24 DEF IInv
-----------------------------------------------------------------------------
(* ION_IOC_ALLOC: a buffer and a handle that nothing referred to before.   *)
LEMMA AllocKeeps ==
  ASSUME IInv, NEW t \in Threads, NEW f \in Files, Alloc(t, f) PROVE IInv'
<1>1. /\ f \in fds[Proc[t]] /\ file[f].kind = "dev" /\ Call(t, <<>>)
      /\ UNCHANGED <<client, root, spinning, file, fds, vma>>
  BY DEF Alloc, DevFds
<1>2. PICK p \in Procs : p = Proc[t]
  BY Typed DEF IInv
<1>3. PICK c : c = file[f].obj
  OBVIOUS
<1>4. c \in Clients /\ client[c].state = "live" /\ client[c].task = p
  BY <1>1, <1>2, <1>3, OpenFile
<1> DEFINE q == [state |-> "live", ref |-> 1]
<1>5. PICK b \in Bufs, h \in Handles :
        /\ buffer[b].state = "none" /\ NewHandle(h, c, b)
        /\ buffer' = [buffer EXCEPT ![b] = q]
        /\ uref' = [uref EXCEPT ![p][h] = 1]
  BY <1>2, <1>3 DEF Alloc, IsFresh
<1>6. q \in BufferRecs /\ q.state = "live" /\ q.ref = 1
  BY DEF BufferRecs
<1> HIDE DEF q
<1> DEFINE r == [HandleCreate(c, b) EXCEPT !.intree = TRUE]
<1>7. handle[h].state = "none" /\ handle' = [handle EXCEPT ![h] = r]
  BY <1>5 DEF NewHandle, IsFresh, HandleAdd
<1>8. handle[h].ref = 0 /\ handle[h].client = Null /\ HHeld(h) = 0
  <2>1. HandleLine(h) /\ HandleSound(h) /\ Uses(h) \in Nat /\ HAreas(h) \in Nat /\ HHeld(h) \in Nat
    BY CountsNat DEF IInv, HandleLedger, Objects
  <2>2. handle[h].ref = 0 /\ handle[h].client = Null
    BY <1>7, <2>1 DEF HandleLine, HandleSound
  <2> QED BY <2>1, <2>2 DEF HandleLine
<1>9. uref[p][h] = 0
  <2>1. HandleLine(h)
    BY DEF IInv, HandleLedger
  <2> QED BY <1>8, <2>1 DEF HandleLine
<1>10. /\ r \in HandleRecs /\ r.state = "live" /\ r.client = c /\ r.buf = b /\ r.intree
       /\ r.ref = handle[h].ref + 1
  <2>1. HandleCreate(c, b) \in HandleRecs
    BY <1>4 DEF HandleRecs, HandleCreate
  <2>2. r \in HandleRecs
    BY <2>1 DEF HandleRecs
  <2>3. r.state = "live" /\ r.client = c /\ r.buf = b
    BY DEF HandleCreate
  <2>4. r.intree
    BY <2>1 DEF HandleRecs
  <2>5. r.ref = handle[h].ref + 1
    BY <1>8 DEF HandleCreate
  <2> QED BY <2>2, <2>3, <2>4, <2>5
<1> HIDE DEF r
<1>11. Stacks /\ buffer \in AllBuffers /\ uref \in AllUrefs /\ \A x \in Procs : uref[x] \in [Handles -> Nat]
  BY TypeParts DEF IInv, AllUrefs
<1>12. work[t] = <<>> /\ work' = work /\ Stacks' /\ Delta(Idle, Idle, Idle, Idle)
  <2> HIDE DEF Idle
  <2> QED BY <1>1, <1>11, CallAndReturn
<1>13. /\ \A x \in Bufs : BPuts(x)' = BPuts(x) /\ BGone(x)' = BGone(x)
       /\ \A x \in Clients : CHeld(x)' = CHeld(x) /\ CGone(x)' = CGone(x)
       /\ \A x \in Handles : HHeld(x)' = HHeld(x) /\ HGone(x)' = HGone(x)
       /\ \A g \in Files : FHeld(g)' = FHeld(g)
  BY <1>11, <1>12, PendingNat
     DEF Delta, ForBPut, ForBGone, ForClient, ForCGone, ForHandle, ForHGone, ForFile, Bit, Idle
<1>14. /\ uref' \in AllUrefs /\ uref'[p][h] = 1
       /\ \A y \in Procs : \A x \in Handles : y # p \/ x # h => uref'[y][x] = uref[y][x]
  BY <1>5, <1>11 DEF AllUrefs
<1>15. Taken(h, c, b, p, r)
  <2>1. uref'[p][h] \in Nat /\ HHeld(h)' \in Nat /\ uref'[p][h] + HHeld(h)' = uref[p][h] + HHeld(h) + 1
    BY <1>8, <1>9, <1>13, <1>14
  <2> QED BY <1>1, <1>4, <1>7, <1>10, <1>13, <1>14, <2>1 DEF Taken
<1>16. /\ handle' \in AllHandles /\ HandleLedger' /\ Objects'
       /\ HandlesKept /\ ClientsKept /\ FilesKept
       /\ \A x \in Bufs : /\ OnFiles(x)' = OnFiles(x)
                          /\ OnHandles(x)' = OnHandles(x) + Bit(x = b /\ handle[h].state = "none")
       /\ \A x \in Clients : CFiles(x)' = CFiles(x) /\ CAreas(x)' = CAreas(x)
  BY <1>4, <1>10, <1>15, HandleTaken
<1>17. buffer' \in AllBuffers /\ buffer'[b] = q /\ \A x \in Bufs \ {b} : buffer'[x] = buffer[x]
  BY <1>5, <1>6, <1>11, BufferSet
<1>18. BufferLedger'
  <2> SUFFICES ASSUME NEW x \in Bufs PROVE BufferLine(x)'
    BY DEF BufferLedger
  <2>1. /\ BufferLine(x) /\ OnHandles(x) \in Nat /\ OnFiles(x) \in Nat /\ BPuts(x) \in Nat
        /\ BGone(x) \in Nat /\ buffer[x].ref \in Nat
    BY CountsNat DEF IInv, BufferLedger
  <2>2. CASE x = b
    <3>1. OnHandles(x) = 0 /\ OnFiles(x) = 0 /\ BPuts(x) = 0 /\ BGone(x) = 0
      BY <1>5, <2>1, <2>2 DEF BufferLine, Bit
    <3>2. OnHandles(x)' = 1
      BY <1>7, <1>16, <2>2, <3>1 DEF Bit
    <3>3. buffer'[x].ref = 1 /\ buffer'[x].state = "live"
      BY <1>6, <1>17, <2>2
    <3> QED BY <1>13, <1>16, <3>1, <3>2, <3>3 DEF BufferLine, Bit
  <2>3. CASE x # b
    <3>1. OnHandles(x)' = OnHandles(x)
      <4>1. Bit(x = b /\ handle[h].state = "none") = 0
        BY <2>3 DEF Bit
      <4> QED BY <1>16, <2>1, <4>1
    <3> QED BY <1>13, <1>16, <1>17, <2>1, <2>3, <3>1 DEF BufferLine
  <2> QED BY <2>2, <2>3
<1>19. TypeOK'
  BY <1>1, <1>12, <1>14, <1>16, <1>17, TypeParts, TypePartsNext DEF IInv, SharesBuffer
<1>20. ClientLedger'
  BY <1>1, <1>13, <1>16 DEF IInv, ClientLedger, ClientLine
<1>21. FileLedger'
  <2>1. \A g \in Files : FFds(g)' = FFds(g) /\ FAreas(g)' = FAreas(g)
    BY <1>1, SameFds, SameAreas
  <2> QED BY <1>1, <1>13, <2>1 DEF IInv, FileLedger, FileLine
<1>22. Fits' /\ Shape'
  BY <1>12, <1>16, Call0Comes
<1> QED BY <1>16, <1>18, <1>19, <1>20, <1>21, <1>22 DEF IInv

(* ION_IOC_SHARE: a file with a reference of its own on the buffer.        *)
LEMMA ShareKeeps ==
  ASSUME IInv, OneThreadEach, NEW t \in Threads, NEW f \in Files, NEW h \in Handles, Share(t, f, h)
  PROVE  IInv'
<1>1. /\ f \in fds[Proc[t]] /\ file[f].kind = "dev" /\ Call(t, <<>>) /\ h \in Tree(file[f].obj)
      /\ UNCHANGED <<handle, client, root, spinning, vma, uref>>
  BY DEF Share, DevFds
<1>2. PICK p \in Procs : p = Proc[t]
  BY Typed DEF IInv
<1>3. PICK c, b : c = file[f].obj /\ b = handle[h].buf
  OBVIOUS
<1>4. c \in Clients /\ client[c].task = p
  BY <1>1, <1>2, <1>3, OpenFile
<1>5. Stacks /\ fds \in AllFds
  BY TypeParts DEF IInv
<1>6. work[t] = <<>> /\ work' = work /\ Stacks' /\ Delta(Idle, Idle, Idle, Idle)
  <2> HIDE DEF Idle
  <2> QED BY <1>1, <1>5, CallAndReturn
<1>7. b \in Bufs /\ OnHandles(b) # 0
  BY <1>1, <1>2, <1>3, <1>4, <1>6, OwnHandle
<1>8. buffer[b].ref # 0
  BY <1>7, BufferThere
<1> DEFINE r == [state |-> "live", ref |-> 1, kind |-> "share", obj |-> b]
<1>9. PICK s \in Files : file[s].state = "none" /\ file' = [file EXCEPT ![s] = r] /\ Install(p, s)
  BY <1>2, <1>3 DEF Share, NewFile, IsFresh
<1>10. buffer' = [buffer EXCEPT ![b].ref = @ + 1]
  BY <1>3 DEF Share
<1>11. r \in FileRecs /\ r.state = "live" /\ r.ref = 1 /\ r.kind = "share" /\ r.obj = b
  BY <1>7 DEF FileRecs
<1> HIDE DEF r
<1>12. /\ \A x \in Bufs : BPuts(x)' = BPuts(x) /\ BGone(x)' = BGone(x)
       /\ \A x \in Clients : CHeld(x)' = CHeld(x) /\ CGone(x)' = CGone(x)
       /\ \A x \in Handles : HHeld(x)' = HHeld(x) /\ HGone(x)' = HGone(x)
       /\ \A g \in Files : FHeld(g)' = FHeld(g)
  BY <1>5, <1>6, PendingNat
     DEF Delta, ForBPut, ForBGone, ForClient, ForCGone, ForHandle, ForHGone, ForFile, Bit, Idle
<1>13. /\ file' \in AllFiles /\ \A g \in Files : SharesBuffer(g)'
       /\ file'[s] = r /\ \A g \in Files \ {s} : file'[g] = file[g]
       /\ \A x \in Bufs : OnFiles(x)' = OnFiles(x) - FileOn(file[s], x) + FileOn(r, x)
       /\ \A x \in Clients : CFiles(x)' = CFiles(x) - FileOf(file[s], x) + FileOf(r, x)
  BY <1>7, <1>9, <1>11, OneFile
<1>14. fds' \in AllFds /\ fds'[p] = fds[p] \cup {s} /\ \A x \in Procs \ {p} : fds'[x] = fds[x]
  BY <1>5, <1>9 DEF AllFds, Install
<1>15. \A g \in Files : /\ FileLine(g) /\ FileSound(g)
                        /\ FFds(g) \in Nat /\ FAreas(g) \in Nat /\ FHeld(g) \in Nat
  BY CountsNat DEF IInv, FileLedger, Objects
<1>16. FFds(s) = 0 /\ FAreas(s) = 0 /\ FHeld(s) = 0 /\ file[s].kind = "none"
  <2>1. file[s].ref = 0 /\ file[s].kind = "none"
    BY <1>9, <1>15 DEF FileLine, FileSound
  <2>2. 0 = FFds(s) + FAreas(s) + FHeld(s)
    BY <1>15, <2>1 DEF FileLine
  <2>3. FFds(s) \in Nat /\ FAreas(s) \in Nat /\ FHeld(s) \in Nat
    BY <1>15
  <2> QED BY <2>1, <2>2, <2>3
<1>17. s \notin fds[p] /\ \A v \in Vmas : vma[v].file # s
  <2>1. FdHolders(s) = {} /\ FileAreas(s) = {}
    BY <1>16, FiniteCounts
  <2> QED BY <2>1 DEF FdHolders, FileAreas
<1>18. \A g \in Files : FileSound(g)'
  <2> TAKE g \in Files
  <2>1. CASE g = s
    BY <1>11, <1>13, <2>1 DEF FileSound
  <2>2. CASE g # s
    BY <1>13, <1>15, <2>2 DEF FileSound
  <2> QED BY <2>1, <2>2
<1>19. \A x \in Procs, g \in Files : FdSound(x, g)'
  <2> TAKE x \in Procs, g \in Files
  <2>1. CASE g = s
    BY <1>11, <1>13, <2>1 DEF FdSound
  <2>2. CASE g # s
    <3>1. file'[g] = file[g] /\ FdSound(x, g) /\ (g \in fds'[x] => g \in fds[x])
      BY <1>13, <1>14, <2>2 DEF IInv, Objects
    <3> QED BY <1>1, <3>1 DEF FdSound
  <2> QED BY <2>1, <2>2
<1>20. \A v \in Vmas : vma[v] # NoVma => file'[vma[v].file].kind = "share"
  BY <1>13, <1>17 DEF IInv, Objects, AreaSound
<1>21. \A x \in Clients : client'[x].intree => client[x].state = "live"
  BY <1>1 DEF IInv, Objects, ClientSound
<1>22. /\ HandleLedger' /\ Objects' /\ HandlesKept /\ ClientsKept
       /\ \A x \in Bufs : OnHandles(x)' = OnHandles(x)
       /\ \A x \in Clients : CAreas(x)' = CAreas(x)
       /\ \A g \in Files : FAreas(g)' = FAreas(g)
  BY <1>1, <1>12, <1>18, <1>19, <1>20, <1>21, FilesChange
<1>23. buffer' \in AllBuffers /\ BufferLedger'
  <2>1. \A x \in Bufs : OnHandles(x)' + OnFiles(x)' = OnHandles(x) + OnFiles(x) + Bit(x = b)
    <3> TAKE x \in Bufs
    <3>1. FileOn(file[s], x) = 0 /\ FileOn(r, x) = Bit(x = b) /\ Bit(x = b) \in Nat
      BY <1>9, <1>11 DEF FileOn, Bit
    <3>2. OnFiles(x) \in Nat /\ OnHandles(x) \in Nat
      BY CountsNat
    <3> QED BY <1>13, <1>22, <3>1, <3>2
  <2> QED BY <1>7, <1>8, <1>10, <1>12, <2>1, BufferTaken
<1>24. TypeOK'
  BY <1>1, <1>6, <1>13, <1>14, <1>23, TypeParts, TypePartsNext DEF IInv
<1>25. ClientLedger'
  <2>1. \A x \in Clients : CFiles(x)' = CFiles(x)
    <3> TAKE x \in Clients
    <3>1. FileOf(file[s], x) = 0 /\ FileOf(r, x) = 0 /\ CFiles(x) \in Nat
      BY <1>9, <1>11, CountsNat DEF FileOf, Bit
    <3> QED BY <1>13, <3>1
  <2> QED BY <1>1, <1>12, <1>22, <2>1 DEF IInv, ClientLedger, ClientLine
<1>26. FileLedger'
  <2> SUFFICES ASSUME NEW g \in Files PROVE FileLine(g)'
    BY DEF FileLedger
  <2>1. FFds(g)' = FFds(g) - Bit(g \in fds[p]) + Bit(g \in fds'[p])
    BY <1>14, FdChanges
  <2>2. CASE g = s
    <3>1. Bit(g \in fds[p]) = 0 /\ Bit(g \in fds'[p]) = 1
      BY <1>14, <1>17, <2>2 DEF Bit
    <3>2. FFds(g)' = 1
      BY <1>16, <2>1, <2>2, <3>1
    <3>3. file'[g].ref = 1 /\ file'[g].state = "live"
      BY <1>11, <1>13, <2>2
    <3> QED BY <1>12, <1>16, <1>22, <2>2, <3>2, <3>3 DEF FileLine
  <2>3. CASE g # s
    <3>1. Bit(g \in fds[p]) = Bit(g \in fds'[p]) /\ Bit(g \in fds[p]) \in Nat
      BY <1>14, <2>3 DEF Bit
    <3>2. FFds(g)' = FFds(g)
      BY <1>15, <2>1, <3>1
    <3> QED BY <1>12, <1>13, <1>15, <1>22, <2>3, <3>2 DEF FileLine
  <2> QED BY <2>2, <2>3
<1>27. FilesKept
  BY <1>13, <1>16 DEF FilesKept
<1>28. Fits' /\ Shape'
  BY <1>6, <1>22, <1>27, Call0Comes
<1> QED BY <1>22, <1>23, <1>24, <1>25, <1>26, <1>28 DEF IInv
-----------------------------------------------------------------------------
(* What the invariant says of the properties that Ion's runs check.        *)

(* It holds before any file is open. *)
LEMMA InitHolds == Init => IInv
<1> SUFFICES ASSUME Init PROVE IInv
  OBVIOUS
<1>1. /\ buffer = [b \in Bufs |-> NoBuffer] /\ handle = [h \in Handles |-> NoHandle]
      /\ client = [c \in Clients |-> NoClient] /\ root = Null /\ spinning = {}
      /\ file = [f \in Files |-> NoFile] /\ fds = [p \in Procs |-> {}]
      /\ vma = [v \in Vmas |-> NoVma] /\ uref = [p \in Procs |-> [h \in Handles |-> 0]]
      /\ work = [t \in Threads |-> <<>>]
  BY DEF Init
<1>2. \A b \in Bufs : buffer[b].state = "none" /\ buffer[b].ref = 0
  BY <1>1 DEF NoBuffer
<1>3. \A h \in Handles : /\ handle[h].state = "none" /\ handle[h].ref = 0 /\ handle[h].client = Null
                         /\ handle[h].intree = FALSE
  BY <1>1 DEF NoHandle
<1>4. \A c \in Clients : client[c].state = "none" /\ client[c].ref = 0 /\ client[c].intree = FALSE
  BY <1>1 DEF NoClient
<1>5. \A f \in Files : file[f].state = "none" /\ file[f].ref = 0 /\ file[f].kind = "none"
  BY <1>1 DEF NoFile
<1>6. Stacks
  <2>1. <<>> \in Seq(Steps)
    BY EmptySeq
  <2> QED BY <1>1, <2>1 DEF Stacks, AllStacks
<1>7. TypeOK
  <2>1. NoBuffer \in BufferRecs
    BY DEF BufferRecs, NoBuffer
  <2>2. NoHandle \in HandleRecs
    BY DEF HandleRecs, NoHandle
  <2>3. NoClient \in ClientRecs
    BY DEF ClientRecs, NoClient
  <2>4. NoFile \in FileRecs
    BY DEF FileRecs, NoFile
  <2>5. NoVma \in VmaRecs
    BY DEF VmaRecs, NoVma
  <2>6. buffer \in AllBuffers /\ handle \in AllHandles /\ client \in AllClients
    BY <1>1, <2>1, <2>2, <2>3 DEF AllBuffers, AllHandles, AllClients
  <2>7. file \in AllFiles /\ vma \in AllVmas /\ fds \in AllFds /\ uref \in AllUrefs
    BY <1>1, <2>4, <2>5 DEF AllFiles, AllVmas, AllFds, AllUrefs
  <2>8. \A f \in Files : SharesBuffer(f)
    BY <1>5 DEF SharesBuffer
  <2> QED BY <1>1, <1>6, <2>6, <2>7, <2>8, TypeParts
<1>8. \A t \in Threads : work[t] = <<>> /\ Len(work[t]) = 0
  BY <1>1, EmptySeq
<1>9. \A S : Pending(S) = 0
  BY <1>6, <1>8, PendingFacts
<1>10. \A b \in Bufs : OnHandles(b) = 0 /\ OnFiles(b) = 0
  <2> TAKE b \in Bufs
  <2>1. BufferHandles(b) = {} /\ BufferFiles(b) = {}
    BY <1>3, <1>5 DEF BufferHandles, BufferFiles
  <2> QED BY <2>1, FiniteCounts
<1>11. \A v \in Vmas : vma[v] = NoVma /\ vma[v].handle = Null /\ vma[v].file = Null
  BY <1>1 DEF NoVma
<1>12. \A c \in Clients : CFiles(c) = 0 /\ CAreas(c) = 0
  <2> TAKE c \in Clients
  <2>1. ClientFiles(c) = {} /\ ClientAreas(c) = {}
    BY <1>5, <1>11 DEF ClientFiles, ClientAreas
  <2> QED BY <2>1, FiniteCounts
<1>13. \A h \in Handles : HAreas(h) = 0 /\ Uses(h) = 0
  <2> TAKE h \in Handles
  <2>1. HandleAreas(h) = {}
    BY <1>11 DEF HandleAreas, Handles, Null
  <2> QED BY <1>3, <2>1, FiniteCounts DEF Uses
<1>14. \A f \in Files : FFds(f) = 0 /\ FAreas(f) = 0
  <2> TAKE f \in Files
  <2>1. FdHolders(f) = {} /\ FileAreas(f) = {}
    BY <1>1, <1>11 DEF FdHolders, FileAreas, Files, Null
  <2> QED BY <2>1, FiniteCounts
<1>15. BufferLedger
  BY <1>2, <1>9, <1>10 DEF BufferLedger, BufferLine, BPuts, BGone, Bit
<1>16. ClientLedger
  BY <1>4, <1>9, <1>12 DEF ClientLedger, ClientLine, CHeld, CGone, Bit
<1>17. HandleLedger
  <2>1. \A p \in Procs, h \in Handles : uref[p][h] = 0
    BY <1>1
  <2> QED BY <1>3, <1>9, <1>13, <2>1 DEF HandleLedger, HandleLine, HHeld, HGone, Bit
<1>18. FileLedger
  BY <1>5, <1>9, <1>14 DEF FileLedger, FileLine, FHeld
<1>19. Objects
  <2>1. \A p \in Procs : fds[p] = {}
    BY <1>1
  <2> QED BY <1>3, <1>4, <1>5, <1>11, <2>1
          DEF Objects, HandleSound, ClientSound, FileSound, FdSound, AreaSound
<1>20. Fits /\ Shape
  BY <1>8 DEF Fits, Shape, Below2, Alone, ImportHolds
<1> QED BY <1>7, <1>15, <1>16, <1>17, <1>18, <1>19, <1>20 DEF IInv

(* The ledgers of live objects are what RefsExact asks for. *)
LEMMA LedgersAreExact == IInv => RefsExact
<1> SUFFICES ASSUME IInv PROVE RefsExact
  OBVIOUS
<1>1. BufferRefExact
  BY DEF IInv, BufferLedger, BufferLine, BufferRefExact, OnHandles, OnFiles, BPuts
<1>2. HandleRefExact
  <2> SUFFICES ASSUME NEW h \in Handles, handle[h].state = "live"
               PROVE  /\ handle[h].ref = uref[Owner(h)][h] + Cardinality(HandleAreas(h))
                                           + Pending(HandleSteps(h))
                      /\ \A p \in Procs \ {Owner(h)} : uref[p][h] = 0
    BY DEF HandleRefExact
  <2>1. HandleLine(h) /\ HandleSound(h)
    BY DEF IInv, HandleLedger, Objects
  <2>2. Uses(h) = uref[Owner(h)][h]
    BY <2>1 DEF Uses, HandleSound
  <2> QED BY <2>1, <2>2 DEF HandleLine, HAreas, HHeld
<1>3. ClientRefExact
  BY DEF IInv, ClientLedger, ClientLine, ClientRefExact, CFiles, CAreas, CHeld
<1> QED BY <1>1, <1>2, <1>3 DEF RefsExact, IInv

(* A step that touches an object is a reference to it, or its destroyer.   *)
LEMMA StepsTouchWhatIsThere == IInv => NoUseAfterFree
<1> SUFFICES ASSUME IInv, NEW t \in Threads, work[t] # <<>>, NEW s, s = Arg(t)
             PROVE  /\ s.op \in {"hput", "herase", "free", "mmapMap"} => handle[s.h].state # "freed"
                    /\ s.op = "hput" => handle[s.h].ref > 0
                    /\ s.op \in {"bput", "bdestroy", "import"} => buffer[s.b].state = "live"
                    /\ s.op = "bput" => buffer[s.b].ref > 0
                    /\ s.op \in {"cput", "cdestroy", "import", "mmapImport", "mmapMap"}
                         => client[s.c].state = "live"
                    /\ s.op = "cput" => client[s.c].ref > 0
                    /\ s.op = "herase" => client[handle[s.h].client].state = "live"
  BY DEF NoUseAfterFree
<1>1. Stacks /\ s \in Steps /\ StepFits(t, s) /\ s = work[t][1] /\ 1 \in 1 .. Len(work[t])
  BY TopFits
<1>2. ASSUME s.op \in {"hput", "free", "mmapMap"}
      PROVE  handle[s.h].state # "freed" /\ handle[s.h].ref > 0
  <2>1. HHeld(s.h) # 0 /\ s.h \in Handles
    BY <1>1, <1>2, StepCounts, StepFields
  <2> QED BY <2>1, HandleThere
<1>3. ASSUME s.op = "herase"
      PROVE  handle[s.h].state # "freed" /\ client[handle[s.h].client].state = "live"
  <2>1. PICK h \in Handles : h = s.h
    BY <1>1, <1>3, StepFields
  <2>2. HGone(h) # 0
    BY <1>1, <1>3, <2>1, StepCounts
  <2>3. HandleLine(h) /\ HandleSound(h)
    BY DEF IInv, HandleLedger, Objects
  <2>4. handle[h].state = "dying"
    BY <2>2, <2>3 DEF HandleLine, Bit
  <2> QED BY <2>1, <2>3, <2>4 DEF HandleSound
<1>4. ASSUME s.op = "bput"
      PROVE  buffer[s.b].state = "live" /\ buffer[s.b].ref > 0
  <2>1. BPuts(s.b) # 0 /\ s.b \in Bufs
    BY <1>1, <1>4, StepCounts, StepFields
  <2> QED BY <2>1, BufferThere
<1>5. ASSUME s.op = "bdestroy" PROVE buffer[s.b].state = "live"
  <2>1. PICK b \in Bufs : b = s.b
    BY <1>1, <1>5, StepFields
  <2>2. BGone(b) # 0 /\ BufferLine(b)
    BY <1>1, <1>5, <2>1, StepCounts DEF IInv, BufferLedger
  <2> QED BY <2>1, <2>2 DEF BufferLine, Bit
<1>6. ASSUME s.op = "import" PROVE buffer[s.b].state = "live" /\ client[s.c].state = "live"
  <2>1. PICK b, c : b = s.b /\ c = s.c
    OBVIOUS
  <2>2. b \in Bufs /\ buffer[b].ref # 0 /\ client[c].state = "live"
    BY <1>6, <2>1, ImportArgs
  <2>3. BufferLine(b)
    BY <2>2 DEF IInv, BufferLedger
  <2> QED BY <2>1, <2>2, <2>3 DEF BufferLine
<1>7. ASSUME s.op \in {"cput", "cdestroy", "mmapImport", "mmapMap"} PROVE client[s.c].state = "live"
  BY <1>1, <1>7 DEF StepFits
<1>8. ASSUME s.op = "cput" PROVE client[s.c].ref > 0
  <2>1. CHeld(s.c) # 0 /\ s.c \in Clients
    BY <1>1, <1>8, StepCounts, StepFields
  <2> QED BY <2>1, ClientThere
<1> QED BY <1>2, <1>3, <1>4, <1>5, <1>6, <1>7, <1>8

(* An area counts for its handle and client, a shared file for its buffer. *)
LEMMA WhatIsReachedIsCounted == IInv => ReachablePinned
<1> SUFFICES ASSUME IInv PROVE ReachablePinned
  OBVIOUS
<1>1. MappingPinsClient
  <2> SUFFICES ASSUME NEW v \in Vmas, vma[v].handle # Null
               PROVE  /\ handle[vma[v].handle].state = "live"
                      /\ client[handle[vma[v].handle].client].state = "live"
    BY DEF MappingPinsClient
  <2>1. vma[v] # NoVma
    BY DEF NoVma
  <2>2. PICK h, c : h = vma[v].handle /\ c = handle[h].client
    OBVIOUS
  <2>3. handle[h].state = "live" /\ c \in Clients /\ CAreas(c) # 0
    BY <2>1, <2>2, AreaThere
  <2> QED BY <2>2, <2>3, ClientThere
<1>2. FdPinsBuffer
  <2> SUFFICES ASSUME NEW f \in Files, file[f].state = "live", file[f].kind = "share"
               PROVE  buffer[file[f].obj].state = "live" /\ buffer[file[f].obj].ref > 0
    BY DEF FdPinsBuffer
  <2>1. PICK b \in Bufs : b = file[f].obj
    BY Typed DEF IInv
  <2>2. f \in BufferFiles(b)
    BY <2>1 DEF BufferFiles
  <2>3. OnFiles(b) # 0
    BY <2>2, FiniteCounts
  <2> QED BY <2>1, <2>3, BufferThere
<1> QED BY <1>1, <1>2 DEF ReachablePinned

(* With no file open, no area and no call, every count is zero; and an     *)
(* object with count zero is being destroyed by a call.                    *)
LEMMA IdleHoldsNothing == IInv => NothingLeft
<1> SUFFICES ASSUME IInv, \A t \in Threads : work[t] = <<>>, \A p \in Procs : fds[p] = {},
                    \A v \in Vmas : vma[v] = NoVma
             PROVE  /\ \A b \in Bufs : buffer[b].state # "live"
                    /\ \A h \in Handles : handle[h].state \in {"none", "freed"}
                    /\ \A c \in Clients : client[c].state # "live"
  BY DEF NothingLeft
<1>1. \A S : Pending(S) = 0
  <2>1. \A t \in Threads : Len(work[t]) = 0
    BY EmptySeq
  <2> QED BY <2>1, PendingFacts, Typed DEF IInv
<1>2. \A f \in Files : file[f].state # "live"
  <2> TAKE f \in Files
  <2>1. FdHolders(f) = {} /\ FileAreas(f) = {}
    BY DEF FdHolders, FileAreas, NoVma, Files, Null
  <2>2. FFds(f) = 0 /\ FAreas(f) = 0 /\ FHeld(f) = 0
    BY <1>1, <2>1, FiniteCounts DEF FHeld
  <2>3. FileLine(f)
    BY DEF IInv, FileLedger
  <2> QED BY <2>2, <2>3 DEF FileLine
<1>3. \A c \in Clients : client[c].state # "live"
  <2> TAKE c \in Clients
  <2>1. ClientFiles(c) = {} /\ ClientAreas(c) = {}
    BY <1>2 DEF ClientFiles, ClientAreas, NoVma
  <2>2. CFiles(c) = 0 /\ CAreas(c) = 0 /\ CHeld(c) = 0 /\ CGone(c) = 0
    BY <1>1, <2>1, FiniteCounts DEF CHeld, CGone
  <2>3. ClientLine(c)
    BY DEF IInv, ClientLedger
  <2> QED BY <2>2, <2>3 DEF ClientLine, Bit
<1>4. \A h \in Handles : handle[h].state \in {"none", "freed"}
  <2> TAKE h \in Handles
  <2>1. /\ HandleSound(h) /\ handle[h].client \in Clients \cup {Null}
        /\ handle[h].state \in {"none", "live", "dying", "freed"}
    BY Typed DEF IInv, Objects
  <2> QED BY <1>3, <2>1 DEF HandleSound
<1>5. \A b \in Bufs : buffer[b].state # "live"
  <2> TAKE b \in Bufs
  <2>1. BufferHandles(b) = {} /\ BufferFiles(b) = {}
    BY <1>2, <1>4 DEF BufferHandles, BufferFiles
  <2>2. OnHandles(b) = 0 /\ OnFiles(b) = 0 /\ BPuts(b) = 0 /\ BGone(b) = 0
    BY <1>1, <2>1, FiniteCounts DEF BPuts, BGone
  <2>3. BufferLine(b)
    BY DEF IInv, BufferLedger
  <2> QED BY <2>2, <2>3 DEF BufferLine, Bit
<1> QED BY <1>3, <1>4, <1>5
-----------------------------------------------------------------------------
(* The invariant is kept by every step but the split of an area, and with  *)
(* one thread in each process.                                             *)

(* Nothing changes. *)
LEMMA StutterKeeps ==
  ASSUME IInv, UNCHANGED vars PROVE IInv'
<1>1. spinning \subseteq Threads
  BY DEF IInv, TypeOK
<1> QED BY <1>1, OnlySpinningChanges DEF vars

(* A step of a call under way. *)
LEMMA StepKeeps ==
  ASSUME IInv, OneThreadEach, NEW t \in Threads, Step(t) PROVE IInv'
<1>1. CASE HandlePut(t) \/ HandleErase(t)
  BY <1>1, HandlePutKeeps, HandleEraseKeeps
<1>2. CASE BufferPut(t) \/ BufferDestroy(t)
  BY <1>2, BufferPutKeeps, BufferDestroyKeeps
<1>3. CASE ClientPut(t) \/ ClientDestroyHandle(t) \/ ClientErase(t)
  BY <1>3, ClientPutKeeps, ClientDestroyHandleKeeps, ClientEraseKeeps
<1>4. CASE FilePut(t)
  BY <1>4, FilePutKeeps
<1>5. CASE OpenFound(t) \/ OpenMissed(t) \/ OpenNoMemory(t)
  BY <1>5, OpenFoundKeeps, OpenMissedKeeps, OpenNoMemoryKeeps
<1>6. CASE OpenInsert(t) \/ OpenSpin(t)
  BY <1>6, OpenInsertKeeps, OpenSpinKeeps
<1>7. CASE FreeHandle(t) \/ ImportDone(t) \/ ImportFails(t)
  BY <1>7, FreeHandleKeeps, ImportDoneKeeps, ImportFailsKeeps
<1>8. CASE MmapFound(t) \/ MmapNoClient(t)
  BY <1>8, MmapFoundKeeps, MmapNoClientKeeps
<1>9. CASE MmapImport(t) \/ MmapImportFails(t)
  BY <1>9, MmapImportKeeps, MmapImportFailsKeeps
<1>10. CASE MmapDone(t) \/ MmapMapFails(t)
  BY <1>10, MmapDoneKeeps, MmapMapFailsKeeps
<1> QED BY <1>1, <1>2, <1>3, <1>4, <1>5, <1>6, <1>7, <1>8, <1>9, <1>10 DEF Step

(* The start of a call. *)
LEMMA EnterKeeps ==
  ASSUME IInv, OneThreadEach, NEW t \in Threads, Enter(t),
         \A v, w \in Vmas : ~SplitVma(t, v, w)
  PROVE  IInv'
<1>1. CASE Open(t)
  BY <1>1, OpenKeeps
<1>2. ASSUME NEW f \in Files, Close(t, f) \/ Alloc(t, f) \/ AllocNoHandle(t, f) \/ Mmap(t, f)
      PROVE  IInv'
  BY <1>2, CloseKeeps, AllocKeeps, AllocNoHandleKeeps, MmapKeeps
<1>3. ASSUME NEW f \in Files, NEW h \in Handles, Free(t, f, h) \/ Share(t, f, h)
      PROVE  IInv'
  BY <1>3, FreeKeeps, ShareKeeps
<1>4. ASSUME NEW f \in Files, NEW sf \in Files, Import(t, f, sf) PROVE IInv'
  BY <1>4, ImportKeeps
<1>5. ASSUME NEW f \in Files, NEW p \in Procs, PassFd(t, p, f) PROVE IInv'
  BY <1>5, PassFdKeeps
<1>6. ASSUME NEW v \in Vmas, Munmap(t, v) PROVE IInv'
  BY <1>6, MunmapKeeps
<1> QED BY <1>1, <1>2, <1>3, <1>4, <1>5, <1>6 DEF Enter

(* Behaviours in which no area is split: ion_vma_open takes no reference   *)
(* on the handle, and the counts of handles are wrong after it.            *)
NoSplits == [][\A t \in Threads : \A v, w \in Vmas : ~SplitVma(t, v, w)]_vars

(* With one thread in each process and no split, the invariant holds. *)
LEMMA InvariantHolds ==
  ASSUME OneThreadEach PROVE Spec /\ NoSplits => []IInv
<1>1. Init => IInv
  BY InitHolds
<1>2. ASSUME IInv, [Next]_vars, [\A t \in Threads : \A v, w \in Vmas : ~SplitVma(t, v, w)]_vars
      PROVE  IInv'
  <2>1. CASE UNCHANGED vars
    BY <1>2, <2>1, StutterKeeps
  <2>2. CASE Next /\ \A t \in Threads : \A v, w \in Vmas : ~SplitVma(t, v, w)
    <3>1. PICK t \in Threads : Step(t) \/ Enter(t)
      BY <2>2 DEF Next
    <3> QED BY <1>2, <2>2, <3>1, StepKeeps, EnterKeeps
  <2> QED BY <1>2, <2>1, <2>2
<1> QED BY <1>1, <1>2, PTL DEF Spec, NoSplits

(* The reference count of every live buffer, handle and client is exactly  *)
(* the number of references there are, in the middle of every call of      *)
(* every process: kref_put never comes once too often or too rarely.       *)
THEOREM CountsAreExact ==
  ASSUME OneThreadEach PROVE Spec /\ NoSplits => []RefsExact
BY InvariantHolds, LedgersAreExact, PTL

(* No step of a call reads or drops an object that ion_handle_destroy,     *)
(* ion_buffer_destroy or _ion_client_destroy freed.                        *)
THEOREM NothingFreedIsUsed ==
  ASSUME OneThreadEach PROVE Spec /\ NoSplits => []NoUseAfterFree
BY InvariantHolds, StepsTouchWhatIsThere, PTL

(* A mapped area pins its handle and the handle's client, an open shared   *)
(* file pins its buffer (ion.c:820-822, 835-836, 888-890).                 *)
THEOREM MappingsAndFilesPin ==
  ASSUME OneThreadEach PROVE Spec /\ NoSplits => []ReachablePinned
BY InvariantHolds, WhatIsReachedIsCounted, PTL

(* When every file is closed and every area gone, ion_release and          *)
(* _ion_client_destroy have freed what the users forgot.                   *)
THEOREM NoLeakWhenClosed ==
  ASSUME OneThreadEach PROVE Spec /\ NoSplits => []NothingLeft
BY InvariantHolds, IdleHoldsNothing, PTL
-----------------------------------------------------------------------------
(* Ion implements the safety part of BufferLife: every step is a step of   *)
(* one buffer's life, or none.                                             *)

(* The buffers' lives and holders stay. *)
LEMMA LifeStays ==
  ASSUME \A b \in Bufs : /\ buffer'[b].state = buffer[b].state
                         /\ BufferHandles(b)' = BufferHandles(b) /\ BufferFiles(b)' = BufferFiles(b)
  PROVE  UNCHANGED Life!vars
<1>1. \A b \in Bufs : HoldersOf(b)' = HoldersOf(b)
  BY DEF HoldersOf
<1>2. [b \in Bufs |-> buffer'[b].state] = [b \in Bufs |-> buffer[b].state]
  OBVIOUS
<1>3. [b \in Bufs |-> HoldersOf(b)'] = [b \in Bufs |-> HoldersOf(b)]
  BY <1>1
<1> QED BY <1>2, <1>3 DEF Life!vars

(* Who holds a buffer. *)
LEMMA HoldersAre ==
  ASSUME NEW b \in Bufs
  PROVE  /\ \A h : <<"handle", h>> \in HoldersOf(b) <=> h \in BufferHandles(b)
         /\ \A f : <<"file", f>> \in HoldersOf(b) <=> f \in BufferFiles(b)
         /\ (HoldersOf(b) = {} <=> BufferHandles(b) = {} /\ BufferFiles(b) = {})
         /\ HoldersOf(b) \subseteq Holders
         /\ \A h \in Handles : <<"handle", h>> \in Holders
         /\ \A f \in Files : <<"file", f>> \in Holders
<1>1. /\ \A h : <<"handle", h>> \in HoldersOf(b) <=> h \in BufferHandles(b)
      /\ \A f : <<"file", f>> \in HoldersOf(b) <=> f \in BufferFiles(b)
  BY DEF HoldersOf
<1>2. HoldersOf(b) = {} <=> BufferHandles(b) = {} /\ BufferFiles(b) = {}
  <2>1. ASSUME NEW x \in HoldersOf(b) PROVE BufferHandles(b) # {} \/ BufferFiles(b) # {}
    BY DEF HoldersOf
  <2> QED BY <1>1, <2>1
<1>3. BufferHandles(b) \subseteq Handles /\ BufferFiles(b) \subseteq Files
  BY DEF BufferHandles, BufferFiles
<1>4. HoldersOf(b) \subseteq Holders
  BY <1>3 DEF HoldersOf, Holders
<1>5. /\ \A h \in Handles : <<"handle", h>> \in Holders
      /\ \A f \in Files : <<"file", f>> \in Holders
  BY DEF Holders
<1> QED BY <1>1, <1>2, <1>4, <1>5

(* A live, held buffer gets a handle or a file more. *)
LEMMA LifeHold ==
  ASSUME NEW b \in Bufs, NEW x \in Holders, buffer[b].state = "live", HoldersOf(b) # {},
         x \notin HoldersOf(b), HoldersOf(b)' = HoldersOf(b) \cup {x},
         \A y \in Bufs : buffer'[y].state = buffer[y].state,
         \A y \in Bufs \ {b} : HoldersOf(y)' = HoldersOf(y)
  PROVE  Life!Next
<1>1. [y \in Bufs |-> buffer'[y].state] = [y \in Bufs |-> buffer[y].state]
  OBVIOUS
<1>2. [y \in Bufs |-> HoldersOf(y)'] =
        [[y \in Bufs |-> HoldersOf(y)] EXCEPT ![b] = @ \cup {x}]
  OBVIOUS
<1>3. Life!Hold(b, x)
  BY <1>1, <1>2 DEF Life!Hold
<1> QED BY <1>3 DEF Life!Next

(* A buffer loses a holder. *)
LEMMA LifeDrop ==
  ASSUME NEW b \in Bufs, NEW x \in HoldersOf(b), HoldersOf(b)' = HoldersOf(b) \ {x},
         \A y \in Bufs : buffer'[y].state = buffer[y].state,
         \A y \in Bufs \ {b} : HoldersOf(y)' = HoldersOf(y)
  PROVE  Life!Next
<1>1. [y \in Bufs |-> buffer'[y].state] = [y \in Bufs |-> buffer[y].state]
  OBVIOUS
<1>2. [y \in Bufs |-> HoldersOf(y)'] = [[y \in Bufs |-> HoldersOf(y)] EXCEPT ![b] = @ \ {x}]
  OBVIOUS
<1>3. Life!Drop(b, x)
  BY <1>1, <1>2 DEF Life!Drop
<1>4. x \in Holders
  BY HoldersAre
<1> QED BY <1>3, <1>4 DEF Life!Next

(* A buffer comes to life, with a handle or with nothing. *)
LEMMA LifeCreate ==
  ASSUME NEW b \in Bufs, buffer[b].state = "none",
         NEW H \in {{}} \cup {{x} : x \in Holders}, HoldersOf(b)' = H,
         \A y \in Bufs : buffer'[y].state = IF y = b THEN "live" ELSE buffer[y].state,
         \A y \in Bufs \ {b} : HoldersOf(y)' = HoldersOf(y)
  PROVE  Life!Next
<1>1. [y \in Bufs |-> buffer'[y].state] = [[y \in Bufs |-> buffer[y].state] EXCEPT ![b] = "live"]
  OBVIOUS
<1>2. [y \in Bufs |-> HoldersOf(y)'] = [[y \in Bufs |-> HoldersOf(y)] EXCEPT ![b] = H]
  OBVIOUS
<1>3. Life!Create(b)
  BY <1>1, <1>2 DEF Life!Create
<1> QED BY <1>3 DEF Life!Next

(* A buffer nobody holds is destroyed. *)
LEMMA LifeDestroy ==
  ASSUME NEW b \in Bufs, buffer[b].state = "live", HoldersOf(b) = {},
         \A y \in Bufs : buffer'[y].state = IF y = b THEN "freed" ELSE buffer[y].state,
         \A y \in Bufs : HoldersOf(y)' = HoldersOf(y)
  PROVE  Life!Next
<1>1. [y \in Bufs |-> buffer'[y].state] = [[y \in Bufs |-> buffer[y].state] EXCEPT ![b] = "freed"]
  OBVIOUS
<1>2. [y \in Bufs |-> HoldersOf(y)'] = [y \in Bufs |-> HoldersOf(y)]
  OBVIOUS
<1>3. Life!Destroy(b)
  BY <1>1, <1>2 DEF Life!Destroy
<1> QED BY <1>3 DEF Life!Next
(* The handles on each buffer stay when no handle changes sides. *)
LEMMA HandlesStay ==
  ASSUME \A h \in Handles : /\ handle'[h].state = "live" <=> handle[h].state = "live"
                            /\ handle[h].state = "live" => handle'[h].buf = handle[h].buf
  PROVE  \A b \in Bufs : BufferHandles(b)' = BufferHandles(b)
BY DEF BufferHandles

(* So do the shared files on it. *)
LEMMA FilesStay ==
  ASSUME \A f \in Files :
           /\ file'[f].state = "live" /\ file'[f].kind = "share"
                <=> file[f].state = "live" /\ file[f].kind = "share"
           /\ file[f].state = "live" /\ file[f].kind = "share" => file'[f].obj = file[f].obj
  PROVE  \A b \in Bufs : BufferFiles(b)' = BufferFiles(b)
BY DEF BufferFiles

(* A handle joins the holders of b. *)
LEMMA HandleJoins ==
  ASSUME NEW b \in Bufs, NEW h \in Handles, handle[h].state # "live",
         handle'[h].state = "live", handle'[h].buf = b,
         \A k \in Handles \ {h} : handle'[k] = handle[k],
         \A y \in Bufs : BufferFiles(y)' = BufferFiles(y)
  PROVE  /\ <<"handle", h>> \in Holders /\ <<"handle", h>> \notin HoldersOf(b)
         /\ HoldersOf(b)' = HoldersOf(b) \cup {<<"handle", h>>}
         /\ \A y \in Bufs \ {b} : HoldersOf(y)' = HoldersOf(y)
<1>1. BufferHandles(b)' = BufferHandles(b) \cup {h} /\ h \notin BufferHandles(b)
  BY DEF BufferHandles
<1>2. \A y \in Bufs \ {b} : BufferHandles(y)' = BufferHandles(y)
  BY DEF BufferHandles
<1>3. <<"handle", h>> \in Holders /\ <<"handle", h>> \notin HoldersOf(b)
  BY <1>1, HoldersAre
<1>4. HoldersOf(b)' = HoldersOf(b) \cup {<<"handle", h>>}
  BY <1>1 DEF HoldersOf
<1>5. \A y \in Bufs \ {b} : HoldersOf(y)' = HoldersOf(y)
  BY <1>2 DEF HoldersOf
<1> QED BY <1>3, <1>4, <1>5

(* A handle leaves the holders of its buffer. *)
LEMMA HandleLeaves ==
  ASSUME NEW b \in Bufs, NEW h \in Handles, handle[h].state = "live", handle[h].buf = b,
         handle'[h].state # "live",
         \A k \in Handles \ {h} : handle'[k] = handle[k],
         \A y \in Bufs : BufferFiles(y)' = BufferFiles(y)
  PROVE  /\ <<"handle", h>> \in HoldersOf(b) /\ HoldersOf(b)' = HoldersOf(b) \ {<<"handle", h>>}
         /\ \A y \in Bufs \ {b} : HoldersOf(y)' = HoldersOf(y)
<1>1. BufferHandles(b)' = BufferHandles(b) \ {h} /\ h \in BufferHandles(b)
  BY DEF BufferHandles
<1>2. \A y \in Bufs \ {b} : BufferHandles(y)' = BufferHandles(y)
  BY DEF BufferHandles
<1>3. <<"handle", h>> \in HoldersOf(b)
  BY <1>1, HoldersAre
<1>4. HoldersOf(b)' = HoldersOf(b) \ {<<"handle", h>>}
  BY <1>1 DEF HoldersOf
<1>5. \A y \in Bufs \ {b} : HoldersOf(y)' = HoldersOf(y)
  BY <1>2 DEF HoldersOf
<1> QED BY <1>3, <1>4, <1>5

(* A shared file joins the holders of b. *)
LEMMA FileJoins ==
  ASSUME NEW b \in Bufs, NEW f \in Files, file[f].state # "live",
         file'[f].state = "live", file'[f].kind = "share", file'[f].obj = b,
         \A g \in Files \ {f} : file'[g] = file[g],
         \A y \in Bufs : BufferHandles(y)' = BufferHandles(y)
  PROVE  /\ <<"file", f>> \in Holders /\ <<"file", f>> \notin HoldersOf(b)
         /\ HoldersOf(b)' = HoldersOf(b) \cup {<<"file", f>>}
         /\ \A y \in Bufs \ {b} : HoldersOf(y)' = HoldersOf(y)
<1>1. BufferFiles(b)' = BufferFiles(b) \cup {f} /\ f \notin BufferFiles(b)
  BY DEF BufferFiles
<1>2. \A y \in Bufs \ {b} : BufferFiles(y)' = BufferFiles(y)
  BY DEF BufferFiles
<1>3. <<"file", f>> \in Holders /\ <<"file", f>> \notin HoldersOf(b)
  BY <1>1, HoldersAre
<1>4. HoldersOf(b)' = HoldersOf(b) \cup {<<"file", f>>}
  BY <1>1 DEF HoldersOf
<1>5. \A y \in Bufs \ {b} : HoldersOf(y)' = HoldersOf(y)
  BY <1>2 DEF HoldersOf
<1> QED BY <1>3, <1>4, <1>5

(* A shared file leaves the holders of its buffer. *)
LEMMA FileLeaves ==
  ASSUME NEW b \in Bufs, NEW f \in Files, file[f].state = "live", file[f].kind = "share",
         file[f].obj = b, file'[f].state # "live",
         \A g \in Files \ {f} : file'[g] = file[g],
         \A y \in Bufs : BufferHandles(y)' = BufferHandles(y)
  PROVE  /\ <<"file", f>> \in HoldersOf(b) /\ HoldersOf(b)' = HoldersOf(b) \ {<<"file", f>>}
         /\ \A y \in Bufs \ {b} : HoldersOf(y)' = HoldersOf(y)
<1>1. BufferFiles(b)' = BufferFiles(b) \ {f} /\ f \in BufferFiles(b)
  BY DEF BufferFiles
<1>2. \A y \in Bufs \ {b} : BufferFiles(y)' = BufferFiles(y)
  BY DEF BufferFiles
<1>3. <<"file", f>> \in HoldersOf(b)
  BY <1>1, HoldersAre
<1>4. HoldersOf(b)' = HoldersOf(b) \ {<<"file", f>>}
  BY <1>1 DEF HoldersOf
<1>5. \A y \in Bufs \ {b} : HoldersOf(y)' = HoldersOf(y)
  BY <1>2 DEF HoldersOf
<1> QED BY <1>3, <1>4, <1>5

(* A buffer with no reference has no holder; a counted one does.           *)
LEMMA HeldWhenCounted ==
  ASSUME IInv, NEW b \in Bufs
  PROVE  /\ buffer[b].ref = 0 => HoldersOf(b) = {}
         /\ OnHandles(b) # 0 \/ OnFiles(b) # 0 => HoldersOf(b) # {}
<1>1. BufferLine(b) /\ OnHandles(b) \in Nat /\ OnFiles(b) \in Nat /\ BPuts(b) \in Nat
  BY CountsNat DEF IInv, BufferLedger
<1>2. buffer[b].ref = 0 => OnHandles(b) = 0 /\ OnFiles(b) = 0
  BY <1>1 DEF BufferLine
<1> QED BY <1>2, FiniteCounts, HoldersAre
-----------------------------------------------------------------------------
(* The steps that make, hold, drop or destroy a buffer.                    *)

(* ion_handle_put. *)
LEMMA HandlePutLives ==
  ASSUME IInv, NEW t \in Threads, HandlePut(t) PROVE [Life!Next]_(Life!vars)
<1>1. /\ work[t] # <<>> /\ Arg(t).op = "hput" /\ UNCHANGED <<buffer, file>>
  BY DEF HandlePut, At, Arg
<1>2. Stacks /\ Arg(t) \in Steps /\ Arg(t) = work[t][1] /\ 1 \in 1 .. Len(work[t])
  BY <1>1, TopFits
<1>3. PICK h \in Handles : h = Arg(t).h
  BY <1>1, <1>2, StepFields
<1>4. HHeld(h) # 0
  BY <1>1, <1>2, <1>3, StepCounts
<1>5. handle[h].state = "live" /\ handle[h].buf \in Bufs
  BY <1>4, HandleThere
<1>6. handle' = [handle EXCEPT ![h].ref = @ - 1,
                               ![h].state = IF handle[h].ref = 1 THEN "dying" ELSE @]
  BY <1>3 DEF HandlePut
<1>7. handle \in AllHandles
  BY TypeParts DEF IInv
<1>8. \A b \in Bufs : BufferFiles(b)' = BufferFiles(b)
  BY <1>1, FilesStay
<1>9. CASE handle[h].ref = 1
  <2>1. PICK b \in Bufs : b = handle[h].buf
    BY <1>5
  <2>2. handle'[h].state = "dying" /\ \A k \in Handles \ {h} : handle'[k] = handle[k]
    BY <1>6, <1>7, <1>9 DEF AllHandles, HandleRecs
  <2>3. /\ <<"handle", h>> \in HoldersOf(b) /\ HoldersOf(b)' = HoldersOf(b) \ {<<"handle", h>>}
        /\ \A y \in Bufs \ {b} : HoldersOf(y)' = HoldersOf(y)
    BY <1>5, <1>8, <2>1, <2>2, HandleLeaves
  <2>4. Life!Next
    BY <1>1, <2>3, LifeDrop
  <2> QED BY <2>4
<1>10. CASE handle[h].ref # 1
  <2>1. \A k \in Handles : handle'[k].state = handle[k].state /\ handle'[k].buf = handle[k].buf
    BY <1>6, <1>7, <1>10 DEF AllHandles, HandleRecs
  <2>2. \A b \in Bufs : BufferHandles(b)' = BufferHandles(b)
    BY <2>1, HandlesStay
  <2> QED BY <1>1, <1>8, <2>2, LifeStays
<1> QED BY <1>9, <1>10

(* The end of ion_handle_destroy: the handle had left the holders. *)
LEMMA HandleEraseLives ==
  ASSUME IInv, NEW t \in Threads, HandleErase(t) PROVE [Life!Next]_(Life!vars)
<1>1. /\ work[t] # <<>> /\ Arg(t).op = "herase" /\ UNCHANGED <<buffer, file>>
  BY DEF HandleErase, At, Arg
<1>2. Stacks /\ Arg(t) \in Steps /\ Arg(t) = work[t][1] /\ 1 \in 1 .. Len(work[t])
  BY <1>1, TopFits
<1>3. PICK h \in Handles : h = Arg(t).h
  BY <1>1, <1>2, StepFields
<1>4. HGone(h) # 0
  BY <1>1, <1>2, <1>3, StepCounts
<1>5. handle[h].state = "dying"
  BY <1>4 DEF IInv, HandleLedger, HandleLine, Bit
<1>6. handle' = [handle EXCEPT ![h] = [NoHandle EXCEPT !.state = "freed"]]
  BY <1>3 DEF HandleErase
<1>7. handle \in AllHandles
  BY TypeParts DEF IInv
<1>8. handle'[h].state = "freed" /\ \A k \in Handles \ {h} : handle'[k] = handle[k]
  BY <1>6, <1>7 DEF AllHandles, NoHandle
<1>9. \A b \in Bufs : BufferHandles(b)' = BufferHandles(b)
  BY <1>5, <1>8, HandlesStay
<1>10. \A b \in Bufs : BufferFiles(b)' = BufferFiles(b)
  BY <1>1, FilesStay
<1> QED BY <1>1, <1>9, <1>10, LifeStays

(* ion_buffer_put. *)
LEMMA BufferPutLives ==
  ASSUME IInv, NEW t \in Threads, BufferPut(t) PROVE [Life!Next]_(Life!vars)
<1>1. UNCHANGED <<handle, file>> /\ \E b : buffer' = [buffer EXCEPT ![b].ref = @ - 1]
  BY DEF BufferPut
<1>2. buffer \in AllBuffers
  BY TypeParts DEF IInv
<1>3. \A b \in Bufs : buffer'[b].state = buffer[b].state
  BY <1>1, <1>2 DEF AllBuffers, BufferRecs
<1> QED BY <1>1, <1>3, LifeStays, HandlesStay, FilesStay

(* ion_buffer_destroy. *)
LEMMA BufferDestroyLives ==
  ASSUME IInv, NEW t \in Threads, BufferDestroy(t) PROVE [Life!Next]_(Life!vars)
<1>1. /\ work[t] # <<>> /\ Arg(t).op = "bdestroy" /\ UNCHANGED <<handle, file>>
  BY DEF BufferDestroy, At, Arg
<1>2. Stacks /\ Arg(t) \in Steps /\ Arg(t) = work[t][1] /\ 1 \in 1 .. Len(work[t])
  BY <1>1, TopFits
<1>3. PICK b \in Bufs : b = Arg(t).b
  BY <1>1, <1>2, StepFields
<1>4. BGone(b) # 0
  BY <1>1, <1>2, <1>3, StepCounts
<1>5. buffer[b].state = "live" /\ buffer[b].ref = 0
  BY <1>4 DEF IInv, BufferLedger, BufferLine, Bit
<1>6. buffer' = [buffer EXCEPT ![b].state = "freed"] /\ buffer \in AllBuffers
  BY <1>3, TypeParts DEF BufferDestroy, IInv
<1>7. \A y \in Bufs : buffer'[y].state = IF y = b THEN "freed" ELSE buffer[y].state
  BY <1>6 DEF AllBuffers, BufferRecs
<1>8. \A y \in Bufs : HoldersOf(y)' = HoldersOf(y)
  BY <1>1 DEF HoldersOf, BufferHandles, BufferFiles
<1>9. HoldersOf(b) = {}
  BY <1>5, HeldWhenCounted
<1>10. Life!Next
  BY <1>5, <1>7, <1>8, <1>9, LifeDestroy
<1> QED BY <1>10

(* A turn of the loop of _ion_client_destroy. *)
LEMMA ClientDestroyHandleLives ==
  ASSUME IInv, NEW t \in Threads, ClientDestroyHandle(t) PROVE [Life!Next]_(Life!vars)
<1>1. UNCHANGED <<buffer, file>>
  BY DEF ClientDestroyHandle
<1>2. PICK h \in Handles : handle[h].intree /\ handle' = [handle EXCEPT ![h].state = "dying"]
  BY DEF ClientDestroyHandle, Tree
<1>3. handle \in AllHandles /\ HandleSound(h)
  BY TypeParts DEF IInv, Objects
<1>4. handle'[h].state = "dying" /\ \A k \in Handles \ {h} : handle'[k] = handle[k]
  BY <1>2, <1>3 DEF AllHandles, HandleRecs
<1>5. \A b \in Bufs : BufferFiles(b)' = BufferFiles(b)
  BY <1>1, FilesStay
<1>6. CASE handle[h].state = "live"
  <2>1. PICK b \in Bufs : b = handle[h].buf
    BY <1>2, <1>3 DEF HandleSound
  <2>2. /\ <<"handle", h>> \in HoldersOf(b) /\ HoldersOf(b)' = HoldersOf(b) \ {<<"handle", h>>}
        /\ \A y \in Bufs \ {b} : HoldersOf(y)' = HoldersOf(y)
    BY <1>4, <1>5, <1>6, <2>1, HandleLeaves
  <2>3. Life!Next
    BY <1>1, <2>2, LifeDrop
  <2> QED BY <2>3
<1>7. CASE handle[h].state # "live"
  <2>1. \A b \in Bufs : BufferHandles(b)' = BufferHandles(b)
    BY <1>4, <1>7, HandlesStay
  <2> QED BY <1>1, <1>5, <2>1, LifeStays
<1> QED BY <1>6, <1>7

(* fput, and ion_share_release at the last one. *)
LEMMA FilePutLives ==
  ASSUME IInv, NEW t \in Threads, FilePut(t) PROVE [Life!Next]_(Life!vars)
<1>1. /\ work[t] # <<>> /\ Arg(t).op = "fput" /\ UNCHANGED <<buffer, handle>>
  BY DEF FilePut, At, Arg
<1>2. Stacks /\ Arg(t) \in Steps /\ Arg(t) = work[t][1] /\ 1 \in 1 .. Len(work[t])
  BY <1>1, TopFits
<1>3. PICK f \in Files : f = Arg(t).f
  BY <1>1, <1>2, StepFields
<1>4. FHeld(f) # 0
  BY <1>1, <1>2, <1>3, StepCounts
<1>5. file[f].state = "live"
  BY <1>4, FileThere
<1>6. file' = [file EXCEPT ![f] = IF file[f].ref = 1 THEN [NoFile EXCEPT !.state = "freed"]
                                  ELSE [file[f] EXCEPT !.ref = @ - 1]]
  BY <1>3 DEF FilePut
<1>7. file \in AllFiles
  BY TypeParts DEF IInv
<1>8. \A g \in Files \ {f} : file'[g] = file[g]
  BY <1>6, <1>7 DEF AllFiles
<1>9. \A b \in Bufs : BufferHandles(b)' = BufferHandles(b)
  BY <1>1, HandlesStay
<1>10. CASE file[f].ref = 1
  <2>1. file'[f].state = "freed"
    BY <1>6, <1>7, <1>10 DEF AllFiles, NoFile
  <2>2. CASE file[f].kind = "share"
    <3>1. PICK b \in Bufs : b = file[f].obj
      BY <2>2, Typed DEF IInv
    <3>2. /\ <<"file", f>> \in HoldersOf(b) /\ HoldersOf(b)' = HoldersOf(b) \ {<<"file", f>>}
          /\ \A y \in Bufs \ {b} : HoldersOf(y)' = HoldersOf(y)
      BY <1>5, <1>8, <1>9, <2>1, <2>2, <3>1, FileLeaves
    <3>3. Life!Next
      BY <1>1, <3>2, LifeDrop
    <3> QED BY <3>3
  <2>3. CASE file[f].kind # "share"
    <3>1. \A b \in Bufs : BufferFiles(b)' = BufferFiles(b)
      BY <1>8, <2>1, <2>3, FilesStay
    <3> QED BY <1>1, <1>9, <3>1, LifeStays
  <2> QED BY <2>2, <2>3
<1>11. CASE file[f].ref # 1
  <2>1. /\ file'[f].state = file[f].state /\ file'[f].kind = file[f].kind
        /\ file'[f].obj = file[f].obj
    BY <1>6, <1>7, <1>11 DEF AllFiles, FileRecs
  <2>2. \A b \in Bufs : BufferFiles(b)' = BufferFiles(b)
    BY <1>8, <2>1, FilesStay
  <2> QED BY <1>1, <1>9, <2>2, LifeStays
<1> QED BY <1>10, <1>11
(* ion_open, ion_client_create and its failure: files of the device.       *)
LEMMA OpenLives ==
  ASSUME IInv, NEW t \in Threads, Open(t) \/ OpenFound(t) \/ OpenNoMemory(t) \/ OpenInsert(t)
  PROVE  [Life!Next]_(Life!vars)
<1>1. UNCHANGED <<buffer, handle>>
  BY DEF Open, OpenFound, OpenNoMemory, OpenInsert, objects
<1>2. file \in AllFiles
  BY TypeParts DEF IInv
<1>3. CASE Open(t)
  <2>1. PICK f \in Files : file[f].state = "none" /\ file' = [file EXCEPT ![f] =
                             [state |-> "live", ref |-> 1, kind |-> "dev", obj |-> Null]]
    BY <1>3 DEF Open, NewFile, IsFresh
  <2>2. file'[f].kind = "dev" /\ \A g \in Files \ {f} : file'[g] = file[g]
    BY <1>2, <2>1 DEF AllFiles
  <2>3. \A b \in Bufs : BufferFiles(b)' = BufferFiles(b)
    BY <2>1, <2>2, FilesStay
  <2> QED BY <1>1, <2>3, LifeStays, HandlesStay
<1>4. CASE OpenFound(t) \/ OpenNoMemory(t) \/ OpenInsert(t)
  <2>1. work[t] # <<>> /\ Arg(t).op \in {"openLookup", "insert"}
    BY <1>4 DEF OpenFound, OpenNoMemory, OpenInsert, At, Arg
  <2>2. Stacks /\ Arg(t) \in Steps /\ StepFits(t, Arg(t))
    BY <2>1, TopFits
  <2>3. PICK f \in Files : f = Arg(t).f
    BY <2>1, <2>2, StepFields
  <2>4. file[f].kind = "dev"
    BY <2>1, <2>2, <2>3 DEF StepFits
  <2>5. \/ \E c : file' = [file EXCEPT ![f].obj = c]
        \/ file' = [file EXCEPT ![f] = [NoFile EXCEPT !.state = "freed"]]
    BY <1>4, <2>3 DEF OpenFound, OpenNoMemory, OpenInsert
  <2>6. /\ file'[f].kind = "dev" \/ file'[f].state = "freed"
        /\ \A g \in Files \ {f} : file'[g] = file[g]
    BY <1>2, <2>4, <2>5 DEF AllFiles, FileRecs, NoFile
  <2>7. \A b \in Bufs : BufferFiles(b)' = BufferFiles(b)
    BY <2>4, <2>6, FilesStay
  <2> QED BY <1>1, <2>7, LifeStays, HandlesStay
<1> QED BY <1>3, <1>4

(* Another reference on files: ION_IOC_FREE, ION_IOC_IMPORT, mmap, and a   *)
(* descriptor passed on.                                                   *)
LEMMA PinLives ==
  ASSUME IInv, UNCHANGED <<buffer, handle>>,
         \E f, sf : Pin(f) \/ file' = [file EXCEPT ![f].ref = @ + 1, ![sf].ref = @ + 1]
  PROVE  [Life!Next]_(Life!vars)
<1>1. file \in AllFiles
  BY TypeParts DEF IInv
<1>2. \A g \in Files : /\ file'[g].state = file[g].state /\ file'[g].kind = file[g].kind
                       /\ file'[g].obj = file[g].obj
  BY <1>1 DEF Pin, AllFiles, FileRecs
<1> QED BY <1>2, LifeStays, HandlesStay, FilesStay

(* ion_alloc. *)
LEMMA AllocLives ==
  ASSUME IInv, NEW t \in Threads, NEW f \in Files, Alloc(t, f)
  PROVE  [Life!Next]_(Life!vars)
<1>1. UNCHANGED file
  BY DEF Alloc
<1>2. PICK b \in Bufs, h \in Handles :
        /\ buffer[b].state = "none" /\ NewHandle(h, file[f].obj, b)
        /\ buffer' = [buffer EXCEPT ![b] = [state |-> "live", ref |-> 1]]
  BY DEF Alloc, IsFresh
<1>3. buffer \in AllBuffers /\ handle \in AllHandles
  BY TypeParts DEF IInv
<1>4. \A y \in Bufs : buffer'[y].state = IF y = b THEN "live" ELSE buffer[y].state
  BY <1>2, <1>3 DEF AllBuffers
<1>5. /\ handle[h].state = "none" /\ handle'[h].state = "live" /\ handle'[h].buf = b
      /\ \A k \in Handles \ {h} : handle'[k] = handle[k]
  BY <1>2, <1>3 DEF AllHandles, NewHandle, IsFresh, HandleAdd, HandleCreate
<1>6. \A y \in Bufs : BufferFiles(y)' = BufferFiles(y)
  BY <1>1, FilesStay
<1>7. /\ <<"handle", h>> \in Holders /\ HoldersOf(b)' = HoldersOf(b) \cup {<<"handle", h>>}
      /\ \A y \in Bufs \ {b} : HoldersOf(y)' = HoldersOf(y)
  BY <1>5, <1>6, HandleJoins
<1>8. HoldersOf(b) = {}
  BY <1>2, HeldWhenCounted DEF IInv, BufferLedger, BufferLine
<1>9. HoldersOf(b)' = {<<"handle", h>>}
  BY <1>7, <1>8
<1>10. {<<"handle", h>>} \in {{}} \cup {{x} : x \in Holders}
  BY <1>7
<1>11. Life!Next
  BY <1>2, <1>4, <1>7, <1>9, <1>10, LifeCreate
<1> QED BY <1>11

(* ion_alloc with no memory for the handle. *)
LEMMA AllocNoHandleLives ==
  ASSUME IInv, NEW t \in Threads, NEW f \in Files, AllocNoHandle(t, f)
  PROVE  [Life!Next]_(Life!vars)
<1>1. UNCHANGED handle /\ Pin(f)
  BY DEF AllocNoHandle
<1>2. PICK b \in Bufs : /\ buffer[b].state = "none"
                        /\ buffer' = [buffer EXCEPT ![b] = [state |-> "live", ref |-> 1]]
  BY DEF AllocNoHandle, IsFresh
<1>3. buffer \in AllBuffers /\ file \in AllFiles
  BY TypeParts DEF IInv
<1>4. \A y \in Bufs : buffer'[y].state = IF y = b THEN "live" ELSE buffer[y].state
  BY <1>2, <1>3 DEF AllBuffers
<1>5. \A g \in Files : /\ file'[g].state = file[g].state /\ file'[g].kind = file[g].kind
                       /\ file'[g].obj = file[g].obj
  BY <1>1, <1>3 DEF Pin, AllFiles, FileRecs
<1>6. \A y \in Bufs : BufferFiles(y)' = BufferFiles(y) /\ BufferHandles(y)' = BufferHandles(y)
  BY <1>1, <1>5, FilesStay, HandlesStay
<1>7. \A y \in Bufs : HoldersOf(y)' = HoldersOf(y)
  BY <1>6 DEF HoldersOf
<1>8. HoldersOf(b) = {}
  BY <1>2, HeldWhenCounted DEF IInv, BufferLedger, BufferLine
<1>9. HoldersOf(b)' = {}
  BY <1>7, <1>8
<1>10. Life!Next
  BY <1>2, <1>4, <1>7, <1>9, LifeCreate
<1> QED BY <1>10

(* A handle taken by ion_import: the caller holds a file on the buffer.    *)
LEMMA ImportLives ==
  ASSUME IInv, OneThreadEach, NEW t \in Threads, ImportDone(t) \/ MmapImport(t)
  PROVE  [Life!Next]_(Life!vars)
<1>1. work[t] # <<>> /\ Arg(t).op \in {"import", "mmapImport"} /\ UNCHANGED file
  BY DEF ImportDone, MmapImport, At, Arg
<1>2. PICK c, b : /\ c = Arg(t).c
                  /\ b = IF Arg(t).op = "import" THEN Arg(t).b ELSE file[Arg(t).f].obj
  OBVIOUS
<1>3. PICK h \in Handles : /\ ImportHandle(c, b, h)
                           /\ c \in Clients /\ client[c].task = Proc[t] /\ b \in Bufs /\ OnFiles(b) # 0
  <2>1. CASE ImportDone(t)
    <3>1. Arg(t).op = "import" /\ \E h \in Handles : ImportHandle(Arg(t).c, Arg(t).b, h)
      BY <2>1 DEF ImportDone, At, Arg
    <3>2. \E h \in Handles : ImportHandle(c, b, h)
      BY <1>2, <3>1
    <3>3. c \in Clients /\ client[c].task = Proc[t] /\ b \in Bufs /\ OnFiles(b) # 0
      BY <1>1, <1>2, <3>1, ImportArgs
    <3> QED BY <3>2, <3>3
  <2>2. CASE MmapImport(t)
    <3>1. Arg(t).op = "mmapImport" /\ \E h \in Handles : ImportHandle(Arg(t).c, file[Arg(t).f].obj, h)
      BY <2>2 DEF MmapImport, At, Arg
    <3>2. \E h \in Handles : ImportHandle(c, b, h)
      BY <1>2, <3>1
    <3>3. c \in Clients /\ client[c].task = Proc[t] /\ b \in Bufs /\ OnFiles(b) # 0
      BY <1>1, <1>2, <3>1, MmapImportArgs
    <3> QED BY <3>2, <3>3
  <2> QED BY <2>1, <2>2
<1>4. buffer[b].state = "live" /\ HoldersOf(b) # {}
  BY <1>3, BufferThere, HeldWhenCounted
<1>5. PICK r \in HandleRecs :
        /\ handle' = [handle EXCEPT ![h] = r] /\ r.state = "live" /\ r.buf = b
        /\ \/ handle[h].state = "none" /\ buffer' = [buffer EXCEPT ![b].ref = @ + 1]
           \/ handle[h].state = "live" /\ handle[h].buf = b /\ buffer' = buffer
  BY <1>1, <1>3, ImportHandleIs
<1>6. buffer \in AllBuffers /\ handle \in AllHandles
  BY TypeParts DEF IInv
<1>7. handle'[h] = r /\ \A k \in Handles \ {h} : handle'[k] = handle[k]
  BY <1>5, <1>6 DEF AllHandles
<1>8. \A y \in Bufs : buffer'[y].state = buffer[y].state
  BY <1>5, <1>6 DEF AllBuffers, BufferRecs
<1>9. \A y \in Bufs : BufferFiles(y)' = BufferFiles(y)
  BY <1>1, FilesStay
<1>10. CASE handle[h].state = "none"
  <2>1. /\ <<"handle", h>> \in Holders /\ <<"handle", h>> \notin HoldersOf(b)
        /\ HoldersOf(b)' = HoldersOf(b) \cup {<<"handle", h>>}
        /\ \A y \in Bufs \ {b} : HoldersOf(y)' = HoldersOf(y)
    BY <1>3, <1>5, <1>7, <1>9, <1>10, HandleJoins
  <2>2. Life!Next
    BY <1>3, <1>4, <1>8, <2>1, LifeHold
  <2> QED BY <2>2
<1>11. CASE handle[h].state = "live" /\ handle[h].buf = b
  <2>1. \A y \in Bufs : BufferHandles(y)' = BufferHandles(y)
    BY <1>5, <1>7, <1>11, HandlesStay
  <2> QED BY <1>8, <1>9, <2>1, LifeStays
<1> QED BY <1>5, <1>10, <1>11

(* ion_ioctl_share: the caller has a handle on the buffer. *)
LEMMA ShareLives ==
  ASSUME IInv, OneThreadEach, NEW t \in Threads, NEW f \in Files, NEW h \in Handles, Share(t, f, h)
  PROVE  [Life!Next]_(Life!vars)
<1>1. /\ f \in fds[Proc[t]] /\ file[f].kind = "dev" /\ work[t] = <<>> /\ h \in Tree(file[f].obj)
      /\ UNCHANGED handle
  BY DEF Share, DevFds, Call
<1>2. PICK p \in Procs : p = Proc[t]
  BY Typed DEF IInv
<1>3. PICK c, b : c = file[f].obj /\ b = handle[h].buf
  OBVIOUS
<1>4. c \in Clients /\ client[c].task = p
  BY <1>1, <1>2, <1>3, OpenFile
<1>5. b \in Bufs /\ OnHandles(b) # 0 /\ buffer[b].state = "live"
  BY <1>1, <1>2, <1>3, <1>4, OwnHandle
<1>6. PICK s \in Files : file[s].state = "none" /\ file' = [file EXCEPT ![s] =
                           [state |-> "live", ref |-> 1, kind |-> "share", obj |-> b]]
  BY <1>3 DEF Share, NewFile, IsFresh
<1>7. buffer' = [buffer EXCEPT ![b].ref = @ + 1]
  BY <1>3 DEF Share
<1>8. buffer \in AllBuffers /\ file \in AllFiles
  BY TypeParts DEF IInv
<1>9. \A y \in Bufs : buffer'[y].state = buffer[y].state
  BY <1>7, <1>8 DEF AllBuffers, BufferRecs
<1>10. /\ file'[s].state = "live" /\ file'[s].kind = "share" /\ file'[s].obj = b
       /\ \A g \in Files \ {s} : file'[g] = file[g]
  BY <1>6, <1>8 DEF AllFiles
<1>11. \A y \in Bufs : BufferHandles(y)' = BufferHandles(y)
  BY <1>1, HandlesStay
<1>12. /\ <<"file", s>> \in Holders /\ <<"file", s>> \notin HoldersOf(b)
       /\ HoldersOf(b)' = HoldersOf(b) \cup {<<"file", s>>}
       /\ \A y \in Bufs \ {b} : HoldersOf(y)' = HoldersOf(y)
  BY <1>5, <1>6, <1>10, <1>11, FileJoins
<1>13. HoldersOf(b) # {}
  BY <1>5, HeldWhenCounted
<1>14. Life!Next
  BY <1>5, <1>9, <1>12, <1>13, LifeHold
<1> QED BY <1>14
(* Steps that leave buffers, handles and files alone. *)
LEMMA RestLives ==
  ASSUME UNCHANGED <<buffer, handle, file>> PROVE UNCHANGED Life!vars
BY LifeStays, HandlesStay, FilesStay

(* A step of a call under way is a step of BufferLife. *)
LEMMA StepLives ==
  ASSUME IInv, OneThreadEach, NEW t \in Threads, Step(t) PROVE [Life!Next]_(Life!vars)
<1>1. CASE HandlePut(t) \/ HandleErase(t)
  BY <1>1, HandlePutLives, HandleEraseLives
<1>2. CASE BufferPut(t) \/ BufferDestroy(t)
  BY <1>2, BufferPutLives, BufferDestroyLives
<1>3. CASE ClientDestroyHandle(t) \/ FilePut(t)
  BY <1>3, ClientDestroyHandleLives, FilePutLives
<1>4. CASE ClientPut(t) \/ ClientErase(t)
  BY <1>4, RestLives DEF ClientPut, ClientErase
<1>5. CASE OpenFound(t) \/ OpenNoMemory(t) \/ OpenInsert(t)
  BY <1>5, OpenLives
<1>6. CASE OpenMissed(t) \/ OpenSpin(t)
  BY <1>6, RestLives DEF OpenMissed, OpenSpin
<1>7. CASE ImportDone(t) \/ MmapImport(t)
  BY <1>7, ImportLives
<1>8. CASE FreeHandle(t) \/ ImportFails(t)
  BY <1>8, RestLives DEF FreeHandle, ImportFails, objects
<1>9. CASE MmapFound(t) \/ MmapNoClient(t) \/ MmapImportFails(t)
  BY <1>9, RestLives DEF MmapFound, MmapNoClient, MmapImportFails, objects
<1>10. CASE MmapDone(t) \/ MmapMapFails(t)
  BY <1>10, RestLives DEF MmapDone, MmapMapFails, objects
<1> QED BY <1>1, <1>2, <1>3, <1>4, <1>5, <1>6, <1>7, <1>8, <1>9, <1>10 DEF Step

(* So is the start of a call. *)
LEMMA EnterLives ==
  ASSUME IInv, OneThreadEach, NEW t \in Threads, Enter(t),
         \A v, w \in Vmas : ~SplitVma(t, v, w)
  PROVE  [Life!Next]_(Life!vars)
<1>1. CASE Open(t)
  BY <1>1, OpenLives
<1>2. ASSUME NEW f \in Files, Close(t, f) PROVE [Life!Next]_(Life!vars)
  BY <1>2, RestLives DEF Close, objects
<1>3. ASSUME NEW f \in Files, Alloc(t, f) \/ AllocNoHandle(t, f) PROVE [Life!Next]_(Life!vars)
  BY <1>3, AllocLives, AllocNoHandleLives
<1>4. ASSUME NEW f \in Files, Mmap(t, f) PROVE [Life!Next]_(Life!vars)
  BY <1>4, PinLives DEF Mmap, objects
<1>5. ASSUME NEW f \in Files, NEW h \in Handles, Free(t, f, h) PROVE [Life!Next]_(Life!vars)
  BY <1>5, PinLives DEF Free, objects
<1>6. ASSUME NEW f \in Files, NEW h \in Handles, Share(t, f, h) PROVE [Life!Next]_(Life!vars)
  BY <1>6, ShareLives
<1>7. ASSUME NEW f \in Files, NEW sf \in Files, Import(t, f, sf) PROVE [Life!Next]_(Life!vars)
  <2>1. UNCHANGED <<buffer, handle>> /\ file' = [file EXCEPT ![f].ref = @ + 1, ![sf].ref = @ + 1]
    BY <1>7 DEF Import, objects
  <2> QED BY <2>1, PinLives
<1>8. ASSUME NEW f \in Files, NEW p \in Procs, PassFd(t, p, f) PROVE [Life!Next]_(Life!vars)
  BY <1>8, PinLives DEF PassFd, objects
<1>9. ASSUME NEW v \in Vmas, Munmap(t, v) PROVE [Life!Next]_(Life!vars)
  BY <1>9, RestLives DEF Munmap, objects
<1> QED BY <1>1, <1>2, <1>3, <1>4, <1>5, <1>6, <1>7, <1>8, <1>9 DEF Enter

(* The safety part of ImplementsBufferLife: a buffer comes to life once,   *)
(* is only handed on by a handle or a shared file that is on it, is        *)
(* destroyed by ion_buffer_destroy only when none is left, and stays so.   *)
(* That it is destroyed then is liveness, and left to the run.             *)
THEOREM LivesAsPromised ==
  ASSUME OneThreadEach
  PROVE  Spec /\ NoSplits => Life!Init /\ [][Life!Next]_(Life!vars)
<1>1. Init => Life!Init
  <2> SUFFICES ASSUME Init PROVE Life!Init
    OBVIOUS
  <2>1. \A b \in Bufs : buffer[b].state = "none"
    BY DEF Init, NoBuffer
  <2>2. \A b \in Bufs : BufferHandles(b) = {} /\ BufferFiles(b) = {}
    BY DEF Init, NoHandle, NoFile, BufferHandles, BufferFiles
  <2>3. \A b \in Bufs : HoldersOf(b) = {}
    BY <2>2, HoldersAre
  <2> QED BY <2>1, <2>3 DEF Life!Init
<1>2. ASSUME IInv, [Next]_vars, [\A t \in Threads : \A v, w \in Vmas : ~SplitVma(t, v, w)]_vars
      PROVE  [Life!Next]_(Life!vars)
  <2>1. CASE UNCHANGED vars
    BY <2>1, RestLives DEF vars
  <2>2. CASE Next /\ \A t \in Threads : \A v, w \in Vmas : ~SplitVma(t, v, w)
    <3>1. PICK t \in Threads : Step(t) \/ Enter(t)
      BY <2>2 DEF Next
    <3> QED BY <1>2, <2>2, <3>1, StepLives, EnterLives
  <2> QED BY <1>2, <2>1, <2>2
<1> QED BY <1>1, <1>2, InvariantHolds, PTL DEF Spec, NoSplits
=============================================================================
