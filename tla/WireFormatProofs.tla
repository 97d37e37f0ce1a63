-------------------------- MODULE WireFormatProofs --------------------------
(***************************************************************************)
(* Proofs about WireFormat, for every set of strings and any number of     *)
(* messages, fields and map entries.                                       *)
(***************************************************************************)
EXTENDS WireFormat, FiniteSetTheorems, SequenceTheorems, TLAPS

(***************************************************************************)
(* Induction.  The library states it for an operator; here it is stated    *)
(* for a set, and rests on the fact that every non-empty set of numbers    *)
(* has a least element.                                                    *)
(***************************************************************************)
Less == {ss \in Nat \X Nat : ss[1] < ss[2]}

\* The numbers are well-founded.
LEMMA LessWellFounded == IsWellFoundedOn(Less, Nat)
  BY NatLessThanWellFounded DEF OpToRel, Less

\* A set with 0 and the successors of its numbers has all the numbers.
LEMMA SetInduction ==
    ASSUME NEW T, 0 \in T, \A n \in Nat : n \in T => n + 1 \in T
    PROVE  \A n \in Nat : n \in T
<1> DEFINE U == Nat \ T
<1>1. SUFFICES ASSUME U # {} PROVE FALSE
  OBVIOUS
<1>2. PICK x \in U : \A y \in U : ~(<<y, x>> \in Less)
  <2>1. U \subseteq Nat
    OBVIOUS
  <2> HIDE DEF U
  <2> QED  BY <1>1, <2>1, LessWellFounded, WFMin, Zenon
<1>3. x \in Nat /\ x # 0
  OBVIOUS
<1>4. x - 1 \in Nat /\ x - 1 < x /\ (x - 1) + 1 = x
  BY <1>3
<1>5. <<x - 1, x>> \in Less
  BY <1>3, <1>4 DEF Less
<1>6. x - 1 \in T
  BY <1>2, <1>4, <1>5
<1>7. x \in T
  BY <1>4, <1>6
<1> QED  BY <1>7

\* Two sequences of values that start alike and take equal steps are equal.
LEMMA RunsAgree ==
    ASSUME NEW n \in Nat, NEW p, NEW q, p[0] = q[0],
           \A i \in 1..n : p[i - 1] = q[i - 1] => p[i] = q[i]
    PROVE  \A i \in 0..n : p[i] = q[i]
<1> DEFINE T == {i \in Nat : i <= n => p[i] = q[i]}
<1>1. 0 \in T
  OBVIOUS
<1>2. ASSUME NEW i \in Nat, i \in T PROVE i + 1 \in T
  <2>1. CASE i + 1 <= n
    <3>1. i + 1 \in 1..n /\ (i + 1) - 1 = i /\ i <= n
      BY <2>1
    <3> QED  BY <1>2, <3>1
  <2>2. CASE ~(i + 1 <= n)
    BY <2>2
  <2> QED  BY <2>1, <2>2
<1>3. \A i \in Nat : i \in T
  <2> HIDE DEF T
  <2> QED  BY <1>1, <1>2, SetInduction
<1> QED  BY <1>3
-----------------------------------------------------------------------------
(***************************************************************************)
(* Folds.  What one field does to what is parsed, for each table, and what *)
(* one number does to a sum.                                               *)
(***************************************************************************)
LoginStep(x, f) ==
    IF f.num = 1 THEN [x EXCEPT !.nickname = f.body] ELSE Unknown(x, f)

EntryStep(x, f) ==
    IF f.num \in {1, 2} THEN [x EXCEPT ![f.num] = f.body] ELSE x

InsertStep(x, f) ==
    CASE f.num = 1 -> [x EXCEPT !.table = f.body]
      [] f.num = 2 -> LET e == ParseEntry(f.body) IN
                      [x EXCEPT !.values = Put(@, e[1], e[2])]
      [] OTHER -> Unknown(x, f)

EnvelopeStep(x, f) ==
    IF f.num \notin 1..3 THEN Unknown(x, f)
      ELSE [x EXCEPT !.payload_case = f.num, !.payload =
              ParsePayload(IF x.payload_case = f.num
                             THEN @ ELSE Default(f.num), f)]

Step(kind, x, f) == CASE kind = "Login" -> LoginStep(x, f)
                      [] kind = "KeepAlive" -> Unknown(x, f)
                      [] kind = "Entry" -> EntryStep(x, f)
                      [] kind = "Insert" -> InsertStep(x, f)
                      [] kind = "Envelope" -> EnvelopeStep(x, f)
                      [] OTHER -> x + f

\* The function on sets of positions that FoldLeft chooses.
IsIter(kind, m, s, g) ==
    g = [t \in SUBSET DOMAIN s |->
           IF t = {} THEN m ELSE Step(kind, g[t \ {Max(t)}], s[Max(t)])]

\* The fields of s lead, one after the other, from m to x.
Leads(kind, m, s, x) ==
    \E q : /\ q[0] = m
           /\ q[Len(s)] = x
           /\ \A i \in 1..Len(s) : q[i] = Step(kind, q[i - 1], s[i])

\* The largest element of a set that contains n and nothing above it.
LEMMA MaxIs ==
    ASSUME NEW t, NEW n \in t, t \subseteq Nat, \A y \in t : n >= y
    PROVE  Max(t) = n
<1>1. \E x \in t : \A y \in t : x >= y
  OBVIOUS
<1>2. Max(t) \in t /\ \A y \in t : Max(t) >= y
  BY <1>1 DEF Max
<1>3. Max(t) \in Nat /\ n \in Nat /\ n >= Max(t) /\ Max(t) >= n
  BY <1>2
<1> QED  BY <1>3

\* A set of positions up to n that is not empty has a largest element.
LEMMA MaxExists ==
    ASSUME NEW n \in Nat, NEW t \in SUBSET (1..n), t # {}
    PROVE  Max(t) \in t /\ \A y \in t : Max(t) >= y
<1> DEFINE T == {k \in Nat : (\E y \in t : y >= n - k) =>
                               \E x \in t : \A y \in t : x >= y}
<1>1. 0 \in T
  OBVIOUS
<1>2. ASSUME NEW k \in Nat, k \in T PROVE k + 1 \in T
  <2>1. SUFFICES ASSUME NEW z \in t, z >= n - (k + 1), \A y \in t : ~(y >= n - k)
                 PROVE  \E x \in t : \A y \in t : x >= y
    BY <1>2
  <2>2. \A y \in t : z >= y
    BY <2>1
  <2> QED  BY <2>2
<1>3. n \in T
  <2> HIDE DEF T
  <2> QED  BY <1>1, <1>2, SetInduction
<1>4. \E y \in t : y >= n - n
  <2>1. PICK y \in t : y \in 1..n
    OBVIOUS
  <2>2. y >= n - n
    BY <2>1
  <2> QED  BY <2>2
<1>5. \E x \in t : \A y \in t : x >= y
  BY <1>3, <1>4
<1> QED  BY <1>5 DEF Max

\* Such a function exists for a sequence of any length.
LEMMA IterExists ==
    ASSUME NEW kind, NEW m, NEW S, NEW s \in Seq(S)
    PROVE  \E g : IsIter(kind, m, s, g)
<1> DEFINE Val(g, t) ==
             IF t = {} THEN m ELSE Step(kind, g[t \ {Max(t)}], s[Max(t)])
           T == {n \in Nat : \E g : g = [t \in SUBSET (1..n) |-> Val(g, t)]}
<1>1. 0 \in T
  <2> DEFINE g == [t \in SUBSET (1..0) |-> m]
  <2>1. \A t \in SUBSET (1..0) : t = {}
    OBVIOUS
  <2>2. g = [t \in SUBSET (1..0) |-> Val(g, t)]
    BY <2>1
  <2> QED  BY <2>2
<1>2. ASSUME NEW n \in Nat, n \in T PROVE n + 1 \in T
  <2>1. PICK g : g = [t \in SUBSET (1..n) |-> Val(g, t)]
    BY <1>2
  <2> DEFINE h == [t \in SUBSET (1..n + 1) |->
                     IF n + 1 \in t THEN Step(kind, g[t \ {n + 1}], s[n + 1])
                                    ELSE g[t]]
  <2>2. ASSUME NEW t \in SUBSET (1..n + 1) PROVE h[t] = Val(h, t)
    <3>1. CASE n + 1 \in t
      <4>1. Max(t) = n + 1
        <5>1. t \subseteq Nat /\ \A y \in t : n + 1 >= y
          OBVIOUS
        <5> QED  BY <3>1, <5>1, MaxIs
      <4>2. t \ {n + 1} \in SUBSET (1..n + 1) /\ n + 1 \notin t \ {n + 1}
        OBVIOUS
      <4>3. h[t \ {n + 1}] = g[t \ {n + 1}]
        BY <4>2
      <4> QED  BY <3>1, <4>1, <4>3
    <3>2. CASE n + 1 \notin t /\ t # {}
      <4>1. t \in SUBSET (1..n)
        BY <3>2
      <4>2. Max(t) \in t
        BY <3>2, <4>1, MaxExists
      <4>3. h[t] = g[t] /\ g[t] = Val(g, t)
        BY <2>1, <3>2, <4>1
      <4>4. t \ {Max(t)} \in SUBSET (1..n + 1) /\ n + 1 \notin t \ {Max(t)}
        BY <3>2
      <4>5. h[t \ {Max(t)}] = g[t \ {Max(t)}]
        BY <4>4
      <4> QED  BY <3>2, <4>3, <4>5
    <3>3. CASE t = {}
      <4>1. t \in SUBSET (1..n) /\ n + 1 \notin t
        BY <3>3
      <4>2. h[t] = g[t] /\ g[t] = Val(g, t)
        BY <2>1, <4>1
      <4> QED  BY <3>3, <4>2
    <3> QED  BY <3>1, <3>2, <3>3
  <2>3. h = [t \in SUBSET (1..n + 1) |-> Val(h, t)]
    BY <2>2
  <2> HIDE DEF h
  <2>4. n + 1 \in Nat
    OBVIOUS
  <2> QED  BY <2>3, <2>4
<1>3. Len(s) \in T
  <2> HIDE DEF T
  <2> QED  BY <1>1, <1>2, SetInduction, LenProperties
<1>4. DOMAIN s = 1..Len(s)
  BY LenProperties
<1> QED  BY <1>3, <1>4 DEF IsIter

\* Its values on the prefixes are the steps of the fold, in their order.
LEMMA IterLeads ==
    ASSUME NEW kind, NEW m, NEW S, NEW s \in Seq(S), NEW g,
           IsIter(kind, m, s, g)
    PROVE  Leads(kind, m, s, g[DOMAIN s])
<1> DEFINE n == Len(s)
           q == [i \in 0..n |-> g[1..i]]
<1>1. n \in Nat /\ DOMAIN s = 1..n
  BY LenProperties
<1>2. q[0] = m
  <2>1. 1..0 = {} /\ {} \in SUBSET DOMAIN s
    OBVIOUS
  <2> QED  BY <1>1, <2>1 DEF IsIter
<1>3. q[n] = g[DOMAIN s]
  BY <1>1
<1>4. ASSUME NEW i \in 1..n PROVE q[i] = Step(kind, q[i - 1], s[i])
  <2>1. 1..i \in SUBSET DOMAIN s /\ 1..i # {} /\ i \in 1..i
    <3>1. i \in 1..i
      BY <1>1
    <3>2. \A k \in 1..i : k \in 1..n
      BY <1>1
    <3> QED  BY <1>1, <3>1, <3>2
  <2>2. 1..i \subseteq Nat /\ \A y \in 1..i : i >= y
    BY <1>1
  <2>3. Max(1..i) = i
    BY <2>1, <2>2, MaxIs
  <2>4. (1..i) \ {i} = 1..(i - 1)
    BY <1>1
  <2>5. g[1..i] = Step(kind, g[1..(i - 1)], s[i])
    BY <2>1, <2>3, <2>4 DEF IsIter
  <2>6. q[i] = g[1..i] /\ q[i - 1] = g[1..(i - 1)]
    BY <1>1
  <2> QED  BY <2>5, <2>6
<1> QED  BY <1>2, <1>3, <1>4 DEF Leads

\* The fields lead to one value only.
LEMMA LeadsOnce ==
    ASSUME NEW kind, NEW m, NEW S, NEW s \in Seq(S), NEW x, NEW y,
           Leads(kind, m, s, x), Leads(kind, m, s, y)
    PROVE  x = y
<1>1. Len(s) \in Nat
  BY LenProperties
<1>2. PICK p : /\ p[0] = m /\ p[Len(s)] = x
               /\ \A i \in 1..Len(s) : p[i] = Step(kind, p[i - 1], s[i])
  BY DEF Leads
<1>3. PICK q : /\ q[0] = m /\ q[Len(s)] = y
               /\ \A i \in 1..Len(s) : q[i] = Step(kind, q[i - 1], s[i])
  BY DEF Leads
<1>4. p[0] = q[0] /\ \A i \in 1..Len(s) : p[i - 1] = q[i - 1] => p[i] = q[i]
  BY <1>2, <1>3
<1>5. \A i \in 0..Len(s) : p[i] = q[i]
  BY <1>1, <1>4, RunsAgree
<1>6. Len(s) \in 0..Len(s)
  BY <1>1
<1> QED  BY <1>2, <1>3, <1>5, <1>6

\* A fold of FoldLeft is where the fields lead: one lemma per table, and one
\* for the sum.  Here, the parser of a Login.
LEMMA LoginLeads ==
    ASSUME NEW m, NEW S, NEW s \in Seq(S)
    PROVE  Leads("Login", m, s, ParseLogin(m, s))
<1> DEFINE A(g) ==
             g = [t \in SUBSET DOMAIN s |->
                    IF t = {} THEN m ELSE LoginStep(g[t \ {Max(t)}], s[Max(t)])]
<1>1. \A g : A(g) <=> IsIter("Login", m, s, g)
  BY DEF IsIter, Step
<1>2. IsIter("Login", m, s, CHOOSE g : A(g))
  BY <1>1, IterExists
<1>3. ParseLogin(m, s) = (CHOOSE g : A(g))[DOMAIN s]
  BY DEF ParseLogin, LoginStep, FoldLeft, MapThenFoldSet
<1> QED  BY <1>2, <1>3, IterLeads

\* The parser of a KeepAlive.
LEMMA KeepAliveLeads ==
    ASSUME NEW m, NEW S, NEW s \in Seq(S)
    PROVE  Leads("KeepAlive", m, s, ParseKeepAlive(m, s))
<1> DEFINE A(g) ==
             g = [t \in SUBSET DOMAIN s |->
                    IF t = {} THEN m ELSE Unknown(g[t \ {Max(t)}], s[Max(t)])]
<1>1. \A g : A(g) <=> IsIter("KeepAlive", m, s, g)
  BY DEF IsIter, Step
<1>2. IsIter("KeepAlive", m, s, CHOOSE g : A(g))
  BY <1>1, IterExists
<1>3. ParseKeepAlive(m, s) = (CHOOSE g : A(g))[DOMAIN s]
  BY DEF ParseKeepAlive, FoldLeft, MapThenFoldSet
<1> QED  BY <1>2, <1>3, IterLeads

\* The parser of an Insert.
LEMMA InsertLeads ==
    ASSUME NEW m, NEW S, NEW s \in Seq(S)
    PROVE  Leads("Insert", m, s, ParseInsert(m, s))
<1> DEFINE A(g) ==
             g = [t \in SUBSET DOMAIN s |->
                    IF t = {} THEN m ELSE InsertStep(g[t \ {Max(t)}], s[Max(t)])]
<1>1. \A g : A(g) <=> IsIter("Insert", m, s, g)
  BY DEF IsIter, Step
<1>2. IsIter("Insert", m, s, CHOOSE g : A(g))
  BY <1>1, IterExists
<1>3. ParseInsert(m, s) = (CHOOSE g : A(g))[DOMAIN s]
  BY DEF ParseInsert, InsertStep, FoldLeft, MapThenFoldSet
<1> QED  BY <1>2, <1>3, IterLeads

\* The parser of an Envelope.
LEMMA EnvelopeLeads ==
    ASSUME NEW m, NEW S, NEW s \in Seq(S)
    PROVE  Leads("Envelope", m, s, ParseEnvelope(m, s))
<1> DEFINE A(g) ==
             g = [t \in SUBSET DOMAIN s |->
                    IF t = {} THEN m ELSE EnvelopeStep(g[t \ {Max(t)}], s[Max(t)])]
<1>1. \A g : A(g) <=> IsIter("Envelope", m, s, g)
  BY DEF IsIter, Step
<1>2. IsIter("Envelope", m, s, CHOOSE g : A(g))
  BY <1>1, IterExists
<1>3. ParseEnvelope(m, s) = (CHOOSE g : A(g))[DOMAIN s]
  BY DEF ParseEnvelope, EnvelopeStep, FoldLeft, MapThenFoldSet
<1> QED  BY <1>2, <1>3, IterLeads

\* The parser of a map entry.
LEMMA EntryLeads ==
    ASSUME NEW S, NEW s \in Seq(S)
    PROVE  Leads("Entry", <<"", "">>, s, ParseEntry(s))
<1> SUFFICES ASSUME NEW m, m = <<"", "">>
             PROVE  Leads("Entry", m, s, ParseEntry(s))
  OBVIOUS
<1> DEFINE A(g) ==
             g = [t \in SUBSET DOMAIN s |->
                    IF t = {} THEN m ELSE EntryStep(g[t \ {Max(t)}], s[Max(t)])]
<1>1. \A g : A(g) <=> IsIter("Entry", m, s, g)
  BY DEF IsIter, Step
<1>2. IsIter("Entry", m, s, CHOOSE g : A(g))
  BY <1>1, IterExists
<1>3. ParseEntry(s) = (CHOOSE g : A(g))[DOMAIN s]
  BY DEF ParseEntry, EntryStep, FoldLeft, MapThenFoldSet
<1> HIDE DEF A
<1>4. Leads("Entry", m, s, (CHOOSE g : A(g))[DOMAIN s])
  BY <1>2, IterLeads, Zenon
<1> QED  BY <1>3, <1>4, Zenon

\* The sum of numbers.
LEMMA SumLeads ==
    ASSUME NEW S, NEW s \in Seq(S)
    PROVE  Leads("Sum", 0, s, Sum(s))
<1> DEFINE A(g) ==
             g = [t \in SUBSET DOMAIN s |->
                    IF t = {} THEN 0 ELSE g[t \ {Max(t)}] + s[Max(t)]]
<1>1. \A g : A(g) <=> IsIter("Sum", 0, s, g)
  BY DEF IsIter, Step
<1>2. IsIter("Sum", 0, s, CHOOSE g : A(g))
  BY <1>1, IterExists
<1>3. Sum(s) = (CHOOSE g : A(g))[DOMAIN s]
  BY DEF Sum, FoldLeft, MapThenFoldSet
<1> QED  BY <1>2, <1>3, IterLeads

\* No field leads nowhere.
LEMMA LeadsEmpty ==
    ASSUME NEW kind, NEW m
    PROVE  Leads(kind, m, <<>>, m)
<1> DEFINE q == [i \in 0..0 |-> m]
<1>1. q[0] = m /\ Len(<<>>) = 0 /\ 1..0 = {}
  OBVIOUS
<1> HIDE DEF q
<1> QED  BY <1>1 DEF Leads

\* One field is one step.
LEMMA LeadsOne ==
    ASSUME NEW kind, NEW m, NEW f
    PROVE  Leads(kind, m, <<f>>, Step(kind, m, f))
<1> DEFINE q == [i \in 0..1 |-> IF i = 0 THEN m ELSE Step(kind, m, f)]
<1>1. q[0] = m /\ q[1] = Step(kind, m, f) /\ Len(<<f>>) = 1 /\ <<f>>[1] = f
  OBVIOUS
<1> HIDE DEF q
<1>2. \A i \in 1..1 : q[i] = Step(kind, q[i - 1], <<f>>[i])
  <2>1. \A i \in 1..1 : i = 1 /\ i - 1 = 0
    OBVIOUS
  <2> QED  BY <1>1, <2>1
<1> QED  BY <1>1, <1>2 DEF Leads

\* What two sequences do one after the other their concatenation does.
LEMMA LeadsCat ==
    ASSUME NEW kind, NEW S, NEW s \in Seq(S), NEW t \in Seq(S),
           NEW m, NEW x, NEW y, Leads(kind, m, s, x), Leads(kind, x, t, y)
    PROVE  Leads(kind, m, s \o t, y)
<1>1. PICK p : /\ p[0] = m /\ p[Len(s)] = x
               /\ \A i \in 1..Len(s) : p[i] = Step(kind, p[i - 1], s[i])
  BY DEF Leads
<1>2. PICK q : /\ q[0] = x /\ q[Len(t)] = y
               /\ \A i \in 1..Len(t) : q[i] = Step(kind, q[i - 1], t[i])
  BY DEF Leads
<1>3. PICK a \in Nat : a = Len(s)
  BY LenProperties
<1>4. PICK b \in Nat : b = Len(t)
  BY LenProperties
<1>5. PICK u : u = s \o t
  OBVIOUS
<1>6. /\ Len(u) = a + b
      /\ \A i \in 1..a + b : u[i] = IF i <= a THEN s[i] ELSE t[i - a]
  BY <1>3, <1>4, <1>5, ConcatProperties
<1> DEFINE r == [i \in 0..a + b |-> IF i <= a THEN p[i] ELSE q[i - a]]
<1>7. r[0] = m
  BY <1>1
<1>8. r[a + b] = y
  <2>1. CASE b = 0
    <3>1. a + b = a /\ a \in 0..a + b
      BY <2>1
    <3>2. r[a + b] = p[a]
      BY <3>1
    <3> QED  BY <1>1, <1>2, <1>3, <1>4, <2>1, <3>2
  <2>2. CASE b # 0
    <3>1. ~(a + b <= a) /\ (a + b) - a = b /\ a + b \in 0..a + b
      BY <2>2
    <3>2. r[a + b] = q[b]
      BY <3>1
    <3> QED  BY <1>2, <1>4, <3>2
  <2> QED  BY <2>1, <2>2
<1>9. ASSUME NEW i \in 1..a + b PROVE r[i] = Step(kind, r[i - 1], u[i])
  <2>1. CASE i <= a
    <3>1. i \in 1..a /\ i - 1 \in 0..a + b /\ i - 1 <= a
      BY <2>1
    <3>2. r[i] = p[i] /\ r[i - 1] = p[i - 1] /\ u[i] = s[i]
      BY <1>6, <2>1, <3>1
    <3> QED  BY <1>1, <1>3, <3>1, <3>2
  <2>2. CASE i = a + 1
    <3>1. i - a = 1 /\ i - 1 = a /\ 1 \in 1..b /\ ~(i <= a) /\ 1 - 1 = 0
      BY <2>2
    <3>2. r[i] = q[1] /\ r[i - 1] = p[a] /\ u[i] = t[1]
      BY <1>6, <3>1
    <3>3. q[1] = Step(kind, q[0], t[1])
      BY <1>2, <1>4, <3>1
    <3> QED  BY <1>1, <1>2, <1>3, <3>2, <3>3
  <2>3. CASE i > a + 1
    <3>1. i - a \in 1..b /\ i - 1 \in 0..a + b /\ ~(i <= a) /\ ~(i - 1 <= a)
          /\ (i - a) - 1 = (i - 1) - a
      BY <2>3
    <3>2. r[i] = q[i - a] /\ r[i - 1] = q[(i - a) - 1] /\ u[i] = t[i - a]
      BY <1>6, <3>1
    <3> QED  BY <1>2, <1>4, <3>1, <3>2
  <2> QED  BY <2>1, <2>2, <2>3
<1> HIDE DEF r
<1>10. Leads(kind, m, u, y)
  BY <1>6, <1>7, <1>8, <1>9 DEF Leads
<1> QED  BY <1>5, <1>10
-----------------------------------------------------------------------------
(***************************************************************************)
(* The messages the program makes.  NewField is the one unknown field.     *)
(***************************************************************************)
Unknowns == Seq({NewField})

Maps == UNION {[D -> Strings] : D \in FiniteSubsetsOf(Strings)}

LoginMsgs     == [nickname : Strings, unknown : Unknowns]
KeepAliveMsgs == [unknown : Unknowns]
InsertMsgs    == [table : Strings, values : Maps, unknown : Unknowns]

Payloads(case) == CASE case = 0 -> {KeepAlive}
                    [] case = 1 -> LoginMsgs
                    [] case = 2 -> KeepAliveMsgs
                    [] case = 3 -> InsertMsgs

Envelopes ==
    {e \in [payload_case : 0..3, payload : UNION {Payloads(c) : c \in 0..3},
            unknown : Unknowns] :
       e.payload \in Payloads(e.payload_case)}

\* Appending to a prefix makes the next one.
LEMMA PrefixAppend ==
    ASSUME NEW S, NEW a \in Seq(S), NEW u \in Seq(S), NEW i \in 1..Len(u)
    PROVE  a \o SubSeq(u, 1, i) = Append(a \o SubSeq(u, 1, i - 1), u[i])
  OBVIOUS

\* The message with the fields u after its unknown fields.
WithUnknown(m, u) == [m EXCEPT !.unknown = m.unknown \o u]

\* No table has the field, so every one keeps it.
LEMMA StepUnknown ==
    ASSUME NEW kind \in {"Login", "KeepAlive", "Insert", "Envelope"}, NEW x
    PROVE  Step(kind, x, NewField)
             = [x EXCEPT !.unknown = Append(x.unknown, NewField)]
<1>1. NewField.num = 4
  BY DEF NewField, Field
<1>2. NewField.num # 1 /\ NewField.num # 2 /\ NewField.num \notin 1..3
  BY <1>1
<1>3. Unknown(x, NewField) = [x EXCEPT !.unknown = Append(x.unknown, NewField)]
  BY DEF Unknown
<1>4. CASE kind = "Login"
  BY <1>2, <1>3, <1>4 DEF Step, LoginStep
<1>5. CASE kind = "KeepAlive"
  BY <1>3, <1>5 DEF Step
<1>6. CASE kind = "Insert"
  BY <1>2, <1>3, <1>6 DEF Step, InsertStep
<1>7. CASE kind = "Envelope"
  BY <1>2, <1>3, <1>7 DEF Step, EnvelopeStep
<1> QED  BY <1>4, <1>5, <1>6, <1>7

\* Unknown fields are kept in their order.
LEMMA LeadsUnknown ==
    ASSUME NEW kind \in {"Login", "KeepAlive", "Insert", "Envelope"},
           NEW m, "unknown" \in DOMAIN m, m = [k \in DOMAIN m |-> m[k]],
           m.unknown \in Unknowns, NEW u \in Unknowns
    PROVE  Leads(kind, m, u, WithUnknown(m, u))
<1> DEFINE q == [i \in 0..Len(u) |-> WithUnknown(m, SubSeq(u, 1, i))]
<1>1. PICK n \in Nat : n = Len(u)
  BY LenProperties DEF Unknowns
<1>2. q[0] = m
  <2>1. m.unknown \o SubSeq(u, 1, 0) = m.unknown
    BY DEF Unknowns
  <2>2. 0 \in 0..Len(u)
    BY <1>1
  <2> QED  BY <2>1, <2>2 DEF WithUnknown
<1>3. q[n] = WithUnknown(m, u)
  <2>1. SubSeq(u, 1, Len(u)) = u
    BY DEF Unknowns
  <2>2. n \in 0..Len(u)
    BY <1>1
  <2> QED  BY <1>1, <2>1, <2>2
<1>4. ASSUME NEW i \in 1..n PROVE q[i] = Step(kind, q[i - 1], u[i])
  <2> DEFINE a == m.unknown \o SubSeq(u, 1, i - 1)
  <2>1. u[i] = NewField
    BY <1>1 DEF Unknowns
  <2>2. m.unknown \o SubSeq(u, 1, i) = Append(a, NewField)
    BY <1>1, <2>1, PrefixAppend DEF Unknowns
  <2>3. i \in 0..Len(u) /\ i - 1 \in 0..Len(u)
    BY <1>1
  <2>4. q[i] = [m EXCEPT !.unknown = Append(a, NewField)]
        /\ q[i - 1] = [m EXCEPT !.unknown = a]
    BY <2>2, <2>3 DEF WithUnknown
  <2> HIDE DEF a, q
  <2>5. [m EXCEPT !.unknown = a].unknown = a
        /\ [[m EXCEPT !.unknown = a] EXCEPT !.unknown = Append(a, NewField)]
             = [m EXCEPT !.unknown = Append(a, NewField)]
    OBVIOUS
  <2>6. q[i] = [q[i - 1] EXCEPT !.unknown = Append(q[i - 1].unknown, NewField)]
    BY <2>4, <2>5
  <2> QED  BY <2>1, <2>6, StepUnknown
<1> HIDE DEF q
<1> QED  BY <1>1, <1>2, <1>3, <1>4 DEF Leads
-----------------------------------------------------------------------------
(***************************************************************************)
(* What is parsed from the serialisation of a member of the oneof.         *)
(***************************************************************************)
StringFields == {Field(1, "string", Len(s), s) : s \in Strings}

EntryFields == {Entry(k, v) : k \in Strings, v \in Strings}

MemberFields == StringFields \cup EntryFields \cup {NewField}

\* The parts of a serialisation are sequences of these fields.
LEMMA MemberParts ==
    /\ Unknowns \subseteq Seq(MemberFields)
    /\ \A s \in Strings : Singular(1, s) \in Seq(MemberFields)
<1>1. Unknowns \subseteq Seq(MemberFields)
  BY DEF Unknowns, MemberFields
<1>2. ASSUME NEW s \in Strings PROVE Singular(1, s) \in Seq(MemberFields)
  <2> DEFINE f == Field(1, "string", Len(s), s)
  <2>1. f \in MemberFields
    BY DEF MemberFields, StringFields
  <2> HIDE DEF f
  <2>2. <<>> \in Seq(MemberFields) /\ <<f>> \in Seq(MemberFields)
    BY <2>1
  <2>3. Singular(1, s) \in {<<>>, <<f>>}
    BY DEF Singular, f
  <2> QED  BY <2>2, <2>3
<1> QED  BY <1>1, <1>2

\* A string field that is not written because it is empty leaves the field
\* as it was: what MergeString does.
LEMMA LeadsNickname ==
    ASSUME NEW m \in LoginMsgs, NEW s \in Strings
    PROVE  Leads("Login", m, Singular(1, s),
                 [m EXCEPT !.nickname = MergeString(m.nickname, s)])
<1>1. CASE s = ""
  <2>1. Singular(1, s) = <<>> /\ MergeString(m.nickname, s) = m.nickname
    BY <1>1 DEF Singular, MergeString
  <2>2. [m EXCEPT !.nickname = m.nickname] = m
    BY DEF LoginMsgs
  <2> QED  BY <2>1, <2>2, LeadsEmpty
<1>2. CASE s # ""
  <2> DEFINE f == Field(1, "string", Len(s), s)
  <2>1. Singular(1, s) = <<f>> /\ MergeString(m.nickname, s) = s
    BY <1>2 DEF Singular, MergeString
  <2>2. f.num = 1 /\ f.body = s
    BY DEF Field
  <2> HIDE DEF f
  <2>3. Step("Login", m, f) = [m EXCEPT !.nickname = s]
    BY <2>2 DEF Step, LoginStep
  <2> QED  BY <2>1, <2>3, LeadsOne
<1> QED  BY <1>1, <1>2

\* A Login read into another one is merged into it.
LEMMA LoginParsed ==
    ASSUME NEW m \in LoginMsgs, NEW p \in LoginMsgs
    PROVE  /\ SerializeLogin(p) \in Seq(MemberFields)
           /\ ParseLogin(m, SerializeLogin(p)) = MergeLogin(m, p)
<1> DEFINE x == [m EXCEPT !.nickname = MergeString(m.nickname, p.nickname)]
           a == Singular(1, p.nickname)
           b == p.unknown
<1>1. p.nickname \in Strings /\ m.nickname \in Strings /\ b \in Unknowns
      /\ m.unknown \in Unknowns
  BY DEF LoginMsgs
<1>2. a \in Seq(MemberFields) /\ b \in Seq(MemberFields)
  BY <1>1, MemberParts
<1>3. a \o b \in Seq(MemberFields)
  BY <1>2
<1>4. Leads("Login", m, a, x)
  BY <1>1, LeadsNickname
<1>5. /\ "unknown" \in DOMAIN x /\ x = [k \in DOMAIN x |-> x[k]]
      /\ x.unknown = m.unknown
  BY DEF LoginMsgs
<1>6. WithUnknown(x, b) = MergeLogin(m, p)
  <2> DEFINE n == MergeString(m.nickname, p.nickname)
             w == m.unknown \o b
  <2>1. x = [nickname |-> n, unknown |-> m.unknown]
    BY DEF LoginMsgs
  <2> HIDE DEF n, w, x
  <2>2. [x EXCEPT !.unknown = w] = [nickname |-> n, unknown |-> w]
    BY <2>1
  <2> QED  BY <1>5, <2>2 DEF WithUnknown, MergeLogin, n, w
<1> HIDE DEF x, a, b
<1>7. Leads("Login", x, b, WithUnknown(x, b))
  BY <1>1, <1>5, LeadsUnknown
<1>8. Leads("Login", m, a \o b, WithUnknown(x, b))
  BY <1>2, <1>4, <1>7, LeadsCat
<1>9. Leads("Login", m, a \o b, ParseLogin(m, a \o b))
  BY <1>3, LoginLeads
<1>10. ParseLogin(m, a \o b) = WithUnknown(x, b)
  BY <1>3, <1>8, <1>9, LeadsOnce
<1> QED  BY <1>3, <1>6, <1>10 DEF SerializeLogin, a, b

\* So is a KeepAlive.
LEMMA KeepAliveParsed ==
    ASSUME NEW m \in KeepAliveMsgs, NEW p \in KeepAliveMsgs
    PROVE  /\ SerializeKeepAlive(p) \in Seq(MemberFields)
           /\ ParseKeepAlive(m, SerializeKeepAlive(p)) = MergeKeepAlive(m, p)
<1>1. p.unknown \in Unknowns /\ m.unknown \in Unknowns
      /\ "unknown" \in DOMAIN m /\ m = [k \in DOMAIN m |-> m[k]]
  BY DEF KeepAliveMsgs
<1>2. p.unknown \in Seq(MemberFields)
  BY <1>1, MemberParts
<1>3. WithUnknown(m, p.unknown) = MergeKeepAlive(m, p)
  BY DEF KeepAliveMsgs, WithUnknown, MergeKeepAlive
<1>4. Leads("KeepAlive", m, p.unknown, WithUnknown(m, p.unknown))
  BY <1>1, LeadsUnknown
<1>5. Leads("KeepAlive", m, p.unknown, ParseKeepAlive(m, p.unknown))
  BY <1>2, KeepAliveLeads
<1>6. ParseKeepAlive(m, p.unknown) = WithUnknown(m, p.unknown)
  BY <1>2, <1>4, <1>5, LeadsOnce
<1> QED  BY <1>2, <1>3, <1>6 DEF SerializeKeepAlive

\* A pair with one of its two components replaced.
LEMMA PairExcept ==
    ASSUME NEW a, NEW b, NEW c
    PROVE  /\ [<<a, b>> EXCEPT ![1] = c] = <<c, b>>
           /\ [<<a, b>> EXCEPT ![2] = c] = <<a, c>>
  OBVIOUS

\* A map entry is read as the key and the value that were written.
LEMMA EntryParsed ==
    ASSUME NEW k, NEW v
    PROVE  ParseEntry(Entry(k, v).body) = <<k, v>>
<1> DEFINE f1 == Field(1, "string", Len(k), k)
           f2 == Field(2, "string", Len(v), v)
           s == <<f1, f2>>
<1>1. Entry(k, v).body = s
  BY DEF Entry, Field
<1>2. f1.num = 1 /\ f1.body = k /\ f2.num = 2 /\ f2.body = v
  BY DEF Field
<1>3. s = <<f1>> \o <<f2>> /\ <<f1>> \in Seq({f1, f2}) /\ <<f2>> \in Seq({f1, f2})
      /\ s \in Seq({f1, f2})
  OBVIOUS
<1> HIDE DEF f1, f2, s
<1>4. Step("Entry", <<"", "">>, f1) = <<k, "">>
  <2>1. Step("Entry", <<"", "">>, f1) = [<<"", "">> EXCEPT ![1] = k]
    BY <1>2 DEF Step, EntryStep
  <2>2. \A e, z : [<<e, z>> EXCEPT ![1] = k] = <<k, z>>
    BY PairExcept
  <2> QED  BY <2>1, <2>2, Zenon
<1>5. Step("Entry", <<k, "">>, f2) = <<k, v>>
  <2>1. Step("Entry", <<k, "">>, f2) = [<<k, "">> EXCEPT ![2] = v]
    BY <1>2 DEF Step, EntryStep
  <2>2. \A e : [<<k, e>> EXCEPT ![2] = v] = <<k, v>>
    BY PairExcept
  <2> QED  BY <2>1, <2>2, Zenon
<1>6. Leads("Entry", <<"", "">>, <<f1>>, <<k, "">>)
  BY <1>4, LeadsOne, Zenon
<1>7. Leads("Entry", <<k, "">>, <<f2>>, <<k, v>>)
  BY <1>5, LeadsOne, Zenon
<1>8. Leads("Entry", <<"", "">>, s, <<k, v>>)
  <2>1. Leads("Entry", <<"", "">>, <<f1>> \o <<f2>>, <<k, v>>)
    BY <1>3, <1>6, <1>7, LeadsCat, Zenon
  <2> QED  BY <1>3, <2>1, Zenon
<1>9. Leads("Entry", <<"", "">>, s, ParseEntry(s))
  BY <1>3, EntryLeads
<1>10. ParseEntry(s) = <<k, v>>
  BY <1>3, <1>8, <1>9, LeadsOnce, Zenon
<1> QED  BY <1>1, <1>10

\* a with the entries of b whose keys are in K.
PartMap(a, b, K) == [k \in DOMAIN a \cup K |-> IF k \in K THEN b[k] ELSE a[k]]

\* An order in which a map is iterated has every key once.
LEMMA OrderFacts ==
    ASSUME NEW D, IsFiniteSet(D), NEW o \in SetToSeqs(D)
    PROVE  /\ Cardinality(D) \in Nat
           /\ o \in [1..Cardinality(D) -> D]
           /\ o \in Seq(D) /\ Len(o) = Cardinality(D)
           /\ DOMAIN o = 1..Len(o)
           /\ \A i, j \in 1..Len(o) : i # j => o[i] # o[j]
           /\ \A k \in D : \E i \in 1..Len(o) : o[i] = k
<1> DEFINE n == Cardinality(D)
<1>1. n \in Nat
  BY FS_CardinalityType
<1>2. o \in [1..n -> D] /\ \A i, j \in 1..n : i # j => o[i] # o[j]
  BY DEF SetToSeqs
<1>3. o \in Injection(1..n, D)
  BY <1>2 DEF Injection, IsInjective
<1>4. Cardinality(1..n) = n
  BY <1>1, FS_Interval
<1>5. o \in Surjection(1..n, D)
  BY <1>3, <1>4, FS_Injection
<1>6. \A k \in D : \E i \in 1..n : o[i] = k
  BY <1>5 DEF Surjection
<1> HIDE DEF n
<1>7. o \in Seq(D) /\ Len(o) = n
  BY <1>1, <1>2
<1> QED  BY <1>1, <1>2, <1>6, <1>7 DEF n

\* Putting one entry of b into a part of it.
LEMMA PutNext ==
    \A a, b, K, k : Put(PartMap(a, b, K), k, b[k]) = PartMap(a, b, K \cup {k})
<1> TAKE a, b, K, k
<1> DEFINE c == PartMap(a, b, K)
           L == K \cup {k}
<1>1. DOMAIN c = DOMAIN a \cup K
      /\ \A x \in DOMAIN a \cup K : c[x] = IF x \in K THEN b[x] ELSE a[x]
  BY DEF PartMap
<1> HIDE DEF c
<1>2. Put(c, k, b[k]) = [x \in DOMAIN a \cup L |->
                           IF x = k THEN b[k] ELSE c[x]]
  <2>1. DOMAIN c \cup {k} = DOMAIN a \cup L
    BY <1>1
  <2> QED  BY <2>1 DEF Put
<1>3. \A x \in DOMAIN a \cup L :
         (IF x = k THEN b[k] ELSE c[x]) = IF x \in L THEN b[x] ELSE a[x]
  BY <1>1
<1>4. [x \in DOMAIN a \cup L |-> IF x = k THEN b[k] ELSE c[x]]
        = [x \in DOMAIN a \cup L |-> IF x \in L THEN b[x] ELSE a[x]]
  BY <1>3
<1> QED  BY <1>2, <1>4 DEF PartMap, c

\* Nothing of b is a, everything of it is what MergeFrom makes of the two.
LEMMA PartMapEnds ==
    ASSUME NEW a, a = [k \in DOMAIN a |-> a[k]], NEW b
    PROVE  /\ PartMap(a, b, {}) = a
           /\ PartMap(a, b, DOMAIN b) = MergeMap(a, b)
  BY DEF PartMap, MergeMap

\* The entries of a map, in whatever order.
EntriesOf(values, order) ==
    [i \in DOMAIN order |-> Entry(order[i], values[order[i]])]

\* What a map is: a finite function on strings.
LEMMA MapFacts ==
    ASSUME NEW b \in Maps
    PROVE  /\ IsFiniteSet(DOMAIN b) /\ DOMAIN b \subseteq Strings
           /\ b = [k \in DOMAIN b |-> b[k]]
           /\ \A k \in DOMAIN b : b[k] \in Strings
<1>1. PICK D \in FiniteSubsetsOf(Strings) : b \in [D -> Strings]
  BY DEF Maps
<1>2. D \subseteq Strings /\ IsFiniteSet(D)
  BY DEF FiniteSubsetsOf
<1>3. DOMAIN b = D /\ b = [k \in D |-> b[k]] /\ \A k \in D : b[k] \in Strings
  BY <1>1
<1> QED  BY <1>2, <1>3

\* The entries are fields of a member.
LEMMA EntriesFacts ==
    ASSUME NEW b \in Maps, NEW o \in SetToSeqs(DOMAIN b)
    PROVE  /\ EntriesOf(b, o) \in Seq(MemberFields)
           /\ Len(EntriesOf(b, o)) = Len(o)
           /\ \A i \in 1..Len(o) : EntriesOf(b, o)[i] = Entry(o[i], b[o[i]])
<1> DEFINE n == Cardinality(DOMAIN b)
           s == EntriesOf(b, o)
<1>1. n \in Nat /\ o \in [1..n -> DOMAIN b] /\ Len(o) = n
  BY MapFacts, OrderFacts
<1>2. \A i \in 1..n : o[i] \in Strings /\ b[o[i]] \in Strings
  BY <1>1, MapFacts
<1> HIDE DEF n
<1>3. DOMAIN o = 1..n
  BY <1>1
<1>4. s = [i \in 1..n |-> Entry(o[i], b[o[i]])]
  BY <1>3 DEF EntriesOf
<1>5. \A i \in 1..n : Entry(o[i], b[o[i]]) \in MemberFields
  BY <1>2 DEF MemberFields, EntryFields
<1>6. s \in [1..n -> MemberFields]
  BY <1>4, <1>5
<1>7. \A i \in 1..n : s[i] = Entry(o[i], b[o[i]])
  BY <1>4
<1> HIDE DEF s
<1>8. s \in Seq(MemberFields) /\ Len(s) = n
  BY <1>1, <1>6
<1> QED  BY <1>1, <1>7, <1>8 DEF s

\* The entries are put into the map one by one, in the order of writing.
LEMMA LeadsEntries ==
    ASSUME NEW m \in InsertMsgs, NEW b \in Maps, NEW o \in SetToSeqs(DOMAIN b)
    PROVE  Leads("Insert", m, EntriesOf(b, o),
                 [m EXCEPT !.values = MergeMap(m.values, b)])
<1> DEFINE n == Len(o)
           s == EntriesOf(b, o)
           Keys(i) == {o[j] : j \in 1..i}
           q == [i \in 0..n |->
                   [m EXCEPT !.values = PartMap(m.values, b, Keys(i))]]
<1>1. m.values \in Maps
  BY DEF InsertMsgs
<1>2. n \in Nat /\ (\A i \in 1..n : o[i] \in DOMAIN b)
      /\ \A k \in DOMAIN b : \E i \in 1..n : o[i] = k
  BY MapFacts, OrderFacts
<1>3. Keys(0) = {} /\ Keys(n) = DOMAIN b
  <2>1. 1..0 = {}
    OBVIOUS
  <2>2. Keys(n) \subseteq DOMAIN b /\ DOMAIN b \subseteq Keys(n)
    <3> HIDE DEF n
    <3> QED  BY <1>2
  <2> QED  BY <2>1, <2>2
<1>4. q[0] = m
  <2>1. PartMap(m.values, b, {}) = m.values
    BY <1>1, MapFacts, PartMapEnds
  <2>2. [m EXCEPT !.values = m.values] = m
    BY DEF InsertMsgs
  <2>3. 0 \in 0..n
    BY <1>2
  <2> QED  BY <1>3, <2>1, <2>2, <2>3
<1>5. q[n] = [m EXCEPT !.values = MergeMap(m.values, b)]
  <2>1. PartMap(m.values, b, DOMAIN b) = MergeMap(m.values, b)
    BY <1>1, MapFacts, PartMapEnds
  <2>2. n \in 0..n
    BY <1>2
  <2> QED  BY <1>3, <2>1, <2>2
<1>6. ASSUME NEW i \in 1..n PROVE q[i] = Step("Insert", q[i - 1], s[i])
  <2> DEFINE k == o[i]
             f == Entry(k, b[k])
             a == PartMap(m.values, b, Keys(i - 1))
             c == PartMap(m.values, b, Keys(i))
  <2>1. Keys(i) = Keys(i - 1) \cup {k}
    <3>1. 1..i = 1..(i - 1) \cup {i}
      BY <1>2
    <3> QED  BY <3>1
  <2>2. c = Put(a, k, b[k])
    <3> DEFINE K == Keys(i - 1)
    <3>1. Put(PartMap(m.values, b, K), k, b[k]) = PartMap(m.values, b, K \cup {k})
      <4> HIDE DEF K, k
      <4> QED  BY PutNext
    <3> QED  BY <2>1, <3>1
  <2>3. s[i] = f
    BY EntriesFacts
  <2>4. f.num = 2 /\ ParseEntry(f.body) = <<k, b[k]>>
    BY EntryParsed DEF Entry, Field
  <2>5. ParseEntry(f.body)[1] = k /\ ParseEntry(f.body)[2] = b[k]
    BY <2>4
  <2>6. i \in 0..n /\ i - 1 \in 0..n
    BY <1>2
  <2>7. q[i] = [m EXCEPT !.values = c] /\ q[i - 1] = [m EXCEPT !.values = a]
    BY <2>6
  <2> HIDE DEF a, c, f, q
  <2>8. [m EXCEPT !.values = a].values = a
        /\ [[m EXCEPT !.values = a] EXCEPT !.values = c] = [m EXCEPT !.values = c]
    BY DEF InsertMsgs
  <2>9. q[i - 1].values = a /\ q[i] = [q[i - 1] EXCEPT !.values = c]
    BY <2>7, <2>8
  <2>10. Step("Insert", q[i - 1], f) = [q[i - 1] EXCEPT !.values = Put(a, k, b[k])]
    BY <2>4, <2>5, <2>9 DEF Step, InsertStep
  <2> QED  BY <2>2, <2>3, <2>9, <2>10
<1>7. Len(s) = n
  BY EntriesFacts
<1> HIDE DEF q
<1> QED  BY <1>4, <1>5, <1>6, <1>7 DEF Leads

\* The table, empty or not.
LEMMA LeadsTable ==
    ASSUME NEW m \in InsertMsgs, NEW s \in Strings
    PROVE  Leads("Insert", m, Singular(1, s),
                 [m EXCEPT !.table = MergeString(m.table, s)])
<1>1. CASE s = ""
  <2>1. Singular(1, s) = <<>> /\ MergeString(m.table, s) = m.table
    BY <1>1 DEF Singular, MergeString
  <2>2. [m EXCEPT !.table = m.table] = m
    BY DEF InsertMsgs
  <2> QED  BY <2>1, <2>2, LeadsEmpty
<1>2. CASE s # ""
  <2> DEFINE f == Field(1, "string", Len(s), s)
  <2>1. Singular(1, s) = <<f>> /\ MergeString(m.table, s) = s
    BY <1>2 DEF Singular, MergeString
  <2>2. f.num = 1 /\ f.body = s
    BY DEF Field
  <2> HIDE DEF f
  <2>3. Step("Insert", m, f) = [m EXCEPT !.table = s]
    BY <2>2 DEF Step, InsertStep
  <2> QED  BY <2>1, <2>3, LeadsOne
<1> QED  BY <1>1, <1>2

\* An Insert read into another one is merged into it, in whatever order its
\* map is written.
LEMMA InsertParsed ==
    ASSUME NEW m \in InsertMsgs, NEW p \in InsertMsgs,
           NEW o \in SetToSeqs(DOMAIN p.values)
    PROVE  /\ SerializeInsert(p, o) \in Seq(MemberFields)
           /\ ParseInsert(m, SerializeInsert(p, o)) = MergeInsert(m, p)
<1> DEFINE tab == MergeString(m.table, p.table)
           val == MergeMap(m.values, p.values)
           x == [m EXCEPT !.table = tab]
           y == [x EXCEPT !.values = val]
           a == Singular(1, p.table)
           e == EntriesOf(p.values, o)
           b == p.unknown
<1>1. /\ p.table \in Strings /\ p.values \in Maps /\ b \in Unknowns
      /\ m.table \in Strings /\ m.values \in Maps /\ m.unknown \in Unknowns
      /\ m = [table |-> m.table, values |-> m.values, unknown |-> m.unknown]
  BY DEF InsertMsgs
<1>2. a \in Seq(MemberFields) /\ b \in Seq(MemberFields) /\ e \in Seq(MemberFields)
  BY <1>1, MemberParts, EntriesFacts
<1>3. SerializeInsert(p, o) = (a \o e) \o b
  BY DEF SerializeInsert, EntriesOf
<1>4. tab \in Strings
  BY <1>1 DEF MergeString
<1>5. Leads("Insert", m, a, x)
  BY <1>1, LeadsTable
<1> HIDE DEF tab
<1>6. x \in InsertMsgs /\ x.values = m.values
  BY <1>4 DEF InsertMsgs
<1> HIDE DEF x
<1>7. Leads("Insert", x, e, y)
  <2>1. Leads("Insert", x, e, [x EXCEPT !.values = MergeMap(x.values, p.values)])
    BY <1>1, <1>6, LeadsEntries
  <2> QED  BY <1>6, <2>1
<1> HIDE DEF val
<1>8. y = [table |-> tab, values |-> val, unknown |-> m.unknown]
  <2>1. x = [table |-> tab, values |-> m.values, unknown |-> m.unknown]
    BY <1>1 DEF x
  <2> QED  BY <2>1
<1> HIDE DEF y, a, b, e
<1>9. /\ "unknown" \in DOMAIN y /\ y = [k \in DOMAIN y |-> y[k]]
      /\ y.unknown = m.unknown
  BY <1>8
<1>10. Leads("Insert", y, b, WithUnknown(y, b))
  BY <1>1, <1>9, LeadsUnknown
<1>11. a \o e \in Seq(MemberFields) /\ (a \o e) \o b \in Seq(MemberFields)
  BY <1>2
<1>12. Leads("Insert", m, a \o e, y)
  BY <1>2, <1>5, <1>7, LeadsCat
<1>13. Leads("Insert", m, (a \o e) \o b, WithUnknown(y, b))
  BY <1>2, <1>10, <1>11, <1>12, LeadsCat
<1>14. Leads("Insert", m, (a \o e) \o b, ParseInsert(m, (a \o e) \o b))
  BY <1>11, InsertLeads
<1>15. ParseInsert(m, (a \o e) \o b) = WithUnknown(y, b)
  <2> DEFINE c == (a \o e) \o b
             z == WithUnknown(y, b)
  <2>1. c \in Seq(MemberFields) /\ Leads("Insert", m, c, z)
        /\ Leads("Insert", m, c, ParseInsert(m, c))
    BY <1>11, <1>13, <1>14
  <2> HIDE DEF c, z
  <2>2. ParseInsert(m, c) = z
    BY <2>1, LeadsOnce
  <2> QED  BY <2>2 DEF c, z
<1>16. WithUnknown(y, b) = MergeInsert(m, p)
  <2> DEFINE w == m.unknown \o b
  <2>1. WithUnknown(y, b) = [y EXCEPT !.unknown = w]
    BY <1>9 DEF WithUnknown
  <2>2. MergeInsert(m, p) = [values |-> val, table |-> tab, unknown |-> w]
    BY DEF MergeInsert, val, tab, b
  <2> HIDE DEF w
  <2>3. [y EXCEPT !.unknown = w] = [values |-> val, table |-> tab, unknown |-> w]
    BY <1>8
  <2> QED  BY <2>1, <2>2, <2>3
<1> QED  BY <1>3, <1>11, <1>15, <1>16
-----------------------------------------------------------------------------
(***************************************************************************)
(* Sums: of sequences of numbers, and of the weights of the elements of a  *)
(* sequence.                                                               *)
(***************************************************************************)
\* A sum of numbers is a number, and starts from any number alike.
LEMMA SumFrom ==
    ASSUME NEW s \in Seq(Nat), NEW a \in Nat
    PROVE  Sum(s) \in Nat /\ Leads("Sum", a, s, a + Sum(s))
<1>1. PICK n \in Nat : n = Len(s)
  BY LenProperties
<1>2. \A i \in 1..n : s[i] \in Nat
  BY <1>1
<1>3. Leads("Sum", 0, s, Sum(s))
  BY SumLeads
<1>4. PICK q : /\ q[0] = 0 /\ q[n] = Sum(s)
               /\ \A i \in 1..n : q[i] = Step("Sum", q[i - 1], s[i])
  BY <1>1, <1>3 DEF Leads
<1>5. \A i \in 1..n : q[i] = q[i - 1] + s[i]
  BY <1>4 DEF Step
<1> DEFINE T == {i \in Nat : i <= n => q[i] \in Nat}
<1>6. 0 \in T
  BY <1>4
<1>7. ASSUME NEW i \in Nat, i \in T PROVE i + 1 \in T
  <2>1. CASE i + 1 <= n
    <3>1. i + 1 \in 1..n /\ (i + 1) - 1 = i /\ i <= n
      BY <2>1
    <3>2. q[i + 1] = q[i] + s[i + 1] /\ q[i] \in Nat /\ s[i + 1] \in Nat
      BY <1>2, <1>5, <1>7, <3>1
    <3> QED  BY <3>2
  <2>2. CASE ~(i + 1 <= n)
    BY <2>2
  <2> QED  BY <2>1, <2>2
<1>8. \A i \in Nat : i \in T
  <2> HIDE DEF T
  <2> QED  BY <1>6, <1>7, SetInduction
<1>9. \A i \in 0..n : q[i] \in Nat
  BY <1>8
<1> DEFINE p == [i \in 0..n |-> a + q[i]]
<1>10. p[0] = a
  BY <1>4
<1>11. p[n] = a + Sum(s)
  BY <1>4
<1>12. ASSUME NEW i \in 1..n PROVE p[i] = Step("Sum", p[i - 1], s[i])
  <2>1. q[i] = q[i - 1] + s[i] /\ q[i - 1] \in Nat /\ s[i] \in Nat
    BY <1>2, <1>5, <1>9
  <2>2. p[i] = a + q[i] /\ p[i - 1] = a + q[i - 1]
    OBVIOUS
  <2>3. p[i] = p[i - 1] + s[i]
    BY <2>1, <2>2
  <2> HIDE DEF p
  <2> QED  BY <2>3 DEF Step
<1> HIDE DEF p
<1>13. Leads("Sum", a, s, a + Sum(s))
  BY <1>1, <1>10, <1>11, <1>12 DEF Leads
<1>14. Sum(s) \in Nat
  <2>1. n \in 0..n
    OBVIOUS
  <2> QED  BY <1>4, <1>9, <2>1
<1> QED  BY <1>13, <1>14

\* The sums of no number, of one, and of two sequences.
LEMMA SumFacts ==
    /\ Sum(<<>>) = 0
    /\ \A n \in Nat : Sum(<<n>>) = n
    /\ \A s, t \in Seq(Nat) : Sum(s \o t) = Sum(s) + Sum(t)
<1>1. Sum(<<>>) = 0
  <2>1. <<>> \in Seq(Nat)
    OBVIOUS
  <2>2. Leads("Sum", 0, <<>>, Sum(<<>>)) /\ Leads("Sum", 0, <<>>, 0)
    BY <2>1, SumLeads, LeadsEmpty
  <2> QED  BY <2>1, <2>2, LeadsOnce
<1>2. ASSUME NEW n \in Nat PROVE Sum(<<n>>) = n
  <2>1. <<n>> \in Seq(Nat)
    OBVIOUS
  <2>2. Step("Sum", 0, n) = n
    BY DEF Step
  <2>3. Leads("Sum", 0, <<n>>, Sum(<<n>>)) /\ Leads("Sum", 0, <<n>>, n)
    BY <2>1, <2>2, SumLeads, LeadsOne
  <2> QED  BY <2>1, <2>3, LeadsOnce
<1>3. ASSUME NEW s \in Seq(Nat), NEW t \in Seq(Nat)
      PROVE  Sum(s \o t) = Sum(s) + Sum(t)
  <2>1. PICK u \in Seq(Nat) : u = s \o t
    <3>1. s \o t \in Seq(Nat)
      BY ConcatProperties
    <3> QED  BY <3>1
  <2>2. Leads("Sum", 0, s, Sum(s)) /\ Leads("Sum", 0, u, Sum(u))
    BY SumLeads
  <2>3. Leads("Sum", Sum(s), t, Sum(s) + Sum(t))
    BY SumFrom
  <2>4. Leads("Sum", 0, u, Sum(s) + Sum(t))
    BY <2>1, <2>2, <2>3, LeadsCat
  <2>5. Sum(u) = Sum(s) + Sum(t)
    BY <2>2, <2>4, LeadsOnce
  <2> QED  BY <2>1, <2>5
<1> QED  BY <1>1, <1>2, <1>3

\* The weights of the elements of a sequence, added up.
Weights(W, s) == [i \in DOMAIN s |-> W[s[i]]]

Weigh(W, s) == Sum(Weights(W, s))

IsWeight(W, S) == \A x \in S : W[x] \in Nat

\* The weights are a sequence of numbers, one for each element.
LEMMA WeightsFacts ==
    ASSUME NEW S, NEW W, IsWeight(W, S), NEW s \in Seq(S)
    PROVE  /\ Weights(W, s) \in Seq(Nat) /\ Len(Weights(W, s)) = Len(s)
           /\ \A i \in 1..Len(s) : Weights(W, s)[i] = W[s[i]]
<1>1. PICK n \in Nat : n = Len(s)
  BY LenProperties
<1>2. DOMAIN s = 1..n /\ \A i \in 1..n : s[i] \in S
  BY <1>1, LenProperties
<1>3. Weights(W, s) \in [1..n -> Nat]
  BY <1>2 DEF Weights, IsWeight
<1>4. \A i \in 1..n : Weights(W, s)[i] = W[s[i]]
  BY <1>2 DEF Weights
<1>5. \A w \in [1..n -> Nat] : w \in Seq(Nat) /\ Len(w) = n
  OBVIOUS
<1> QED  BY <1>1, <1>3, <1>4, <1>5

\* The weight of nothing, of one element, and of two sequences.
LEMMA WeighFacts ==
    ASSUME NEW S, NEW W, IsWeight(W, S)
    PROVE  /\ Weigh(W, <<>>) = 0
           /\ \A x \in S : Weigh(W, <<x>>) = W[x]
           /\ \A s \in Seq(S) : Weigh(W, s) \in Nat
           /\ \A s, t \in Seq(S) : Weigh(W, s \o t) = Weigh(W, s) + Weigh(W, t)
<1>1. Weigh(W, <<>>) = 0
  <2>1. Weights(W, <<>>) = <<>>
    BY DEF Weights
  <2> QED  BY <2>1, SumFacts DEF Weigh
<1>2. ASSUME NEW x \in S PROVE Weigh(W, <<x>>) = W[x]
  <2>1. Weights(W, <<x>>) = <<W[x]>>
    BY DEF Weights
  <2>2. W[x] \in Nat
    BY DEF IsWeight
  <2> QED  BY <2>1, <2>2, SumFacts DEF Weigh
<1>3. ASSUME NEW s \in Seq(S) PROVE Weigh(W, s) \in Nat
  BY WeightsFacts, SumFrom DEF Weigh
<1>4. ASSUME NEW s \in Seq(S), NEW t \in Seq(S)
      PROVE  Weigh(W, s \o t) = Weigh(W, s) + Weigh(W, t)
  <2>1. PICK u \in Seq(S) : u = s \o t
    <3>1. s \o t \in Seq(S)
      BY ConcatProperties
    <3> QED  BY <3>1
  <2>2. PICK a \in Nat : a = Len(s)
    BY LenProperties
  <2>3. PICK b \in Nat : b = Len(t)
    BY LenProperties
  <2>4. /\ Len(u) = a + b
        /\ \A i \in 1..a + b : u[i] = IF i <= a THEN s[i] ELSE t[i - a]
    BY <2>1, <2>2, <2>3, ConcatProperties
  <2>5. PICK ws \in Seq(Nat) : /\ ws = Weights(W, s) /\ Len(ws) = a
                               /\ \A i \in 1..a : ws[i] = W[s[i]]
    <3>1. /\ Weights(W, s) \in Seq(Nat) /\ Len(Weights(W, s)) = Len(s)
          /\ \A i \in 1..Len(s) : Weights(W, s)[i] = W[s[i]]
      BY WeightsFacts
    <3> QED  BY <2>2, <3>1
  <2>6. PICK wt \in Seq(Nat) : /\ wt = Weights(W, t) /\ Len(wt) = b
                               /\ \A i \in 1..b : wt[i] = W[t[i]]
    <3>1. /\ Weights(W, t) \in Seq(Nat) /\ Len(Weights(W, t)) = Len(t)
          /\ \A i \in 1..Len(t) : Weights(W, t)[i] = W[t[i]]
      BY WeightsFacts
    <3> QED  BY <2>3, <3>1
  <2>7. PICK wu \in Seq(Nat) : /\ wu = Weights(W, u) /\ Len(wu) = a + b
                               /\ \A i \in 1..a + b : wu[i] = W[u[i]]
    <3>1. /\ Weights(W, u) \in Seq(Nat) /\ Len(Weights(W, u)) = Len(u)
          /\ \A i \in 1..Len(u) : Weights(W, u)[i] = W[u[i]]
      BY WeightsFacts
    <3>2. Len(u) = a + b
      BY <2>4
    <3> QED  BY <3>1, <3>2
  <2>10. PICK wc \in Seq(Nat) :
           /\ wc = ws \o wt
           /\ Len(wc) = a + b
           /\ \A i \in 1..a + b : wc[i] = IF i <= a THEN ws[i] ELSE wt[i - a]
    <3>1. /\ ws \o wt \in Seq(Nat)
          /\ Len(ws \o wt) = Len(ws) + Len(wt)
          /\ \A i \in 1..Len(ws) + Len(wt) :
               (ws \o wt)[i] = IF i <= Len(ws) THEN ws[i] ELSE wt[i - Len(ws)]
      BY ConcatProperties
    <3>2. Len(ws) = a /\ Len(wt) = b
      BY <2>5, <2>6
    <3> QED  BY <3>1, <3>2
  <2>11. ASSUME NEW i \in 1..a + b PROVE wu[i] = wc[i]
    <3>1. wu[i] = W[u[i]]
      BY <2>7
    <3>2. CASE i <= a
      <4>1. i \in 1..a
        BY <3>2
      <4>2. u[i] = s[i] /\ wc[i] = ws[i]
        BY <2>4, <2>10, <3>2
      <4> QED  BY <2>5, <3>1, <4>1, <4>2
    <3>3. CASE ~(i <= a)
      <4>1. i - a \in 1..b
        BY <3>3
      <4>2. u[i] = t[i - a] /\ wc[i] = wt[i - a]
        BY <2>4, <2>10, <3>3
      <4>3. wt[i - a] = W[t[i - a]]
        BY <2>6, <4>1
      <4> QED  BY <3>1, <4>2, <4>3
    <3> QED  BY <3>2, <3>3
  <2>12. wu = wc
    BY <2>7, <2>10, <2>11, SeqEqual
  <2>13. Sum(wc) = Sum(ws) + Sum(wt)
    BY <2>10, SumFacts
  <2> QED  BY <2>1, <2>5, <2>6, <2>7, <2>12, <2>13 DEF Weigh
<1> QED  BY <1>1, <1>2, <1>3, <1>4

\* o enumerates D: it has each of its n elements once.
Enumerates(o, n, D) ==
    /\ o \in Seq(D) /\ Len(o) = n
    /\ \A i, j \in 1..n : i # j => o[i] # o[j]
    /\ \A k \in D : \E i \in 1..n : o[i] = k

\* Without its jth element it enumerates the rest, and weighs that much less.
LEMMA EnumeratesRest ==
    ASSUME NEW W, NEW S, IsWeight(W, S), NEW n \in Nat,
           NEW o, Enumerates(o, n + 1, S), NEW j \in 1..n + 1
    PROVE  \E r : /\ Enumerates(r, n, S \ {o[j]})
                  /\ Weigh(W, o) = Weigh(W, r) + W[o[j]]
<1>1. o \in Seq(S) /\ Len(o) = n + 1 /\ \A i \in 1..n + 1 : o[i] \in S
  BY DEF Enumerates
<1>2. PICK x : x = o[j]
  OBVIOUS
<1>3. x \in S
  BY <1>1, <1>2
<1>4. PICK s \in Seq(S) : /\ Len(s) = j - 1
                          /\ \A i \in 1..j - 1 : s[i] = o[i]
  <2> DEFINE s == [i \in 1..j - 1 |-> o[i]]
  <2>1. j - 1 \in Nat /\ \A i \in 1..j - 1 : o[i] \in S
    BY <1>1
  <2>2. s \in Seq(S) /\ Len(s) = j - 1
    BY <2>1
  <2>3. \A i \in 1..j - 1 : s[i] = o[i]
    OBVIOUS
  <2> HIDE DEF s
  <2> QED  BY <2>2, <2>3
<1>5. PICK t \in Seq(S) : /\ Len(t) = n + 1 - j
                          /\ \A i \in 1..n + 1 - j : t[i] = o[i + j]
  <2> DEFINE t == [i \in 1..n + 1 - j |-> o[i + j]]
  <2>1. n + 1 - j \in Nat /\ \A i \in 1..n + 1 - j : o[i + j] \in S
    BY <1>1
  <2>2. t \in Seq(S) /\ Len(t) = n + 1 - j
    BY <2>1
  <2>3. \A i \in 1..n + 1 - j : t[i] = o[i + j]
    OBVIOUS
  <2> HIDE DEF t
  <2> QED  BY <2>2, <2>3
<1>6. PICK r \in Seq(S) :
        /\ r = s \o t /\ Len(r) = n
        /\ \A i \in 1..n : r[i] = IF i < j THEN o[i] ELSE o[i + 1]
  <2>1. /\ s \o t \in Seq(S) /\ Len(s \o t) = n
        /\ \A i \in 1..n :
             (s \o t)[i] = IF i <= j - 1 THEN s[i] ELSE t[i - (j - 1)]
    <3>1. Len(s) = j - 1 /\ Len(t) = n + 1 - j /\ (j - 1) + (n + 1 - j) = n
      BY <1>4, <1>5
    <3>2. /\ s \o t \in Seq(S)
          /\ Len(s \o t) = Len(s) + Len(t)
          /\ \A i \in 1..Len(s) + Len(t) :
               (s \o t)[i] = IF i <= Len(s) THEN s[i] ELSE t[i - Len(s)]
      BY ConcatProperties
    <3> QED  BY <3>1, <3>2
  <2>2. \A i \in 1..n : i <= j - 1 => i \in 1..j - 1
    OBVIOUS
  <2>3. \A i \in 1..n : ~(i <= j - 1) =>
          i - (j - 1) \in 1..n + 1 - j /\ (i - (j - 1)) + j = i + 1
    OBVIOUS
  <2>4. \A i \in 1..n : (s \o t)[i] = IF i < j THEN o[i] ELSE o[i + 1]
    BY <1>4, <1>5, <2>1, <2>2, <2>3
  <2> QED  BY <2>1, <2>4
<1> DEFINE c == <<x>>
<1>7a. c \in Seq(S) /\ Len(c) = 1 /\ c[1] = x /\ Weigh(W, c) = W[x]
  <2>1. c \in Seq(S) /\ Len(c) = 1 /\ c[1] = x
    BY <1>3
  <2>2. Weigh(W, c) = W[x]
    BY <1>3, WeighFacts
  <2> QED  BY <2>1, <2>2
<1> HIDE DEF c
<1>7. PICK u \in Seq(S) :
        /\ u = s \o c /\ Len(u) = j
        /\ \A i \in 1..j : u[i] = o[i]
  <2>1. /\ s \o c \in Seq(S) /\ Len(s \o c) = j
        /\ \A i \in 1..j : (s \o c)[i] = IF i <= j - 1 THEN s[i] ELSE x
    <3>1. /\ s \o c \in Seq(S)
          /\ Len(s \o c) = Len(s) + Len(c)
          /\ \A i \in 1..Len(s) + Len(c) :
               (s \o c)[i] = IF i <= Len(s) THEN s[i] ELSE c[i - Len(s)]
      BY <1>7a, ConcatProperties
    <3>2. \A i \in 1..j : ~(i <= j - 1) => i - (j - 1) = 1
      OBVIOUS
    <3>3. Len(s) = j - 1 /\ Len(c) = 1 /\ (j - 1) + 1 = j
      BY <1>4, <1>7a
    <3> QED  BY <1>7a, <3>1, <3>2, <3>3
  <2>2. \A i \in 1..j : i <= j - 1 => i \in 1..j - 1
    OBVIOUS
  <2>3. \A i \in 1..j : (s \o c)[i] = o[i]
    BY <1>2, <1>4, <2>1, <2>2
  <2> QED  BY <2>1, <2>3
<1>8. o = u \o t
  <2>1. /\ u \o t \in Seq(S) /\ Len(u \o t) = n + 1
        /\ \A i \in 1..n + 1 :
             (u \o t)[i] = IF i <= j THEN u[i] ELSE t[i - j]
    <3>1. Len(u) = j /\ Len(t) = n + 1 - j /\ j + (n + 1 - j) = n + 1
      BY <1>5, <1>7
    <3>2. /\ u \o t \in Seq(S)
          /\ Len(u \o t) = Len(u) + Len(t)
          /\ \A i \in 1..Len(u) + Len(t) :
               (u \o t)[i] = IF i <= Len(u) THEN u[i] ELSE t[i - Len(u)]
      BY ConcatProperties
    <3> QED  BY <3>1, <3>2
  <2>2. \A i \in 1..n + 1 : i <= j => i \in 1..j
    OBVIOUS
  <2>3. \A i \in 1..n + 1 : ~(i <= j) => i - j \in 1..n + 1 - j /\ (i - j) + j = i
    OBVIOUS
  <2>4. \A i \in 1..n + 1 : (u \o t)[i] = o[i]
    BY <1>5, <1>7, <2>1, <2>2, <2>3
  <2> QED  BY <1>1, <2>1, <2>4, SeqEqual
<1>9. Weigh(W, o) = Weigh(W, r) + W[o[j]]
  <2>2. Weigh(W, o) = Weigh(W, u) + Weigh(W, t)
    BY <1>8, WeighFacts
  <2>3. Weigh(W, u) = Weigh(W, s) + Weigh(W, c)
    <3>1. c \in Seq(S)
      BY <1>7a
    <3>2. Weigh(W, s \o c) = Weigh(W, s) + Weigh(W, c)
      BY <3>1, WeighFacts
    <3> QED  BY <1>7, <3>2
  <2>4. Weigh(W, r) = Weigh(W, s) + Weigh(W, t)
    BY <1>6, WeighFacts
  <2>5. Weigh(W, c) = W[x] /\ W[x] \in Nat
    BY <1>3, <1>7a DEF IsWeight
  <2>6. Weigh(W, s) \in Nat /\ Weigh(W, t) \in Nat
    BY WeighFacts
  <2> QED  BY <1>2, <2>2, <2>3, <2>4, <2>5, <2>6
<1>10. Enumerates(r, n, S \ {o[j]})
  <2> DEFINE z(i) == IF i < j THEN i ELSE i + 1
  <2>1. \A i \in 1..n : z(i) \in 1..n + 1 /\ z(i) # j /\ r[i] = o[z(i)]
    BY <1>6
  <2>2. \A i, k \in 1..n : i # k => z(i) # z(k)
    OBVIOUS
  <2>3. \A k \in 1..n + 1 : k # j => \E i \in 1..n : z(i) = k
    <3> SUFFICES ASSUME NEW k \in 1..n + 1, k # j
                 PROVE  \E i \in 1..n : z(i) = k
      OBVIOUS
    <3>1. CASE k < j
      <4>1. k \in 1..n /\ z(k) = k
        BY <3>1
      <4> QED  BY <4>1
    <3>2. CASE k > j
      <4>1. k - 1 \in 1..n /\ z(k - 1) = k
        BY <3>2
      <4> QED  BY <4>1
    <3> QED  BY <3>1, <3>2
  <2> HIDE DEF z
  <2>4. /\ \A i, k \in 1..n + 1 : i # k => o[i] # o[k]
        /\ \A k \in S : \E i \in 1..n + 1 : o[i] = k
    BY DEF Enumerates
  <2>5. \A i \in 1..n : r[i] \in S \ {o[j]}
    BY <1>1, <2>1, <2>4
  <2>6. r \in Seq(S \ {o[j]})
    <3>1. r \in [1..n -> S]
      BY <1>6, LenProperties
    <3>2. r \in [1..n -> S \ {o[j]}]
      BY <2>5, <3>1
    <3> QED  BY <3>2
  <2>7. \A i, k \in 1..n : i # k => r[i] # r[k]
    <3> SUFFICES ASSUME NEW i \in 1..n, NEW k \in 1..n, i # k PROVE r[i] # r[k]
      OBVIOUS
    <3>1. z(i) \in 1..n + 1 /\ z(k) \in 1..n + 1 /\ z(i) # z(k)
      BY <2>1, <2>2
    <3>2. r[i] = o[z(i)] /\ r[k] = o[z(k)]
      BY <2>1
    <3> QED  BY <2>4, <3>1, <3>2
  <2>8. \A k \in S \ {o[j]} : \E i \in 1..n : r[i] = k
    <3> SUFFICES ASSUME NEW k \in S, k # o[j] PROVE \E i \in 1..n : r[i] = k
      OBVIOUS
    <3>1. PICK h \in 1..n + 1 : o[h] = k
      BY <2>4
    <3>2. PICK i \in 1..n : z(i) = h
      BY <2>3, <3>1
    <3> QED  BY <2>1, <3>1, <3>2
  <2> QED  BY <1>6, <2>6, <2>7, <2>8 DEF Enumerates
<1> QED  BY <1>9, <1>10

\* All enumerations of a set weigh the same.
LEMMA WeighOrders ==
    ASSUME NEW W
    PROVE  \A n \in Nat : \A D, a, b :
             IsWeight(W, D) /\ Enumerates(a, n, D) /\ Enumerates(b, n, D)
               => Weigh(W, a) = Weigh(W, b)
<1> DEFINE Q(n) == \A D, a, b :
                     IsWeight(W, D) /\ Enumerates(a, n, D) /\ Enumerates(b, n, D)
                       => Weigh(W, a) = Weigh(W, b)
           T == {n \in Nat : Q(n)}
<1>1. 0 \in T
  <2>1. \A D, o : Enumerates(o, 0, D) => o = <<>>
    BY DEF Enumerates
  <2> QED  BY <2>1
<1>2. ASSUME NEW n \in Nat, n \in T PROVE n + 1 \in T
  <2> SUFFICES ASSUME NEW D, NEW a, NEW b, IsWeight(W, D),
                      Enumerates(a, n + 1, D), Enumerates(b, n + 1, D)
               PROVE  Weigh(W, a) = Weigh(W, b)
    OBVIOUS
  <2>1. n + 1 \in 1..n + 1
    OBVIOUS
  <2>2. PICK x : x = a[n + 1]
    OBVIOUS
  <2>3. x \in D
    BY <2>1, <2>2 DEF Enumerates
  <2>4. PICK j \in 1..n + 1 : b[j] = x
    BY <2>3 DEF Enumerates
  <2>5. PICK r : Enumerates(r, n, D \ {x}) /\ Weigh(W, a) = Weigh(W, r) + W[x]
    <3>1. \E r : /\ Enumerates(r, n, D \ {a[n + 1]})
                 /\ Weigh(W, a) = Weigh(W, r) + W[a[n + 1]]
      BY <2>1, EnumeratesRest
    <3> QED  BY <2>2, <3>1
  <2>6. PICK q : Enumerates(q, n, D \ {x}) /\ Weigh(W, b) = Weigh(W, q) + W[x]
    <3>1. \E z : /\ Enumerates(z, n, D \ {b[j]})
                 /\ Weigh(W, b) = Weigh(W, z) + W[b[j]]
      BY EnumeratesRest
    <3> QED  BY <2>4, <3>1
  <2>7. IsWeight(W, D \ {x})
    BY DEF IsWeight
  <2>8. Weigh(W, r) = Weigh(W, q)
    BY <1>2, <2>5, <2>6, <2>7
  <2> QED  BY <2>5, <2>6, <2>8, Zenon
<1>3. \A n \in Nat : n \in T
  <2> HIDE DEF T
  <2> QED  BY <1>1, <1>2, SetInduction
<1> QED  BY <1>3
-----------------------------------------------------------------------------
(***************************************************************************)
(* Sizes: what ByteSizeLong adds up is what the serialisation takes.       *)
(***************************************************************************)
MemberWeight ==
    [f \in MemberFields |->
       FieldBytes(f, IF f.kind = "string" THEN Len(f.body) ELSE EntryBytes(f.body))]

\* The bytes of a field whose length is that of its contents.
LEMMA Prefixed ==
    ASSUME NEW n \in Nat
    PROVE  /\ LengthDelimited(n) \in Nat /\ 1 + LengthDelimited(n) \in Nat
           /\ \A f : f.size = n => FieldBytes(f, n) = 1 + LengthDelimited(n)
<1>1. VarintSize(n) \in Nat
  <2> DEFINE S == {i \in 1..4 : n >= VarintRadix ^ i}
  <2>1. S \subseteq 1..4
    OBVIOUS
  <2> HIDE DEF S
  <2>2. Cardinality(S) \in Nat
    <3>1. 1 \in Int /\ 4 \in Int
      OBVIOUS
    <3>2. IsFiniteSet(1..4)
      BY <3>1, FS_Interval
    <3> QED  BY <2>1, <3>2, FS_Subset, FS_CardinalityType
  <2>3. 1 + Cardinality(S) \in Nat
    BY <2>2
  <2> QED  BY <2>3 DEF VarintSize, S
<1>2. \A v \in Nat : v + n \in Nat /\ 1 + (v + n) \in Nat /\ 1 + v + n = 1 + (v + n)
  OBVIOUS
<1>3. \A f : f.size = n => FieldBytes(f, n) = 1 + VarintSize(n) + n
  BY DEF FieldBytes
<1> QED  BY <1>1, <1>2, <1>3 DEF LengthDelimited

\* The contents of a map entry.
LEMMA EntrySize ==
    ASSUME NEW k \in Strings, NEW v \in Strings
    PROVE  /\ EntryContents(k, v) \in Nat
           /\ EntryBytes(Entry(k, v).body) = EntryContents(k, v)
<1> DEFINE f1 == Field(1, "string", Len(k), k)
           f2 == Field(2, "string", Len(v), v)
           s == <<f1, f2>>
<1>1. Len(k) \in Nat /\ Len(v) \in Nat
  BY WireFormatConfig
<1>2. PICK a \in Nat : a = 1 + LengthDelimited(Len(k))
  BY <1>1, Prefixed
<1>3. PICK b \in Nat : b = 1 + LengthDelimited(Len(v))
  BY <1>1, Prefixed
<1>4. Entry(k, v).body = s
  BY DEF Entry, Field
<1>5. /\ f1.body = k /\ FieldBytes(f1, Len(k)) = a
      /\ f2.body = v /\ FieldBytes(f2, Len(v)) = b
  <2>1. f1.body = k /\ f1.size = Len(k) /\ f2.body = v /\ f2.size = Len(v)
    BY DEF Field
  <2> HIDE DEF f1, f2
  <2> QED  BY <1>1, <1>2, <1>3, <2>1, Prefixed
<1>6. EntryBytes(s) = Sum([i \in DOMAIN s |-> FieldBytes(s[i], Len(s[i].body))])
  BY DEF EntryBytes, SumOf
<1> HIDE DEF f1, f2
<1>7. [i \in DOMAIN s |-> FieldBytes(s[i], Len(s[i].body))] = <<a, b>>
  <2>1. DOMAIN s = 1..2 /\ s[1] = f1 /\ s[2] = f2
    OBVIOUS
  <2> HIDE DEF s
  <2>2. \A i \in 1..2 : i = 1 \/ i = 2
    OBVIOUS
  <2>3. [i \in DOMAIN s |-> FieldBytes(s[i], Len(s[i].body))]
          = [i \in 1..2 |-> IF i = 1 THEN a ELSE b]
    BY <1>5, <2>1, <2>2
  <2>4. [i \in 1..2 |-> IF i = 1 THEN a ELSE b] = <<a, b>>
    OBVIOUS
  <2> QED  BY <2>3, <2>4
<1> HIDE DEF s
<1>8. Sum(<<a, b>>) = a + b
  <2>1. <<a>> \in Seq(Nat) /\ <<b>> \in Seq(Nat) /\ <<a, b>> = <<a>> \o <<b>>
    OBVIOUS
  <2>2. Sum(<<a>> \o <<b>>) = Sum(<<a>>) + Sum(<<b>>)
    BY <2>1, SumFacts
  <2>3. Sum(<<a>>) = a /\ Sum(<<b>>) = b
    BY SumFacts
  <2> QED  BY <2>1, <2>2, <2>3
<1>9. EntryContents(k, v) = a + b
  <2>1. LengthDelimited(Len(k)) \in Nat /\ LengthDelimited(Len(v)) \in Nat
    BY <1>1, Prefixed
  <2> QED  BY <1>2, <1>3, <2>1 DEF EntryContents, StringSize
<1> QED  BY <1>4, <1>6, <1>7, <1>8, <1>9

\* The bytes of each of the fields of a member.
LEMMA MemberWeights ==
    /\ IsWeight(MemberWeight, MemberFields)
    /\ \A s \in Strings :
         MemberWeight[Field(1, "string", Len(s), s)] = 1 + LengthDelimited(Len(s))
    /\ \A k, v \in Strings :
         MemberWeight[Entry(k, v)] = 1 + LengthDelimited(EntryContents(k, v))
    /\ NewField \in MemberFields /\ MemberWeight[NewField] = 1 + LengthDelimited(Len(""))
    /\ Len("") \in Nat
<1>1. ASSUME NEW s \in Strings
      PROVE  /\ MemberWeight[Field(1, "string", Len(s), s)] = 1 + LengthDelimited(Len(s))
             /\ MemberWeight[Field(1, "string", Len(s), s)] \in Nat
  <2> DEFINE f == Field(1, "string", Len(s), s)
  <2>1. f \in MemberFields
    BY DEF MemberFields, StringFields
  <2>2. f.kind = "string" /\ f.body = s /\ f.size = Len(s)
    BY DEF Field
  <2>3. Len(s) \in Nat
    BY WireFormatConfig
  <2> HIDE DEF f
  <2>4. MemberWeight[f] = FieldBytes(f, Len(s))
    BY <2>1, <2>2 DEF MemberWeight
  <2>5. /\ FieldBytes(f, Len(s)) = 1 + LengthDelimited(Len(s))
        /\ 1 + LengthDelimited(Len(s)) \in Nat
    BY <2>2, <2>3, Prefixed
  <2> QED  BY <2>4, <2>5 DEF f
<1>2. ASSUME NEW k \in Strings, NEW v \in Strings
      PROVE  /\ MemberWeight[Entry(k, v)] = 1 + LengthDelimited(EntryContents(k, v))
             /\ MemberWeight[Entry(k, v)] \in Nat
  <2> DEFINE f == Entry(k, v)
  <2>1. f \in MemberFields
    BY DEF MemberFields, EntryFields
  <2>2. f.kind = "fields" /\ f.size = EntryContents(k, v)
    BY DEF Field, Entry
  <2>3. EntryBytes(f.body) = EntryContents(k, v) /\ EntryContents(k, v) \in Nat
    BY EntrySize
  <2> HIDE DEF f
  <2>4. MemberWeight[f] = FieldBytes(f, EntryContents(k, v))
    BY <2>1, <2>2, <2>3 DEF MemberWeight
  <2>5. /\ FieldBytes(f, EntryContents(k, v)) = 1 + LengthDelimited(EntryContents(k, v))
        /\ 1 + LengthDelimited(EntryContents(k, v)) \in Nat
    BY <2>2, <2>3, Prefixed
  <2> QED  BY <2>4, <2>5 DEF f
<1>3. Len("") \in Nat
  BY WireFormatConfig
<1>4. NewField \in MemberFields
  BY DEF MemberFields
<1>5. /\ MemberWeight[NewField] = 1 + LengthDelimited(Len(""))
      /\ 1 + LengthDelimited(Len("")) \in Nat
  <2>1. NewField.kind = "string" /\ NewField.body = "" /\ NewField.size = Len("")
    BY DEF NewField, Field
  <2>2. MemberWeight[NewField] = FieldBytes(NewField, Len(""))
    BY <1>4, <2>1 DEF MemberWeight
  <2>3. PICK n \in Nat : n = Len("")
    BY <1>3
  <2>4. /\ FieldBytes(NewField, n) = 1 + LengthDelimited(n)
        /\ 1 + LengthDelimited(n) \in Nat
    BY <2>1, <2>3, Prefixed
  <2> QED  BY <2>2, <2>3, <2>4
<1>6. ASSUME NEW f \in MemberFields PROVE MemberWeight[f] \in Nat
  <2>1. CASE f \in StringFields
    <3>1. PICK s \in Strings : f = Field(1, "string", Len(s), s)
      BY <2>1 DEF StringFields
    <3> QED  BY <1>1, <3>1
  <2>2. CASE f \in EntryFields
    <3>1. PICK k \in Strings, v \in Strings : f = Entry(k, v)
      BY <2>2 DEF EntryFields
    <3> QED  BY <1>2, <3>1
  <2>3. CASE f = NewField
    BY <1>5, <2>3, Zenon
  <2> QED  BY <2>1, <2>2, <2>3 DEF MemberFields
<1> QED  BY <1>1, <1>2, <1>3, <1>4, <1>5, <1>6 DEF IsWeight

\* The bytes of a sequence of them.
LEMMA MemberBytesWeigh ==
    ASSUME NEW s \in Seq(MemberFields)
    PROVE  MemberBytes(s) = Weigh(MemberWeight, s)
<1> DEFINE w(f) ==
             FieldBytes(f, IF f.kind = "string" THEN Len(f.body) ELSE EntryBytes(f.body))
<1>1. \A i \in DOMAIN s : s[i] \in MemberFields
  BY LenProperties
<1>2. \A f \in MemberFields : MemberWeight[f] = w(f)
  BY DEF MemberWeight
<1>3. MemberBytes(s) = Sum([i \in DOMAIN s |-> w(s[i])])
  BY DEF MemberBytes, SumOf
<1> HIDE DEF w
<1>4. [i \in DOMAIN s |-> w(s[i])] = Weights(MemberWeight, s)
  BY <1>1, <1>2 DEF Weights
<1> QED  BY <1>3, <1>4 DEF Weigh

\* The size of the unknown fields and of a string field.
LEMMA PartSizes ==
    /\ \A m : m.unknown \in Unknowns =>
                MaybeUnknownSize(m) = Weigh(MemberWeight, m.unknown)
    /\ \A s \in Strings :
         SingularSize(s) = Weigh(MemberWeight, Singular(1, s))
<1>1. ASSUME NEW m, m.unknown \in Unknowns
      PROVE  MaybeUnknownSize(m) = Weigh(MemberWeight, m.unknown)
  <2> DEFINE u == m.unknown
             w(f) == 1 + StringSize(f.body)
  <2>1. \A i \in DOMAIN u : u[i] = NewField
    BY <1>1, LenProperties DEF Unknowns
  <2>2. w(NewField) = MemberWeight[NewField]
    <3>1. NewField.body = ""
      BY DEF NewField, Field
    <3> QED  BY <3>1, MemberWeights DEF StringSize
  <2>3. MaybeUnknownSize(m) = Sum([i \in DOMAIN u |-> w(u[i])])
    BY DEF MaybeUnknownSize, SumOf
  <2> HIDE DEF w, u
  <2>4. [i \in DOMAIN u |-> w(u[i])] = Weights(MemberWeight, u)
    BY <2>1, <2>2 DEF Weights
  <2> QED  BY <2>3, <2>4 DEF Weigh, u
<1>2. ASSUME NEW s \in Strings
      PROVE  SingularSize(s) = Weigh(MemberWeight, Singular(1, s))
  <2>1. CASE s = ""
    BY <2>1, WeighFacts, MemberWeights DEF SingularSize, Singular
  <2>2. CASE s # ""
    <3> DEFINE f == Field(1, "string", Len(s), s)
    <3>1. f \in MemberFields /\ MemberWeight[f] = 1 + LengthDelimited(Len(s))
      BY MemberWeights DEF MemberFields, StringFields
    <3>2. Singular(1, s) = <<f>>
      BY <2>2 DEF Singular
    <3> HIDE DEF f
    <3>3. Weigh(MemberWeight, <<f>>) = 1 + LengthDelimited(Len(s))
      BY <3>1, WeighFacts, MemberWeights
    <3>4. SingularSize(s) = 1 + LengthDelimited(Len(s))
      BY <2>2 DEF SingularSize, StringSize
    <3> QED  BY <3>2, <3>3, <3>4
  <2> QED  BY <2>1, <2>2
<1> QED  BY <1>1, <1>2

\* A Login takes LoginSize bytes.
LEMMA LoginSized ==
    ASSUME NEW p \in LoginMsgs
    PROVE  MemberBytes(SerializeLogin(p)) = LoginSize(p)
<1> DEFINE a == Singular(1, p.nickname)
           b == p.unknown
<1>1. p.nickname \in Strings /\ p.unknown \in Unknowns
  BY DEF LoginMsgs
<1>2. a \in Seq(MemberFields) /\ b \in Seq(MemberFields)
  BY <1>1, MemberParts
<1>3. SerializeLogin(p) = a \o b /\ a \o b \in Seq(MemberFields)
  BY <1>2 DEF SerializeLogin
<1>4. SingularSize(p.nickname) = Weigh(MemberWeight, a)
      /\ MaybeUnknownSize(p) = Weigh(MemberWeight, b)
  BY <1>1, PartSizes
<1> HIDE DEF a, b
<1>5. Weigh(MemberWeight, a \o b) = Weigh(MemberWeight, a) + Weigh(MemberWeight, b)
  BY <1>2, WeighFacts, MemberWeights
<1>6. MemberBytes(a \o b) = Weigh(MemberWeight, a \o b)
  BY <1>3, MemberBytesWeigh
<1> QED  BY <1>3, <1>4, <1>5, <1>6, Zenon DEF LoginSize

\* The size of the entries that ByteSizeLong adds up, in an order of its own,
\* is that of the entries written.
LEMMA EntriesSized ==
    ASSUME NEW b \in Maps, NEW o \in SetToSeqs(DOMAIN b)
    PROVE  SumOf(LAMBDA k : 1 + LengthDelimited(EntryContents(k, b[k])),
                 SetToSeq(DOMAIN b))
             = Weigh(MemberWeight, EntriesOf(b, o))
<1> DEFINE D == DOMAIN b
           n == Cardinality(D)
           c == SetToSeq(D)
           w(k) == 1 + LengthDelimited(EntryContents(k, b[k]))
           W == [k \in D |-> w(k)]
<1>1. IsFiniteSet(D) /\ D \subseteq Strings /\ \A k \in D : b[k] \in Strings
  BY MapFacts
<1>2. n \in Nat /\ Enumerates(o, n, D)
  BY <1>1, OrderFacts DEF Enumerates
<1>3. c \in SetToSeqs(D)
  <2>1. o \in [1..n -> D] /\ \A i, j \in 1..n : i # j => o[i] # o[j]
    BY DEF SetToSeqs
  <2>2. IsInjective(o)
    BY <2>1 DEF IsInjective
  <2>3. c \in [1..n -> D] /\ IsInjective(c)
    BY <2>1, <2>2 DEF SetToSeq
  <2>4. \A i, j \in 1..n : i # j => c[i] # c[j]
    <3> HIDE DEF c, n, D
    <3> QED  BY <2>3 DEF IsInjective
  <2> HIDE DEF c
  <2> QED  BY <2>3, <2>4 DEF SetToSeqs
<1>4. Enumerates(c, n, D)
  BY <1>1, <1>3, OrderFacts DEF Enumerates
<1>5. ASSUME NEW k \in D
      PROVE  W[k] \in Nat /\ W[k] = MemberWeight[Entry(k, b[k])]
  <2>1. 1 + LengthDelimited(EntryContents(k, b[k])) \in Nat
    BY <1>1, EntrySize, Prefixed
  <2>2. MemberWeight[Entry(k, b[k])] = 1 + LengthDelimited(EntryContents(k, b[k]))
    BY <1>1, MemberWeights
  <2>3. W[k] = 1 + LengthDelimited(EntryContents(k, b[k]))
    OBVIOUS
  <2> HIDE DEF W
  <2> QED  BY <2>1, <2>2, <2>3
<1>6. IsWeight(W, D)
  BY <1>5 DEF IsWeight
<1>7. Weigh(W, c) = Weigh(W, o)
  <2> HIDE DEF W, D, n, c
  <2> QED  BY <1>2, <1>4, <1>6, WeighOrders
<1>8. SumOf(LAMBDA k : 1 + LengthDelimited(EntryContents(k, b[k])), c) = Weigh(W, c)
  <2>1. \A i \in DOMAIN c : c[i] \in D
    BY <1>4, LenProperties DEF Enumerates
  <2>2. SumOf(LAMBDA k : 1 + LengthDelimited(EntryContents(k, b[k])), c)
          = Sum([i \in DOMAIN c |-> w(c[i])])
    BY DEF SumOf
  <2>3. \A k \in D : W[k] = w(k)
    OBVIOUS
  <2> HIDE DEF w, W, D, c
  <2>4. [i \in DOMAIN c |-> w(c[i])] = Weights(W, c)
    BY <2>1, <2>3 DEF Weights
  <2> QED  BY <2>2, <2>4 DEF Weigh
<1>9. Weigh(W, o) = Weigh(MemberWeight, EntriesOf(b, o))
  <2> DEFINE s == EntriesOf(b, o)
  <2>1. DOMAIN o = 1..n /\ \A i \in 1..n : o[i] \in D
    BY <1>1, OrderFacts
  <2>2. DOMAIN s = DOMAIN o /\ \A i \in DOMAIN o : s[i] = Entry(o[i], b[o[i]])
    BY DEF EntriesOf
  <2> HIDE DEF s, W, D, n
  <2>3. Weights(W, o) = Weights(MemberWeight, s)
    BY <1>5, <2>1, <2>2 DEF Weights
  <2> QED  BY <2>3 DEF Weigh, s
<1> QED  BY <1>7, <1>8, <1>9

\* An Insert takes InsertSize bytes, in whatever order its map is written.
LEMMA InsertSized ==
    ASSUME NEW p \in InsertMsgs, NEW o \in SetToSeqs(DOMAIN p.values)
    PROVE  MemberBytes(SerializeInsert(p, o)) = InsertSize(p)
<1> DEFINE a == Singular(1, p.table)
           e == EntriesOf(p.values, o)
           b == p.unknown
           W == MemberWeight
           sum == SumOf(LAMBDA k : 1 + LengthDelimited(EntryContents(k, p.values[k])),
                        SetToSeq(DOMAIN p.values))
<1>1. p.table \in Strings /\ p.values \in Maps /\ p.unknown \in Unknowns
  BY DEF InsertMsgs
<1>2. a \in Seq(MemberFields) /\ b \in Seq(MemberFields) /\ e \in Seq(MemberFields)
  BY <1>1, MemberParts, EntriesFacts
<1>3. SerializeInsert(p, o) = (a \o e) \o b
  BY DEF SerializeInsert, EntriesOf
<1>4. SingularSize(p.table) = Weigh(W, a) /\ MaybeUnknownSize(p) = Weigh(W, b)
  BY <1>1, PartSizes
<1>5. sum = Weigh(W, e)
  BY <1>1, EntriesSized
<1>6. InsertSize(p) = sum + SingularSize(p.table) + MaybeUnknownSize(p)
  BY DEF InsertSize
<1> HIDE DEF a, b, e, W, sum
<1>7. a \o e \in Seq(MemberFields) /\ (a \o e) \o b \in Seq(MemberFields)
  BY <1>2
<1>8. IsWeight(W, MemberFields)
  BY MemberWeights DEF W
<1>9. Weigh(W, (a \o e) \o b) = Weigh(W, a \o e) + Weigh(W, b)
  BY <1>2, <1>7, <1>8, WeighFacts
<1>10. Weigh(W, a \o e) = Weigh(W, a) + Weigh(W, e)
  BY <1>2, <1>8, WeighFacts
<1>11. MemberBytes((a \o e) \o b) = Weigh(W, (a \o e) \o b)
  BY <1>7, MemberBytesWeigh DEF W
<1>12. Weigh(W, a) \in Nat /\ Weigh(W, e) \in Nat /\ Weigh(W, b) \in Nat
  BY <1>2, <1>8, WeighFacts
<1>13. (Weigh(W, a) + Weigh(W, e)) + Weigh(W, b)
         = Weigh(W, e) + Weigh(W, a) + Weigh(W, b)
  BY <1>12
<1> QED  BY <1>3, <1>4, <1>5, <1>6, <1>9, <1>10, <1>11, <1>13, Zenon
-----------------------------------------------------------------------------
(***************************************************************************)
(* Envelopes.                                                              *)
(***************************************************************************)
\* The unknown fields of two messages, put together.
LEMMA UnknownsCat ==
    /\ <<>> \in Unknowns
    /\ \A a, b \in Unknowns : a \o b \in Unknowns
    /\ \A b \in Unknowns : <<>> \o b = b
<1>1. <<>> \in Unknowns
  BY DEF Unknowns
<1>2. ASSUME NEW a \in Unknowns, NEW b \in Unknowns PROVE a \o b \in Unknowns
  BY ConcatProperties DEF Unknowns
<1>3. ASSUME NEW b \in Unknowns PROVE <<>> \o b = b
  BY ConcatEmptySeq DEF Unknowns
<1> QED  BY <1>1, <1>2, <1>3

\* Maps merged, and with one more entry, are maps.
LEMMA MapsMerge ==
    /\ EmptyMap \in Maps
    /\ \A a, b \in Maps : MergeMap(a, b) \in Maps
    /\ \A b \in Maps : MergeMap(EmptyMap, b) = b
    /\ \A a \in Maps : \A k, v \in Strings : Put(a, k, v) \in Maps
<1>1. EmptyMap \in Maps
  <2>1. {} \in FiniteSubsetsOf(Strings)
    BY FS_EmptySet DEF FiniteSubsetsOf
  <2>2. EmptyMap \in [{} -> Strings]
    BY DEF EmptyMap
  <2> QED  BY <2>1, <2>2 DEF Maps
<1>2. ASSUME NEW a \in Maps, NEW b \in Maps PROVE MergeMap(a, b) \in Maps
  <2> DEFINE D == DOMAIN a \cup DOMAIN b
  <2>1. D \in FiniteSubsetsOf(Strings)
    BY MapFacts, FS_Union DEF FiniteSubsetsOf
  <2>2. \A k \in D : (IF k \in DOMAIN b THEN b[k] ELSE a[k]) \in Strings
    BY MapFacts
  <2>3. MergeMap(a, b) \in [D -> Strings]
    BY <2>2 DEF MergeMap
  <2> QED  BY <2>1, <2>3 DEF Maps
<1>3. ASSUME NEW b \in Maps PROVE MergeMap(EmptyMap, b) = b
  BY MapFacts DEF MergeMap, EmptyMap
<1>4. ASSUME NEW a \in Maps, NEW k \in Strings, NEW v \in Strings
      PROVE  Put(a, k, v) \in Maps
  <2> DEFINE D == DOMAIN a \cup {k}
  <2>1. D \in FiniteSubsetsOf(Strings)
    BY MapFacts, FS_AddElement DEF FiniteSubsetsOf
  <2>2. \A x \in D : (IF x = k THEN v ELSE a[x]) \in Strings
    BY MapFacts
  <2>3. Put(a, k, v) \in [D -> Strings]
    BY <2>2 DEF Put
  <2> QED  BY <2>1, <2>3 DEF Maps
<1> QED  BY <1>1, <1>2, <1>3, <1>4

\* Merging keeps the kind of the member; merging into a new one is copying.
LEMMA PayloadMerge ==
    ASSUME NEW c \in 1..3
    PROVE  /\ Default(c) \in Payloads(c)
           /\ \A p \in Payloads(c) : MergePayload(c, Default(c), p) = p
           /\ \A m, p \in Payloads(c) : MergePayload(c, m, p) \in Payloads(c)
<1>1. "" \in Strings
  BY WireFormatConfig
<1>2. CASE c = 1
  <2>1. Default(c) = Login /\ Payloads(c) = LoginMsgs
        /\ \A m, p : MergePayload(c, m, p) = MergeLogin(m, p)
    BY <1>2 DEF Default, Payloads, MergePayload
  <2>2. Login \in LoginMsgs
    BY <1>1, UnknownsCat DEF Login, LoginMsgs
  <2>3. ASSUME NEW p \in LoginMsgs PROVE MergeLogin(Login, p) = p
    <3>1. p = [nickname |-> p.nickname, unknown |-> p.unknown]
          /\ p.unknown \in Unknowns
      BY DEF LoginMsgs
    <3>2. MergeString("", p.nickname) = p.nickname
      BY DEF MergeString
    <3>3. <<>> \o p.unknown = p.unknown
      BY <3>1, UnknownsCat
    <3>4. Login.nickname = "" /\ Login.unknown = <<>>
      BY DEF Login
    <3> QED  BY <3>1, <3>2, <3>3, <3>4 DEF MergeLogin
  <2>4. ASSUME NEW m \in LoginMsgs, NEW p \in LoginMsgs
        PROVE  MergeLogin(m, p) \in LoginMsgs
    <3>1. m.nickname \in Strings /\ p.nickname \in Strings
          /\ m.unknown \o p.unknown \in Unknowns
      BY UnknownsCat DEF LoginMsgs
    <3>2. MergeString(m.nickname, p.nickname) \in Strings
      BY <3>1 DEF MergeString
    <3> QED  BY <3>1, <3>2 DEF MergeLogin, LoginMsgs
  <2> QED  BY <2>1, <2>2, <2>3, <2>4
<1>3. CASE c = 2
  <2>1. Default(c) = KeepAlive /\ Payloads(c) = KeepAliveMsgs
        /\ \A m, p : MergePayload(c, m, p) = MergeKeepAlive(m, p)
    BY <1>3 DEF Default, Payloads, MergePayload
  <2>2. KeepAlive \in KeepAliveMsgs
    BY UnknownsCat DEF KeepAlive, KeepAliveMsgs
  <2>3. ASSUME NEW p \in KeepAliveMsgs PROVE MergeKeepAlive(KeepAlive, p) = p
    <3>1. p = [unknown |-> p.unknown] /\ p.unknown \in Unknowns
      BY DEF KeepAliveMsgs
    <3>2. <<>> \o p.unknown = p.unknown
      BY <3>1, UnknownsCat
    <3>3. KeepAlive.unknown = <<>>
      BY DEF KeepAlive
    <3> QED  BY <3>1, <3>2, <3>3 DEF MergeKeepAlive
  <2>4. ASSUME NEW m \in KeepAliveMsgs, NEW p \in KeepAliveMsgs
        PROVE  MergeKeepAlive(m, p) \in KeepAliveMsgs
    BY UnknownsCat DEF MergeKeepAlive, KeepAliveMsgs
  <2> QED  BY <2>1, <2>2, <2>3, <2>4
<1>4. CASE c = 3
  <2>1. Default(c) = Insert /\ Payloads(c) = InsertMsgs
        /\ \A m, p : MergePayload(c, m, p) = MergeInsert(m, p)
    BY <1>4 DEF Default, Payloads, MergePayload
  <2>2. Insert \in InsertMsgs
    BY <1>1, UnknownsCat, MapsMerge DEF Insert, InsertMsgs
  <2>3. ASSUME NEW p \in InsertMsgs PROVE MergeInsert(Insert, p) = p
    <3>1. p = [table |-> p.table, values |-> p.values, unknown |-> p.unknown]
          /\ p.unknown \in Unknowns /\ p.values \in Maps
      BY DEF InsertMsgs
    <3>2. MergeString("", p.table) = p.table
      BY DEF MergeString
    <3>3. <<>> \o p.unknown = p.unknown /\ MergeMap(EmptyMap, p.values) = p.values
      BY <3>1, UnknownsCat, MapsMerge
    <3>4. Insert.table = "" /\ Insert.values = EmptyMap /\ Insert.unknown = <<>>
      BY DEF Insert
    <3> QED  BY <3>1, <3>2, <3>3, <3>4 DEF MergeInsert
  <2>4. ASSUME NEW m \in InsertMsgs, NEW p \in InsertMsgs
        PROVE  MergeInsert(m, p) \in InsertMsgs
    <3>1. m.table \in Strings /\ p.table \in Strings
          /\ m.unknown \o p.unknown \in Unknowns
          /\ MergeMap(m.values, p.values) \in Maps
      BY UnknownsCat, MapsMerge DEF InsertMsgs
    <3>2. MergeString(m.table, p.table) \in Strings
      BY <3>1 DEF MergeString
    <3> QED  BY <3>1, <3>2 DEF MergeInsert, InsertMsgs
  <2> QED  BY <2>1, <2>2, <2>3, <2>4
<1> QED  BY <1>2, <1>3, <1>4

\* What is written for the member, its size, and what it is parsed into.
LEMMA PayloadWritten ==
    ASSUME NEW e \in Envelopes, NEW c \in 1..3, e.payload_case = c,
           NEW o \in Orders(e)
    PROVE  /\ e.payload \in Payloads(c)
           /\ SerializePayload(e, o) \in Seq(MemberFields)
           /\ MemberBytes(SerializePayload(e, o)) = PayloadSize(e)
           /\ \A m \in Payloads(c) : \A f :
                f.num = c /\ f.body = SerializePayload(e, o)
                  => ParsePayload(m, f) = MergePayload(c, m, e.payload)
<1> DEFINE p == e.payload
<1>1. p \in Payloads(c)
  BY DEF Envelopes
<1>2. CASE c = 1
  <2>1. p \in LoginMsgs /\ Payloads(c) = LoginMsgs
    BY <1>1, <1>2 DEF Payloads
  <2>2. SerializePayload(e, o) = SerializeLogin(p) /\ PayloadSize(e) = LoginSize(p)
    BY <1>2 DEF SerializePayload, PayloadSize
  <2>3. \A m, f : f.num = c => ParsePayload(m, f) = ParseLogin(m, f.body)
                 /\ MergePayload(c, m, p) = MergeLogin(m, p)
    BY <1>2 DEF ParsePayload, MergePayload
  <2> HIDE DEF p
  <2> QED  BY <1>1, <2>1, <2>2, <2>3, LoginParsed, LoginSized DEF p
<1>3. CASE c = 2
  <2>1. p \in KeepAliveMsgs /\ Payloads(c) = KeepAliveMsgs
    BY <1>1, <1>3 DEF Payloads
  <2>2. SerializePayload(e, o) = SerializeKeepAlive(p)
        /\ PayloadSize(e) = KeepAliveSize(p)
    BY <1>3 DEF SerializePayload, PayloadSize
  <2>3. \A m, f : f.num = c => ParsePayload(m, f) = ParseKeepAlive(m, f.body)
                 /\ MergePayload(c, m, p) = MergeKeepAlive(m, p)
    BY <1>3 DEF ParsePayload, MergePayload
  <2> HIDE DEF p
  <2>4. MemberBytes(SerializeKeepAlive(p)) = KeepAliveSize(p)
    <3>1. p.unknown \in Unknowns /\ p.unknown \in Seq(MemberFields)
      BY <2>1, MemberParts DEF KeepAliveMsgs
    <3> QED  BY <3>1, PartSizes, MemberBytesWeigh
             DEF SerializeKeepAlive, KeepAliveSize
  <2> QED  BY <1>1, <2>1, <2>2, <2>3, <2>4, KeepAliveParsed DEF p
<1>4. CASE c = 3
  <2>1. p \in InsertMsgs /\ Payloads(c) = InsertMsgs
    BY <1>1, <1>4 DEF Payloads
  <2>2. SerializePayload(e, o) = SerializeInsert(p, o)
        /\ PayloadSize(e) = InsertSize(p)
    BY <1>4 DEF SerializePayload, PayloadSize
  <2>3. \A m, f : f.num = c => ParsePayload(m, f) = ParseInsert(m, f.body)
                 /\ MergePayload(c, m, p) = MergeInsert(m, p)
    BY <1>4 DEF ParsePayload, MergePayload
  <2>4. o \in SetToSeqs(DOMAIN p.values)
    BY <1>4 DEF Orders
  <2> HIDE DEF p
  <2> QED  BY <1>1, <2>1, <2>2, <2>3, <2>4, InsertParsed, InsertSized DEF p
<1> QED  BY <1>2, <1>3, <1>4

\* The fields on the stream: what announces a member has its length.
EnvelopeFields ==
    {Field(c, "fields", MemberBytes(b), b) : c \in 1..3, b \in Seq(MemberFields)}
      \cup {NewField}

\* The parts of an Envelope.
LEMMA EnvelopeShape ==
    ASSUME NEW e \in Envelopes
    PROVE  /\ e = [payload_case |-> e.payload_case, payload |-> e.payload,
                   unknown |-> e.unknown]
           /\ e.payload_case \in 0..3 /\ e.payload \in Payloads(e.payload_case)
           /\ e.unknown \in Unknowns
           /\ e.payload_case = 0 => e.payload = KeepAlive
  BY DEF Envelopes, Payloads

\* Parts that fit make an Envelope.
LEMMA EnvelopeMade ==
    ASSUME NEW c \in 0..3, NEW p \in Payloads(c), NEW u \in Unknowns
    PROVE  [payload_case |-> c, payload |-> p, unknown |-> u] \in Envelopes
<1>1. p \in UNION {Payloads(d) : d \in 0..3}
  OBVIOUS
<1> QED  BY <1>1 DEF Envelopes

\* Merging two Envelopes makes one; a copy is the source.
LEMMA EnvelopeMerge ==
    ASSUME NEW x \in Envelopes, NEW e \in Envelopes
    PROVE  /\ MergeEnvelope(x, e) \in Envelopes
           /\ MergeEnvelope(Envelope, e) = e
<1>1. x.payload_case \in 0..3 /\ x.payload \in Payloads(x.payload_case)
      /\ x.unknown \in Unknowns
  BY EnvelopeShape
<1>2. e.payload_case \in 0..3 /\ e.payload \in Payloads(e.payload_case)
      /\ e.unknown \in Unknowns
  BY EnvelopeShape
<1>3. x.unknown \o e.unknown \in Unknowns /\ <<>> \o e.unknown = e.unknown
  BY <1>1, <1>2, UnknownsCat
<1>4. MergeEnvelope(x, e) \in Envelopes
  <2>1. CASE e.payload_case = 0
    <3>1. MergeEnvelope(x, e) =
            [payload_case |-> x.payload_case, payload |-> x.payload,
             unknown |-> x.unknown \o e.unknown]
      BY <2>1 DEF MergeEnvelope
    <3> QED  BY <1>1, <1>3, <3>1, EnvelopeMade
  <2>2. CASE e.payload_case # 0 /\ e.payload_case = x.payload_case
    <3> DEFINE c == e.payload_case
    <3>1. MergeEnvelope(x, e) =
            [payload_case |-> c, payload |-> MergePayload(c, x.payload, e.payload),
             unknown |-> x.unknown \o e.unknown]
      BY <2>2 DEF MergeEnvelope
    <3>2. c \in 1..3 /\ c \in 0..3
      BY <1>2, <2>2
    <3>3. MergePayload(c, x.payload, e.payload) \in Payloads(c)
      BY <1>1, <1>2, <2>2, <3>2, PayloadMerge
    <3> QED  BY <1>3, <3>1, <3>2, <3>3, EnvelopeMade
  <2>3. CASE e.payload_case # 0 /\ e.payload_case # x.payload_case
    <3>1. MergeEnvelope(x, e) =
            [payload_case |-> e.payload_case, payload |-> e.payload,
             unknown |-> x.unknown \o e.unknown]
      BY <2>3 DEF MergeEnvelope
    <3> QED  BY <1>2, <1>3, <3>1, EnvelopeMade
  <2> QED  BY <2>1, <2>2, <2>3
<1>5. MergeEnvelope(Envelope, e) = e
  <2>1. Envelope.payload_case = 0 /\ Envelope.payload = KeepAlive
        /\ Envelope.unknown = <<>>
    BY DEF Envelope
  <2>2. MergeEnvelope(Envelope, e) =
          [payload_case |-> e.payload_case, payload |-> e.payload,
           unknown |-> e.unknown]
    <3>1. CASE e.payload_case = 0
      BY <1>3, <2>1, <3>1, EnvelopeShape DEF MergeEnvelope
    <3>2. CASE e.payload_case # 0
      BY <1>3, <2>1, <3>2 DEF MergeEnvelope
    <3> QED  BY <3>1, <3>2
  <2> QED  BY <2>2, EnvelopeShape
<1> QED  BY <1>4, <1>5

\* An Envelope with another member.
LEMMA EnvelopeExcept ==
    ASSUME NEW x, NEW c, NEW v,
           x = [payload_case |-> x.payload_case, payload |-> x.payload,
                unknown |-> x.unknown]
    PROVE  [x EXCEPT !.payload_case = c, !.payload = v]
             = [payload_case |-> c, payload |-> v, unknown |-> x.unknown]
<1>1. PICK a, b, u : x = [payload_case |-> a, payload |-> b, unknown |-> u]
  OBVIOUS
<1>2. PICK y : y = [x EXCEPT !.payload_case = c]
  OBVIOUS
<1>3. y = [payload_case |-> c, payload |-> b, unknown |-> u]
  BY <1>1, <1>2, SMTT(20)
<1>4. [y EXCEPT !.payload = v] = [payload_case |-> c, payload |-> v, unknown |-> u]
  BY <1>3, SMTT(20)
<1>5. [x EXCEPT !.payload_case = c, !.payload = v] = [y EXCEPT !.payload = v]
  BY <1>2
<1>6. u = x.unknown
  BY <1>1
<1> QED  BY <1>4, <1>5, <1>6, Zenon

\* Reading the serialisation of e into x merges e into x.
LEMMA EnvelopeParsed ==
    ASSUME NEW x \in Envelopes, NEW e \in Envelopes, NEW o \in Orders(e)
    PROVE  /\ SerializeEnvelope(e, o) \in Seq(EnvelopeFields)
           /\ Leads("Envelope", x, SerializeEnvelope(e, o), MergeEnvelope(x, e))
<1> DEFINE c == e.payload_case
           b == SerializePayload(e, o)
           f == Field(c, "fields", PayloadSize(e), b)
           h == IF c = 0 THEN <<>> ELSE <<f>>
           u == e.unknown
           y == [payload_case |-> IF c = 0 THEN x.payload_case ELSE c,
                 payload |-> IF c = 0 THEN x.payload
                             ELSE IF c = x.payload_case
                               THEN MergePayload(c, x.payload, e.payload)
                               ELSE e.payload,
                 unknown |-> x.unknown]
<1>1. /\ x = [payload_case |-> x.payload_case, payload |-> x.payload,
              unknown |-> x.unknown]
      /\ x.payload \in Payloads(x.payload_case) /\ x.unknown \in Unknowns
  BY EnvelopeShape
<1>2. c \in 0..3 /\ u \in Unknowns /\ e.payload \in Payloads(c)
  BY EnvelopeShape
<1>3. SerializeEnvelope(e, o) = h \o u
  BY DEF SerializeEnvelope
<1>4. u \in Seq(EnvelopeFields)
  BY <1>2 DEF Unknowns, EnvelopeFields
<1>5. h \in Seq(EnvelopeFields)
  <2>1. CASE c = 0
    BY <2>1
  <2>2. CASE c # 0
    <3>1. c \in 1..3
      BY <1>2, <2>2
    <3>2. b \in Seq(MemberFields) /\ PayloadSize(e) = MemberBytes(b)
      BY <3>1, PayloadWritten
    <3>3. f \in EnvelopeFields
      BY <3>1, <3>2 DEF EnvelopeFields
    <3> HIDE DEF f
    <3> QED  BY <2>2, <3>3
  <2> QED  BY <2>1, <2>2
<1>6. Leads("Envelope", x, h, y)
  <2>1. CASE c = 0
    <3>1. y = x /\ h = <<>>
      BY <1>1, <2>1
    <3> QED  BY <3>1, LeadsEmpty
  <2>2. CASE c # 0
    <3>1. c \in 1..3
      BY <1>2, <2>2
    <3>2. f.num = c /\ f.body = b
      BY DEF Field
    <3>3. \A m \in Payloads(c) : ParsePayload(m, f) = MergePayload(c, m, e.payload)
      BY <3>1, <3>2, PayloadWritten
    <3>4. Default(c) \in Payloads(c)
          /\ MergePayload(c, Default(c), e.payload) = e.payload
      BY <1>2, <3>1, PayloadMerge
    <3>5. h = <<f>>
      BY <2>2
    <3> HIDE DEF f, b
    <3> DEFINE t == IF x.payload_case = c THEN x.payload ELSE Default(c)
    <3>6. Step("Envelope", x, f)
            = [x EXCEPT !.payload_case = c, !.payload = ParsePayload(t, f)]
      BY <1>1, <3>1, <3>2 DEF Step, EnvelopeStep
    <3>7. ParsePayload(t, f) =
            IF c = x.payload_case THEN MergePayload(c, x.payload, e.payload)
                                  ELSE e.payload
      BY <1>1, <3>3, <3>4
    <3> HIDE DEF t
    <3>8. [x EXCEPT !.payload_case = c, !.payload = ParsePayload(t, f)]
            = [payload_case |-> c, payload |-> ParsePayload(t, f),
               unknown |-> x.unknown]
      BY <1>1, EnvelopeExcept, Zenon
    <3>9. y = [payload_case |-> c, payload |-> ParsePayload(t, f),
               unknown |-> x.unknown]
      BY <2>2, <3>7
    <3>10. Step("Envelope", x, f) = y
      BY <3>6, <3>8, <3>9, Zenon
    <3> HIDE DEF y, h
    <3> QED  BY <3>5, <3>10, LeadsOne
  <2> QED  BY <2>1, <2>2
<1>7. WithUnknown(y, u) = MergeEnvelope(x, e)
  <2> DEFINE w == x.unknown \o u
             d == IF c = 0 THEN x.payload_case ELSE c
             p == IF c = 0 THEN x.payload
                  ELSE IF c = x.payload_case
                    THEN MergePayload(c, x.payload, e.payload)
                    ELSE e.payload
  <2>1. MergeEnvelope(x, e) = [payload_case |-> d, payload |-> p, unknown |-> w]
    BY DEF MergeEnvelope
  <2>2. y = [payload_case |-> d, payload |-> p, unknown |-> x.unknown]
    OBVIOUS
  <2> HIDE DEF w, d, p, y
  <2>3. [y EXCEPT !.unknown = w] = [payload_case |-> d, payload |-> p, unknown |-> w]
    BY <2>2
  <2>4. y.unknown = x.unknown
    BY <2>2
  <2> QED  BY <2>1, <2>3, <2>4 DEF WithUnknown, w
<1>8. /\ "unknown" \in DOMAIN y /\ y = [k \in DOMAIN y |-> y[k]]
      /\ y.unknown \in Unknowns
  BY <1>1
<1> HIDE DEF y, h, u
<1>9. Leads("Envelope", y, u, WithUnknown(y, u))
  BY <1>2, <1>8, LeadsUnknown
<1>10. h \o u \in Seq(EnvelopeFields)
  BY <1>4, <1>5
<1>11. Leads("Envelope", x, h \o u, WithUnknown(y, u))
  BY <1>4, <1>5, <1>6, <1>9, LeadsCat
<1> QED  BY <1>3, <1>7, <1>10, <1>11, Zenon
-----------------------------------------------------------------------------
(***************************************************************************)
(* Sizes of Envelopes.                                                     *)
(***************************************************************************)
EnvelopeWeight ==
    [f \in EnvelopeFields |->
       FieldBytes(f, IF f.kind = "string" THEN Len(f.body) ELSE MemberBytes(f.body))]

\* The bytes of each of the fields of an Envelope.
LEMMA EnvelopeWeights ==
    /\ IsWeight(EnvelopeWeight, EnvelopeFields)
    /\ \A c \in 1..3, b \in Seq(MemberFields) :
         EnvelopeWeight[Field(c, "fields", MemberBytes(b), b)]
           = 1 + LengthDelimited(MemberBytes(b))
    /\ EnvelopeWeight[NewField] = MemberWeight[NewField]
<1>1. ASSUME NEW c \in 1..3, NEW b \in Seq(MemberFields)
      PROVE  /\ EnvelopeWeight[Field(c, "fields", MemberBytes(b), b)]
                  = 1 + LengthDelimited(MemberBytes(b))
             /\ EnvelopeWeight[Field(c, "fields", MemberBytes(b), b)] \in Nat
  <2> DEFINE f == Field(c, "fields", MemberBytes(b), b)
  <2>1. f \in EnvelopeFields
    BY DEF EnvelopeFields
  <2>2. f.kind = "fields" /\ f.body = b /\ f.size = MemberBytes(b)
    BY DEF Field
  <2>3. MemberBytes(b) \in Nat
    BY MemberBytesWeigh, MemberWeights, WeighFacts
  <2> HIDE DEF f
  <2>4. EnvelopeWeight[f] = FieldBytes(f, MemberBytes(b))
    BY <2>1, <2>2 DEF EnvelopeWeight
  <2>5. /\ FieldBytes(f, MemberBytes(b)) = 1 + LengthDelimited(MemberBytes(b))
        /\ 1 + LengthDelimited(MemberBytes(b)) \in Nat
    BY <2>2, <2>3, Prefixed
  <2> QED  BY <2>4, <2>5 DEF f
<1>2. /\ EnvelopeWeight[NewField] = MemberWeight[NewField]
      /\ MemberWeight[NewField] \in Nat
  <2>1. NewField.kind = "string" /\ NewField.body = ""
    BY DEF NewField, Field
  <2>2. NewField \in EnvelopeFields
    BY DEF EnvelopeFields
  <2>3. EnvelopeWeight[NewField] = FieldBytes(NewField, Len(""))
    BY <2>1, <2>2 DEF EnvelopeWeight
  <2>4. NewField \in MemberFields /\ MemberWeight[NewField] \in Nat
    BY MemberWeights DEF IsWeight
  <2>5. MemberWeight[NewField] = FieldBytes(NewField, Len(""))
    BY <2>1, <2>4 DEF MemberWeight
  <2> QED  BY <2>3, <2>4, <2>5
<1>3. ASSUME NEW f \in EnvelopeFields PROVE EnvelopeWeight[f] \in Nat
  <2>1. CASE f = NewField
    BY <1>2, <2>1
  <2>2. CASE f # NewField
    <3>1. PICK c \in 1..3, b \in Seq(MemberFields) :
            f = Field(c, "fields", MemberBytes(b), b)
      BY <2>2 DEF EnvelopeFields
    <3> QED  BY <1>1, <3>1
  <2> QED  BY <2>1, <2>2
<1> QED  BY <1>1, <1>2, <1>3 DEF IsWeight

\* The bytes of a stream of them.
LEMMA WireBytesWeigh ==
    ASSUME NEW s \in Seq(EnvelopeFields)
    PROVE  WireBytes(s) = Weigh(EnvelopeWeight, s)
<1> DEFINE w(f) ==
             FieldBytes(f, IF f.kind = "string" THEN Len(f.body) ELSE MemberBytes(f.body))
<1>1. \A i \in DOMAIN s : s[i] \in EnvelopeFields
  BY LenProperties
<1>2. \A f \in EnvelopeFields : EnvelopeWeight[f] = w(f)
  BY DEF EnvelopeWeight
<1>3. WireBytes(s) = Sum([i \in DOMAIN s |-> w(s[i])])
  BY DEF WireBytes, SumOf
<1> HIDE DEF w
<1>4. [i \in DOMAIN s |-> w(s[i])] = Weights(EnvelopeWeight, s)
  BY <1>1, <1>2 DEF Weights
<1> QED  BY <1>3, <1>4 DEF Weigh

\* An Envelope takes EnvelopeSize bytes, in whatever order its map is written.
LEMMA EnvelopeSized ==
    ASSUME NEW e \in Envelopes, NEW o \in Orders(e)
    PROVE  WireBytes(SerializeEnvelope(e, o)) = EnvelopeSize(e)
<1> DEFINE c == e.payload_case
           b == SerializePayload(e, o)
           f == Field(c, "fields", PayloadSize(e), b)
           h == IF c = 0 THEN <<>> ELSE <<f>>
           u == e.unknown
           W == EnvelopeWeight
           size == IF c = 0 THEN 0 ELSE 1 + LengthDelimited(PayloadSize(e))
<1>1. c \in 0..3 /\ u \in Unknowns
  BY EnvelopeShape
<1>2. SerializeEnvelope(e, o) = h \o u
  BY DEF SerializeEnvelope
<1>3. EnvelopeSize(e) = size + MaybeUnknownSize(e)
  BY DEF EnvelopeSize
<1>4. u \in Seq(EnvelopeFields)
  BY <1>1 DEF Unknowns, EnvelopeFields
<1>5. h \in Seq(EnvelopeFields) /\ Weigh(W, h) = size
  <2>1. CASE c = 0
    BY <2>1, EnvelopeWeights, WeighFacts
  <2>2. CASE c # 0
    <3>1. c \in 1..3
      BY <1>1, <2>2
    <3>2. b \in Seq(MemberFields) /\ PayloadSize(e) = MemberBytes(b)
      BY <3>1, PayloadWritten
    <3>3. f \in EnvelopeFields
      BY <3>1, <3>2 DEF EnvelopeFields
    <3>4. W[f] = 1 + LengthDelimited(PayloadSize(e))
      BY <3>1, <3>2, EnvelopeWeights
    <3>5. size = 1 + LengthDelimited(PayloadSize(e))
      BY <2>2
    <3>6. h = <<f>>
      BY <2>2
    <3> HIDE DEF f, h, size
    <3>7. Weigh(W, <<f>>) = W[f]
      BY <3>3, EnvelopeWeights, WeighFacts
    <3> QED  BY <3>3, <3>4, <3>5, <3>6, <3>7
  <2> QED  BY <2>1, <2>2
<1>6. MaybeUnknownSize(e) = Weigh(W, u)
  <2>1. MaybeUnknownSize(e) = Weigh(MemberWeight, u)
    BY <1>1, PartSizes
  <2>2. \A i \in DOMAIN u : u[i] = NewField
    BY <1>1, LenProperties DEF Unknowns
  <2> HIDE DEF u
  <2>3. Weights(MemberWeight, u) = Weights(W, u)
    BY <2>2, EnvelopeWeights DEF Weights
  <2> QED  BY <2>1, <2>3 DEF Weigh
<1> HIDE DEF h, u, W, size
<1>7. Weigh(W, h \o u) = Weigh(W, h) + Weigh(W, u)
  BY <1>4, <1>5, WeighFacts, EnvelopeWeights DEF W
<1>8. h \o u \in Seq(EnvelopeFields)
  BY <1>4, <1>5
<1>9. WireBytes(h \o u) = Weigh(W, h \o u)
  BY <1>8, WireBytesWeigh DEF W
<1> QED  BY <1>2, <1>3, <1>5, <1>6, <1>7, <1>9, Zenon

\* In what the program writes, the length before nested fields is theirs.
LEMMA StreamLengths ==
    ASSUME NEW s \in Seq(EnvelopeFields)
    PROVE  LengthsRight(s)
<1> SUFFICES ASSUME NEW i \in DOMAIN s, s[i].kind = "fields"
             PROVE  /\ s[i].size = MemberBytes(s[i].body)
                    /\ EntryLengthsRight(s[i].body)
  BY DEF LengthsRight
<1>1. s[i] \in EnvelopeFields
  BY LenProperties
<1>2. s[i] # NewField
  <2>1. NewField.kind = "string"
    BY DEF NewField, Field
  <2> QED  BY <2>1
<1>3. PICK c \in 1..3, b \in Seq(MemberFields) :
        s[i] = Field(c, "fields", MemberBytes(b), b)
  BY <1>1, <1>2 DEF EnvelopeFields
<1>4. s[i].size = MemberBytes(b) /\ s[i].body = b
  BY <1>3 DEF Field
<1>5. EntryLengthsRight(b)
  <2> SUFFICES ASSUME NEW j \in DOMAIN b, b[j].kind = "fields"
               PROVE  b[j].size = EntryBytes(b[j].body)
    BY DEF EntryLengthsRight
  <2>1. b[j] \in MemberFields
    BY LenProperties
  <2>2. b[j] \notin StringFields /\ b[j] # NewField
    <3>1. NewField.kind = "string"
      BY DEF NewField, Field
    <3>2. \A x : Field(1, "string", Len(x), x).kind = "string"
      BY DEF Field
    <3> QED  BY <3>1, <3>2 DEF StringFields
  <2>3. PICK k \in Strings, v \in Strings : b[j] = Entry(k, v)
    BY <2>1, <2>2 DEF MemberFields, EntryFields
  <2>4. Entry(k, v).size = EntryContents(k, v)
    BY DEF Entry, Field
  <2> QED  BY <2>3, <2>4, EntrySize
<1> QED  BY <1>4, <1>5

(***************************************************************************)
(* Reading what a message was written as, whatever the order of its map,   *)
(* into any message merges the first into the second: the parse tables     *)
(* against MergeImpl.                                                      *)
(***************************************************************************)
THEOREM ParseMerges ==
    ASSUME NEW x \in Envelopes, NEW e \in Envelopes, NEW o \in Orders(e)
    PROVE  ParseEnvelope(x, SerializeEnvelope(e, o)) = MergeEnvelope(x, e)
<1> DEFINE s == SerializeEnvelope(e, o)
<1>1. s \in Seq(EnvelopeFields) /\ Leads("Envelope", x, s, MergeEnvelope(x, e))
  BY EnvelopeParsed
<1> HIDE DEF s
<1>2. Leads("Envelope", x, s, ParseEnvelope(x, s))
  BY <1>1, EnvelopeLeads
<1>3. ParseEnvelope(x, s) = MergeEnvelope(x, e)
  BY <1>1, <1>2, LeadsOnce
<1> QED  BY <1>3 DEF s
-----------------------------------------------------------------------------
(***************************************************************************)
(* The program.                                                            *)
(***************************************************************************)
\* The inductive invariant.  ParsedIsMerged alone is not kept: reading into
\* the merge of what came before takes that all of it is well-formed.
WireInv ==
    /\ msg \in Envelopes
    /\ merged \in Envelopes
    /\ stream \in Seq(EnvelopeFields)
    /\ ParsedIsMerged

\* An Envelope whose member is changed.
LEMMA PayloadExcept ==
    ASSUME NEW x,
           x = [payload_case |-> x.payload_case, payload |-> x.payload,
                unknown |-> x.unknown]
    PROVE  /\ \A v : [x EXCEPT !.payload = v]
                       = [payload_case |-> x.payload_case, payload |-> v,
                          unknown |-> x.unknown]
           /\ \A v : [x EXCEPT !.payload.nickname = v]
                       = [x EXCEPT !.payload = [x.payload EXCEPT !.nickname = v]]
           /\ \A v : [x EXCEPT !.payload.table = v]
                       = [x EXCEPT !.payload = [x.payload EXCEPT !.table = v]]
           /\ \A v : [x EXCEPT !.payload.values = v]
                       = [x EXCEPT !.payload = [x.payload EXCEPT !.values = v]]
<1>1. PICK a, b, u : x = [payload_case |-> a, payload |-> b, unknown |-> u]
  OBVIOUS
<1>2. ASSUME NEW v
      PROVE  [x EXCEPT !.payload = v]
               = [payload_case |-> a, payload |-> v, unknown |-> u]
  BY <1>1, SMTT(20)
<1>3. x.payload_case = a /\ x.unknown = u
  BY <1>1
<1>4. ASSUME NEW v
      PROVE  /\ [x EXCEPT !.payload.nickname = v]
                  = [x EXCEPT !.payload = [x.payload EXCEPT !.nickname = v]]
             /\ [x EXCEPT !.payload.table = v]
                  = [x EXCEPT !.payload = [x.payload EXCEPT !.table = v]]
             /\ [x EXCEPT !.payload.values = v]
                  = [x EXCEPT !.payload = [x.payload EXCEPT !.values = v]]
  OBVIOUS
<1> QED  BY <1>2, <1>3, <1>4

\* mutable_login, mutable_keepalive and mutable_insert make the member.
LEMMA MemberMade ==
    ASSUME msg \in Envelopes, NEW c \in 1..3
    PROVE  /\ Member(c) \in Envelopes
           /\ Member(c).payload_case = c
<1>1. CASE msg.payload_case = c
  BY <1>1 DEF Member
<1>2. CASE msg.payload_case # c
  <2> DEFINE d == Default(c)
  <2>1. Member(c) = [msg EXCEPT !.payload_case = c, !.payload = d]
    BY <1>2 DEF Member
  <2>2. msg = [payload_case |-> msg.payload_case, payload |-> msg.payload,
               unknown |-> msg.unknown]
        /\ msg.unknown \in Unknowns
    BY EnvelopeShape
  <2>3. d \in Payloads(c) /\ c \in 0..3
    BY PayloadMerge
  <2> HIDE DEF d
  <2>4. Member(c) = [payload_case |-> c, payload |-> d, unknown |-> msg.unknown]
    BY <2>1, <2>2, EnvelopeExcept
  <2> QED  BY <2>2, <2>3, <2>4, EnvelopeMade
<1> QED  BY <1>1, <1>2

\* A member with another field, or with one more unknown field, is one.
LEMMA MemberEdits ==
    /\ Payloads(1) = LoginMsgs /\ Payloads(2) = KeepAliveMsgs
    /\ Payloads(3) = InsertMsgs
    /\ \A m \in LoginMsgs, s \in Strings : [m EXCEPT !.nickname = s] \in LoginMsgs
    /\ \A m \in InsertMsgs, s \in Strings : [m EXCEPT !.table = s] \in InsertMsgs
    /\ \A m \in InsertMsgs, v \in Maps : [m EXCEPT !.values = v] \in InsertMsgs
    /\ \A c \in 1..3 : \A m \in Payloads(c) : Unknown(m, NewField) \in Payloads(c)
<1>1. /\ Payloads(1) = LoginMsgs /\ Payloads(2) = KeepAliveMsgs
      /\ Payloads(3) = InsertMsgs
  BY DEF Payloads
<1>2. ASSUME NEW m \in LoginMsgs, NEW s \in Strings
      PROVE  [m EXCEPT !.nickname = s] \in LoginMsgs
  BY DEF LoginMsgs
<1>3. ASSUME NEW m \in InsertMsgs, NEW s \in Strings, NEW v \in Maps
      PROVE  /\ [m EXCEPT !.table = s] \in InsertMsgs
             /\ [m EXCEPT !.values = v] \in InsertMsgs
  BY DEF InsertMsgs
<1>4. \A u \in Unknowns : Append(u, NewField) \in Unknowns
  BY DEF Unknowns
<1>5. \A m : Unknown(m, NewField)
              = [m EXCEPT !.unknown = Append(m.unknown, NewField)]
  BY DEF Unknown
<1>6. ASSUME NEW m \in LoginMsgs PROVE Unknown(m, NewField) \in LoginMsgs
  BY <1>4, <1>5 DEF LoginMsgs
<1>7. ASSUME NEW m \in KeepAliveMsgs PROVE Unknown(m, NewField) \in KeepAliveMsgs
  BY <1>4, <1>5 DEF KeepAliveMsgs
<1>8. ASSUME NEW m \in InsertMsgs PROVE Unknown(m, NewField) \in InsertMsgs
  BY <1>4, <1>5 DEF InsertMsgs
<1>9. \A m \in InsertMsgs, s \in Strings : [m EXCEPT !.table = s] \in InsertMsgs
  BY <1>3, MapsMerge
<1>10. \A m \in InsertMsgs, v \in Maps : [m EXCEPT !.values = v] \in InsertMsgs
  BY <1>3, WireFormatConfig
<1>11. \A c \in 1..3 : \A m \in Payloads(c) : Unknown(m, NewField) \in Payloads(c)
  <2>1. \A c \in 1..3 : c = 1 \/ c = 2 \/ c = 3
    OBVIOUS
  <2> QED  BY <1>1, <1>6, <1>7, <1>8, <2>1
<1> QED  BY <1>1, <1>2, <1>9, <1>10, <1>11

\* What each edit makes of an Envelope is one.
LEMMA EditsMade ==
    ASSUME msg \in Envelopes
    PROVE  /\ \A s \in Strings :
                [Member(1) EXCEPT !.payload.nickname = s] \in Envelopes
           /\ \A s \in Strings :
                [Member(3) EXCEPT !.payload.table = s] \in Envelopes
           /\ \A v \in Maps :
                [Member(3) EXCEPT !.payload.values = v] \in Envelopes
           /\ Member(3).payload.values \in Maps
           /\ Unknown(msg, NewField) \in Envelopes
           /\ msg.payload_case # 0 =>
                [msg EXCEPT !.payload = Unknown(msg.payload, NewField)]
                  \in Envelopes
<1>1. PICK a \in Envelopes : a = Member(1) /\ a.payload_case = 1
  BY MemberMade
<1>2. PICK b \in Envelopes : b = Member(3) /\ b.payload_case = 3
  BY MemberMade
<1>3. a.payload \in LoginMsgs /\ b.payload \in InsertMsgs
  BY <1>1, <1>2, EnvelopeShape, MemberEdits
<1>4. ASSUME NEW x \in Envelopes, NEW p \in Payloads(x.payload_case)
      PROVE  [x EXCEPT !.payload = p] \in Envelopes
  <2>1. x = [payload_case |-> x.payload_case, payload |-> x.payload,
             unknown |-> x.unknown]
        /\ x.payload_case \in 0..3 /\ x.unknown \in Unknowns
    BY EnvelopeShape
  <2>2. [x EXCEPT !.payload = p]
          = [payload_case |-> x.payload_case, payload |-> p, unknown |-> x.unknown]
    BY <2>1, PayloadExcept
  <2> QED  BY <2>1, <2>2, EnvelopeMade
<1>5. ASSUME NEW s \in Strings
      PROVE  [Member(1) EXCEPT !.payload.nickname = s] \in Envelopes
  <2>1. [a.payload EXCEPT !.nickname = s] \in Payloads(a.payload_case)
    BY <1>1, <1>3, MemberEdits
  <2>2. [a EXCEPT !.payload.nickname = s]
          = [a EXCEPT !.payload = [a.payload EXCEPT !.nickname = s]]
    BY EnvelopeShape, PayloadExcept
  <2> QED  BY <1>1, <1>4, <2>1, <2>2
<1>6. ASSUME NEW s \in Strings
      PROVE  [Member(3) EXCEPT !.payload.table = s] \in Envelopes
  <2>1. [b.payload EXCEPT !.table = s] \in Payloads(b.payload_case)
    BY <1>2, <1>3, MemberEdits
  <2>2. [b EXCEPT !.payload.table = s]
          = [b EXCEPT !.payload = [b.payload EXCEPT !.table = s]]
    BY EnvelopeShape, PayloadExcept
  <2> QED  BY <1>2, <1>4, <2>1, <2>2
<1>7. ASSUME NEW v \in Maps
      PROVE  [Member(3) EXCEPT !.payload.values = v] \in Envelopes
  <2>1. [b.payload EXCEPT !.values = v] \in Payloads(b.payload_case)
    BY <1>2, <1>3, MemberEdits
  <2>2. [b EXCEPT !.payload.values = v]
          = [b EXCEPT !.payload = [b.payload EXCEPT !.values = v]]
    BY EnvelopeShape, PayloadExcept
  <2> QED  BY <1>2, <1>4, <2>1, <2>2
<1>8. Member(3).payload.values \in Maps
  BY <1>2, <1>3 DEF InsertMsgs
<1>9. Unknown(msg, NewField) \in Envelopes
  <2>1. msg.unknown \in Unknowns
    BY EnvelopeShape
  <2>2. Append(msg.unknown, NewField) \in Unknowns
    BY <2>1 DEF Unknowns
  <2>3. Unknown(msg, NewField)
          = [msg EXCEPT !.unknown = Append(msg.unknown, NewField)]
    BY DEF Unknown
  <2> QED  BY <2>2, <2>3 DEF Envelopes
<1>10. ASSUME msg.payload_case # 0
       PROVE  [msg EXCEPT !.payload = Unknown(msg.payload, NewField)] \in Envelopes
  <2>1. msg.payload_case \in 1..3 /\ msg.payload \in Payloads(msg.payload_case)
    BY <1>10, EnvelopeShape
  <2>2. Unknown(msg.payload, NewField) \in Payloads(msg.payload_case)
    BY <2>1, MemberEdits
  <2> QED  BY <1>4, <2>2
<1> QED  BY <1>5, <1>6, <1>7, <1>8, <1>9, <1>10

\* Nothing is written, and nothing is in the message, at the start.
LEMMA WireInit == Init => WireInv
<1> SUFFICES ASSUME Init PROVE WireInv
  OBVIOUS
<1>1. Envelope \in Envelopes
  <2>1. KeepAlive \in Payloads(0)
    BY DEF Payloads
  <2> QED  BY <2>1, EnvelopeMade, UnknownsCat DEF Envelope
<1>2. stream \in Seq(EnvelopeFields) /\ stream = <<>>
  BY DEF Init
<1>3. ParseEnvelope(Envelope, stream) = Envelope
  <2>1. Leads("Envelope", Envelope, stream, ParseEnvelope(Envelope, stream))
    BY <1>2, EnvelopeLeads
  <2>2. Leads("Envelope", Envelope, stream, Envelope)
    BY <1>2, LeadsEmpty
  <2> QED  BY <1>2, <2>1, <2>2, LeadsOnce
<1> QED  BY <1>1, <1>2, <1>3 DEF Init, WireInv, ParsedIsMerged

\* Every step keeps the invariant.
LEMMA WireStep == WireInv /\ [Next]_vars => WireInv'
<1> SUFFICES ASSUME WireInv, [Next]_vars PROVE WireInv'
  OBVIOUS
<1>1. /\ msg \in Envelopes /\ merged \in Envelopes
      /\ stream \in Seq(EnvelopeFields)
      /\ ParseEnvelope(Envelope, stream) = merged
  BY DEF WireInv, ParsedIsMerged
<1>2. ASSUME NEW e \in Envelopes, Edit(e) PROVE WireInv'
  BY <1>1, <1>2 DEF Edit, WireInv, ParsedIsMerged
<1>3. ASSUME NEW s \in Strings, set_nickname(s) PROVE WireInv'
  BY <1>1, <1>2, <1>3, EditsMade DEF set_nickname
<1>4. CASE mutable_keepalive
  BY <1>1, <1>2, <1>4, MemberMade DEF mutable_keepalive
<1>5. ASSUME NEW s \in Strings, set_table(s) PROVE WireInv'
  BY <1>1, <1>2, <1>5, EditsMade DEF set_table
<1>6. ASSUME NEW k \in Strings, NEW v \in Strings, mutable_values(k, v)
      PROVE  WireInv'
  <2>1. Put(Member(3).payload.values, k, v) \in Maps
    BY <1>1, EditsMade, MapsMerge
  <2> QED  BY <1>1, <1>2, <1>6, <2>1, EditsMade DEF mutable_values
<1>7. CASE clear_values
  BY <1>1, <1>2, <1>7, EditsMade, MapsMerge DEF clear_values
<1>8. CASE add_unknown
  BY <1>1, <1>2, <1>8, EditsMade DEF add_unknown
<1>9. Envelope \in Envelopes
  <2>1. KeepAlive \in Payloads(0)
    BY DEF Payloads
  <2> QED  BY <2>1, EnvelopeMade, UnknownsCat DEF Envelope
<1>10. CASE clear_all
  BY <1>2, <1>9, <1>10 DEF clear_all, Clear
<1>11. CASE copy_from
  BY <1>1, <1>2, <1>9, <1>11, EnvelopeMerge DEF copy_from, CopyFrom, Clear
<1>12. CASE merge_from
  BY <1>1, <1>2, <1>12, EnvelopeMerge DEF merge_from
<1>13. CASE parse
  BY <1>1, <1>2, <1>13 DEF parse, Clear
<1>14. ASSUME NEW o \in Orders(msg), serialize(o) PROVE WireInv'
  <2> DEFINE s == SerializeEnvelope(msg, o)
  <2>1. /\ stream' = stream \o s /\ merged' = MergeEnvelope(merged, msg)
        /\ msg' = msg
    BY <1>14 DEF serialize
  <2>2. s \in Seq(EnvelopeFields) /\ Leads("Envelope", merged, s, merged')
    BY <1>1, <2>1, EnvelopeParsed
  <2>3. merged' \in Envelopes
    BY <1>1, <2>1, EnvelopeMerge
  <2> HIDE DEF s
  <2>4. stream' \in Seq(EnvelopeFields)
    BY <1>1, <2>1, <2>2
  <2>5. Leads("Envelope", Envelope, stream, merged)
    BY <1>1, EnvelopeLeads
  <2>6. Leads("Envelope", Envelope, stream \o s, merged')
    BY <1>1, <2>2, <2>5, LeadsCat
  <2>7. Leads("Envelope", Envelope, stream', ParseEnvelope(Envelope, stream'))
    BY <2>4, EnvelopeLeads
  <2>8. ParseEnvelope(Envelope, stream') = merged'
    BY <2>1, <2>4, <2>6, <2>7, LeadsOnce
  <2> QED  BY <1>1, <2>1, <2>3, <2>4, <2>8 DEF WireInv, ParsedIsMerged
<1>15. CASE UNCHANGED vars
  BY <1>1, <1>15 DEF vars, WireInv, ParsedIsMerged
<1> QED
  BY <1>3, <1>4, <1>5, <1>6, <1>7, <1>8, <1>10, <1>11, <1>12, <1>13, <1>14,
     <1>15 DEF Next

\* WireInv is an invariant of the program.
LEMMA WireInvHolds == Spec => []WireInv
  BY WireInit, WireStep, PTL DEF Spec

\* What the parser reads back from the stream is the merge of the messages
\* written to it: ParsedIsMerged, about MergeImpl and the parse tables.
THEOREM ParsedIsMergedHolds == Spec => []ParsedIsMerged
<1>1. WireInv => ParsedIsMerged
  BY DEF WireInv
<1> QED  BY <1>1, WireInvHolds, PTL

\* ByteSizeLong is the number of bytes written for every order of the map, and
\* every length before nested fields is that of its contents: SizesAgree,
\* about ByteSizeLong and _InternalSerialize.
THEOREM SizesAgreeHolds == Spec => []SizesAgree
<1>1. WireInv => SizesAgree
  BY StreamLengths, EnvelopeSized DEF WireInv, SizesAgree
<1> QED  BY <1>1, WireInvHolds, PTL

\* A copy, and what is parsed from the source's serialisation into a cleared
\* message, equal the source: CopiesEqual, about CopyFrom and ParseFromString.
THEOREM CopiesEqualHolds == Spec => []CopiesEqual
<1>1. ASSUME WireInv PROVE CopiesEqual
  <2>1. msg \in Envelopes /\ Envelope \in Envelopes
    <3>1. KeepAlive \in Payloads(0)
      BY DEF Payloads
    <3> QED  BY <1>1, <3>1, EnvelopeMade, UnknownsCat DEF WireInv, Envelope
  <2>2. CopyFrom(merged, msg) = msg
    BY <2>1, EnvelopeMerge DEF CopyFrom, Clear
  <2>3. ASSUME NEW o \in Orders(msg)
        PROVE  ParseEnvelope(Clear(merged), SerializeEnvelope(msg, o)) = msg
    <3>1. MergeEnvelope(Envelope, msg) = msg
      BY <2>1, EnvelopeMerge
    <3> QED  BY <2>1, <3>1, ParseMerges DEF Clear
  <2> QED  BY <2>2, <2>3 DEF CopiesEqual
<1> QED  BY <1>1, WireInvHolds, PTL
=============================================================================
