------------------------- MODULE StageTasksTheorems -------------------------
(* Proofs about StageTasks, for any meshes, any number of stages, and the   *)
(* four task lists: with and without cubed sphere and passive scalars.  The *)
(* first part is about the order of the tasks and what is sent, the second  *)
(* about the two exchanges of ghost cells, the third about what the fields  *)
(* and buffers may hold.                                                    *)
EXTENDS StageTasks, SequenceTheorems, WellFoundedInduction, TLAPS

-----------------------------------------------------------------------------
(* The list.                                                                *)

\* The tasks that send, of which no other task of the list waits for any.
Sending == {"SEND_HYD", "SEND_HYD2", "SEND_SCLR", "SEND_SCLR2"}

\* What comes before the primitive variables.
Early(sphere) ==
  {"CALC_HYDFLX", "CALC_SCLRFLX", "INT_HYD", "INT_SCLR", "SRC_TERM", "SEND_HYD",
   "RECV_HYD", "SETB_HYD", "SEND_SCLR", "RECV_SCLR", "SETB_SCLR"}
  \cup IF sphere
       THEN {"CLEAR_ALLBND2", "RESTART_RECV", "SEND_HYD2", "RECV_HYD2", "SETB_HYD2",
             "SEND_SCLR2", "RECV_SCLR2", "SETB_SCLR2"}
       ELSE {}

Tasks(sphere) ==
  Early(sphere) \cup {"CONS2PRIM", "CLEAR_ALLBND", "ADD_FLX_CONS", "IMPLICIT_CORR",
                      "UPDATE_ALLCONS"}

LEMMA WhenTyped ==
  ASSUME NEW S, NEW c \in BOOLEAN, NEW s \in Seq(S)
  PROVE  When(c, s) \in Seq(S)
BY DEF When

LEMMA Concatenated ==
  ASSUME NEW S, NEW s \in Seq(S), NEW t \in Seq(S)
  PROVE  s \o t \in Seq(S)
BY ConcatProperties

\* All of N are in s.
Has(s, N) == \A n \in N : \E i \in 1 .. Len(s) : s[i] = n

\* Those of Y are before x.
Ordered(s, x, Y) == \A i, j \in 1 .. Len(s) : s[i] = x /\ s[j] \in Y => j < i

LEMMA HasBoth ==
  ASSUME NEW S, NEW s \in Seq(S), NEW t \in Seq(S), NEW N, NEW M, Has(s, N), Has(t, M)
  PROVE  Has(s \o t, N \cup M)
<1> DEFINE k == Len(s)
           n == Len(t)
<1>1. k \in Nat /\ n \in Nat BY LenProperties
<1>2. Len(s \o t) = k + n /\
      \A i \in 1 .. k + n : (s \o t)[i] = IF i <= k THEN s[i] ELSE t[i - k]
  BY ConcatProperties, Zenon
<1> HIDE DEF k, n
<1>3. ASSUME NEW x \in N PROVE \E i \in 1 .. Len(s \o t) : (s \o t)[i] = x
  <2>1. PICK i \in 1 .. k : s[i] = x BY DEF Has, k
  <2>2. i \in 1 .. k + n /\ i <= k BY <1>1
  <2>3. QED BY <1>2, <2>1, <2>2
<1>4. ASSUME NEW x \in M PROVE \E i \in 1 .. Len(s \o t) : (s \o t)[i] = x
  <2>1. PICK i \in 1 .. n : t[i] = x BY DEF Has, n
  <2>2. k + i \in 1 .. k + n /\ ~ (k + i <= k) /\ (k + i) - k = i BY <1>1
  <2>3. (s \o t)[k + i] = t[(k + i) - k] BY <1>2, <2>2, Zenon
  <2>4. QED BY <1>2, <2>1, <2>2, <2>3
<1>5. QED BY <1>3, <1>4 DEF Has

LEMMA OrderedBoth ==
  ASSUME NEW S, NEW s \in Seq(S), NEW t \in Seq(S), NEW x, NEW Y,
         Ordered(s, x, Y), Ordered(t, x, Y),
         \/ \A i \in 1 .. Len(s) : s[i] # x
         \/ \A i \in 1 .. Len(t) : t[i] \notin Y
  PROVE  Ordered(s \o t, x, Y)
<1> DEFINE k == Len(s)
           n == Len(t)
<1>1. k \in Nat /\ n \in Nat BY LenProperties
<1>2. Len(s \o t) = k + n /\
      \A i \in 1 .. k + n : (s \o t)[i] = IF i <= k THEN s[i] ELSE t[i - k]
  BY ConcatProperties, Zenon
<1>3. \A i, j \in 1 .. k : s[i] = x /\ s[j] \in Y => j < i BY DEF Ordered
<1>4. \A i, j \in 1 .. n : t[i] = x /\ t[j] \in Y => j < i BY DEF Ordered
<1>5. (\A i \in 1 .. k : s[i] # x) \/ (\A i \in 1 .. n : t[i] \notin Y) OBVIOUS
<1> HIDE DEF k, n
<1>6. ASSUME NEW i \in 1 .. k + n, NEW j \in 1 .. k + n,
             (s \o t)[i] = x, (s \o t)[j] \in Y
      PROVE  j < i
  <2>1. CASE i <= k /\ j <= k
    <3>1. i \in 1 .. k /\ j \in 1 .. k BY <1>1, <2>1
    <3>2. s[i] = x /\ s[j] \in Y BY <1>2, <1>6, <2>1
    <3>3. QED BY <1>3, <3>1, <3>2
  <2>2. CASE i <= k /\ ~ (j <= k)
    <3>1. i \in 1 .. k /\ j - k \in 1 .. n BY <1>1, <2>2
    <3>2. s[i] = x /\ t[j - k] \in Y BY <1>2, <1>6, <2>2
    <3>3. QED BY <1>5, <3>1, <3>2
  <2>3. CASE ~ (i <= k) /\ j <= k BY <1>1, <2>3
  <2>4. CASE ~ (i <= k) /\ ~ (j <= k)
    <3>1. i - k \in 1 .. n /\ j - k \in 1 .. n BY <1>1, <2>4
    <3>2. t[i - k] = x /\ t[j - k] \in Y BY <1>2, <1>6, <2>4
    <3>3. j - k < i - k BY <1>4, <3>1, <3>2
    <3>4. QED BY <1>1, <3>3
  <2>5. QED BY <2>1, <2>2, <2>3, <2>4
<1>7. QED BY <1>2, <1>6 DEF Ordered

\* The tasks of the exchanges.
FirstExchange == {"SEND_HYD", "RECV_HYD", "SETB_HYD"}
SecondExchange == {"RESTART_RECV", "SEND_HYD2", "RECV_HYD2", "SETB_HYD2"}
FirstScalars == {"SEND_SCLR", "RECV_SCLR", "SETB_SCLR"}
SecondOfScalars == {"CLEAR_ALLBND2", "SEND_SCLR2", "RECV_SCLR2", "SETB_SCLR2"}
FirstSends == {"SEND_HYD", "SEND_SCLR"}

Exchanges(sphere, scalars) ==
  FirstExchange
  \cup (IF sphere THEN SecondExchange \cup {"CLEAR_ALLBND2"} ELSE {})
  \cup (IF scalars THEN FirstScalars \cup (IF sphere THEN SecondOfScalars ELSE {}) ELSE {})

LEMMA Lacks ==
  ASSUME NEW S, NEW s \in Seq(S), NEW x, NEW Y, x \notin S
  PROVE  Ordered(s, x, Y) /\ \A i \in 1 .. Len(s) : s[i] # x
<1>1. \A i \in 1 .. Len(s) : s[i] \in S BY ElementOfSeq
<1>2. QED BY <1>1 DEF Ordered

LEMMA LacksAll ==
  ASSUME NEW S, NEW s \in Seq(S), NEW x, NEW Y, S \cap Y = {}
  PROVE  Ordered(s, x, Y) /\ \A i \in 1 .. Len(s) : s[i] \notin Y
<1>1. \A i \in 1 .. Len(s) : s[i] \in S BY ElementOfSeq
<1>2. QED BY <1>1 DEF Ordered

(* The list is what is early, then the primitive variables, the last        *)
(* clearing of flags and the three tasks canoe adds.  Both exchanges are in *)
(* it, and what the first sends is sent before flags are cleared for the    *)
(* second.                                                                  *)
LEMMA ListShape ==
  ASSUME NEW sphere \in BOOLEAN, NEW scalars \in BOOLEAN
  PROVE  \E m \in Seq(Early(sphere)) :
           /\ ListOf[sphere][scalars] = (m \o <<"CONS2PRIM", "CLEAR_ALLBND">>) \o Added
           /\ Has(m, Exchanges(sphere, scalars))
           /\ Ordered(m, "CLEAR_ALLBND2", FirstSends)
<1> DEFINE S == Early(sphere)
           a == <<"CALC_HYDFLX">>
           b == When(scalars, <<"CALC_SCLRFLX">>)
           c == <<"INT_HYD", "SRC_TERM", "SEND_HYD", "RECV_HYD", "SETB_HYD">>
           d == When(~ scalars, <<"CLEAR_ALLBND2">>)
           e == When(sphere, d \o SecondHydro)
           f == <<"INT_SCLR", "SEND_SCLR", "RECV_SCLR", "SETB_SCLR">>
           g == When(sphere, SecondScalars)
           h == When(scalars, f \o g)
           m == a \o b \o c \o e \o h
<1>1. a \in Seq(S) /\ c \in Seq(S) /\ f \in Seq(S) BY DEF Early
<1>2. b \in Seq(S)
  <2>1. <<"CALC_SCLRFLX">> \in Seq(S) BY DEF Early
  <2>2. QED BY <2>1, WhenTyped
<1>3. e \in Seq(S)
  <2>1. CASE sphere
    <3>1. <<"CLEAR_ALLBND2">> \in Seq(S) /\ SecondHydro \in Seq(S)
      BY <2>1 DEF Early, SecondHydro
    <3>2. (~ scalars) \in BOOLEAN OBVIOUS
    <3>3. d \in Seq(S) BY <3>1, <3>2, WhenTyped
    <3>4. d \o SecondHydro \in Seq(S) BY <3>1, <3>3, Concatenated
    <3>5. QED BY <3>4, WhenTyped
  <2>2. CASE ~ sphere
    <3>1. e = <<>> BY <2>2 DEF When
    <3>2. QED BY <3>1, EmptySeq
  <2>3. QED BY <2>1, <2>2
<1>4. h \in Seq(S)
  <2>1. g \in Seq(S)
    <3>1. CASE sphere
      <4>1. SecondScalars \in Seq(S) BY <3>1 DEF Early, SecondScalars
      <4>2. QED BY <4>1, WhenTyped
    <3>2. CASE ~ sphere
      <4>1. g = <<>> BY <3>2 DEF When
      <4>2. QED BY <4>1, EmptySeq
    <3>3. QED BY <3>1, <3>2
  <2>2. f \o g \in Seq(S) BY <1>1, <2>1, Concatenated
  <2>3. QED BY <2>2, WhenTyped
<1>5. m \in Seq(S)
  <2> HIDE DEF S, a, b, c, e, h
  <2>1. a \o b \in Seq(S) BY <1>1, <1>2, Concatenated
  <2>2. a \o b \o c \in Seq(S) BY <1>1, <2>1, Concatenated
  <2>3. a \o b \o c \o e \in Seq(S) BY <1>3, <2>2, Concatenated
  <2>4. QED BY <1>4, <2>3, Concatenated
<1>6. ListOf[sphere][scalars] = AthenaList(sphere, scalars) \o Added BY DEF ListOf
<1>7. AthenaList(sphere, scalars) = m \o <<"CONS2PRIM", "CLEAR_ALLBND">>
  BY Zenon DEF AthenaList
<1>8. Has(m, Exchanges(sphere, scalars))
  <2> DEFINE Ne == IF sphere
                   THEN SecondExchange \cup IF scalars THEN {} ELSE {"CLEAR_ALLBND2"}
                   ELSE {}
             Nh == IF scalars
                   THEN FirstScalars \cup IF sphere THEN SecondOfScalars ELSE {}
                   ELSE {}
  <2>1. Has(a, {}) /\ Has(b, {}) BY DEF Has
  <2>2. Has(c, FirstExchange)
    <3>1. Len(c) = 5 /\ c[3] = "SEND_HYD" /\ c[4] = "RECV_HYD" /\ c[5] = "SETB_HYD"
      OBVIOUS
    <3> HIDE DEF c
    <3>2. QED BY <3>1 DEF Has, FirstExchange
  <2>3. Has(e, Ne)
    <3>1. CASE sphere
      <4>1. e = d \o SecondHydro BY <3>1 DEF When
      <4>2. Has(SecondHydro, SecondExchange) /\ SecondHydro \in Seq(S)
        <5>1. Len(SecondHydro) = 4 /\ SecondHydro[1] = "RESTART_RECV"
              /\ SecondHydro[2] = "SEND_HYD2" /\ SecondHydro[3] = "RECV_HYD2"
              /\ SecondHydro[4] = "SETB_HYD2"
          BY DEF SecondHydro
        <5>2. SecondHydro \in Seq(S) BY <3>1 DEF Early, SecondHydro
        <5>3. QED BY <5>1, <5>2 DEF Has, SecondExchange
      <4>3. Has(d, IF scalars THEN {} ELSE {"CLEAR_ALLBND2"}) /\ d \in Seq(S)
        <5>1. CASE scalars
          <6>1. d = <<>> BY <5>1 DEF When
          <6>2. QED BY <5>1, <6>1, EmptySeq DEF Has
        <5>2. CASE ~ scalars
          <6>1. d = <<"CLEAR_ALLBND2">> BY <5>2 DEF When
          <6> DEFINE one == <<"CLEAR_ALLBND2">>
          <6>4. Len(one) = 1 /\ one[1] = "CLEAR_ALLBND2" /\ one \in Seq(S)
            BY <3>1 DEF Early
          <6> HIDE DEF S
          <6>2. Len(d) = 1 /\ d[1] = "CLEAR_ALLBND2" /\ d \in Seq(S)
            BY <6>1, <6>4
          <6> HIDE DEF d
          <6>3. QED BY <5>2, <6>2 DEF Has
        <5>3. QED BY <5>1, <5>2
      <4> HIDE DEF d, S, e
      <4>4. Has(d \o SecondHydro,
                (IF scalars THEN {} ELSE {"CLEAR_ALLBND2"}) \cup SecondExchange)
        BY <4>2, <4>3, HasBoth
      <4>5. Ne = (IF scalars THEN {} ELSE {"CLEAR_ALLBND2"}) \cup SecondExchange
        BY <3>1
      <4>6. QED BY <4>1, <4>4, <4>5, Zenon
    <3>2. CASE ~ sphere BY <3>2 DEF Has
    <3>3. QED BY <3>1, <3>2
  <2>4. Has(h, Nh)
    <3>1. CASE scalars
      <4>1. h = f \o g BY <3>1 DEF When
      <4>2. Has(f, FirstScalars)
        <5>1. Len(f) = 4 /\ f[2] = "SEND_SCLR" /\ f[3] = "RECV_SCLR" /\ f[4] = "SETB_SCLR"
          OBVIOUS
        <5> HIDE DEF f
        <5>2. QED BY <5>1 DEF Has, FirstScalars
      <4>3. Has(g, IF sphere THEN SecondOfScalars ELSE {}) /\ g \in Seq(S)
        <5>1. CASE sphere
          <6>1. g = SecondScalars BY <5>1 DEF When
          <6>2. /\ Len(SecondScalars) = 4 /\ SecondScalars[1] = "CLEAR_ALLBND2"
                /\ SecondScalars[2] = "SEND_SCLR2" /\ SecondScalars[3] = "RECV_SCLR2"
                /\ SecondScalars[4] = "SETB_SCLR2" /\ SecondScalars \in Seq(S)
            BY <5>1 DEF Early, SecondScalars
          <6>3. Has(SecondScalars, SecondOfScalars) BY <6>2 DEF Has, SecondOfScalars
          <6>4. QED BY <5>1, <6>1, <6>2, <6>3, Zenon
        <5>2. CASE ~ sphere
          <6>1. g = <<>> BY <5>2 DEF When
          <6>2. QED BY <5>2, <6>1, EmptySeq DEF Has
        <5>3. QED BY <5>1, <5>2
      <4> HIDE DEF f, g, S, h
      <4>4. Has(f \o g, FirstScalars \cup IF sphere THEN SecondOfScalars ELSE {})
        BY <1>1, <4>2, <4>3, HasBoth
      <4>5. QED BY <3>1, <4>1, <4>4
    <3>2. CASE ~ scalars BY <3>2 DEF Has
    <3>3. QED BY <3>1, <3>2
  <2> HIDE DEF a, b, c, e, h, Ne, Nh, S
  <2>5. a \o b \in Seq(S) BY <1>1, <1>2, Concatenated
  <2>6. a \o b \o c \in Seq(S) BY <1>1, <2>5, Concatenated
  <2>7. a \o b \o c \o e \in Seq(S) BY <1>3, <2>6, Concatenated
  <2>8. Has(a \o b, {} \cup {}) BY <1>1, <1>2, <2>1, HasBoth
  <2>9. Has(a \o b \o c, ({} \cup {}) \cup FirstExchange)
    BY <1>1, <2>2, <2>5, <2>8, HasBoth
  <2>10. Has(a \o b \o c \o e, (({} \cup {}) \cup FirstExchange) \cup Ne)
    BY <1>3, <2>3, <2>6, <2>9, HasBoth
  <2>11. Has(m, ((({} \cup {}) \cup FirstExchange) \cup Ne) \cup Nh)
    BY <1>4, <2>4, <2>7, <2>10, HasBoth
  <2>12. Exchanges(sphere, scalars) \subseteq ((({} \cup {}) \cup FirstExchange) \cup Ne) \cup Nh
    BY DEF Exchanges, Ne, Nh, SecondOfScalars
  <2>13. QED BY <2>11, <2>12 DEF Has
<1>9. Ordered(m, "CLEAR_ALLBND2", FirstSends)
  <2> DEFINE x == "CLEAR_ALLBND2"
             F == Early(FALSE)
             G == Early(FALSE) \cup SecondExchange
  <2>1. x \notin F /\ x \notin G BY DEF Early, SecondExchange
  <2>2. a \in Seq(F) /\ b \in Seq(F) /\ c \in Seq(F)
    <3>1. a \in Seq(F) /\ c \in Seq(F) /\ <<"CALC_SCLRFLX">> \in Seq(F) BY DEF Early
    <3>2. QED BY <3>1, WhenTyped
  <2>3. a \o b \o c \in Seq(F)
    <3> HIDE DEF a, b, c, F
    <3>1. a \o b \in Seq(F) BY <2>2, Concatenated
    <3>2. QED BY <2>2, <3>1, Concatenated
  <2>4. Ordered(a \o b \o c, x, FirstSends) BY <2>1, <2>3, Lacks
  <2>5. Ordered(e, x, FirstSends) /\ \A i \in 1 .. Len(e) : e[i] \notin FirstSends
    <3> DEFINE E == SecondExchange \cup {x}
    <3>1. e \in Seq(E)
      <4>1. SecondHydro \in Seq(E) /\ <<x>> \in Seq(E) BY DEF SecondHydro, SecondExchange
      <4>2. (~ scalars) \in BOOLEAN OBVIOUS
      <4>3. d \in Seq(E) BY <4>1, <4>2, WhenTyped
      <4>4. d \o SecondHydro \in Seq(E) BY <4>1, <4>3, Concatenated
      <4>5. QED BY <4>4, WhenTyped
    <3>2. E \cap FirstSends = {} BY DEF SecondExchange, FirstSends
    <3> HIDE DEF E, e
    <3>3. QED BY <3>1, <3>2, LacksAll
  <2>6. a \o b \o c \o e \in Seq(S) /\ a \o b \o c \in Seq(S)
    <3> HIDE DEF a, b, c, e, S
    <3>1. a \o b \in Seq(S) BY <1>1, <1>2, Concatenated
    <3>2. a \o b \o c \in Seq(S) BY <1>1, <3>1, Concatenated
    <3>3. QED BY <1>3, <3>2, Concatenated
  <2>7. Ordered(a \o b \o c \o e, x, FirstSends)
    <3> HIDE DEF a, b, c, e, S, x
    <3>1. QED BY <1>3, <2>4, <2>5, <2>6, OrderedBoth
  <2>8. ASSUME scalars PROVE Ordered(m, x, FirstSends)
    <3>1. h = f \o g BY <2>8 DEF When
    <3>2. Ordered(f, x, FirstSends) /\ f \in Seq(F)
      <4>1. f \in Seq(F) BY DEF Early
      <4> HIDE DEF f
      <4>2. QED BY <2>1, <4>1, Lacks
    <3>3. Ordered(g, x, FirstSends) /\ (\A i \in 1 .. Len(g) : g[i] \notin FirstSends)
          /\ g \in Seq(SecondOfScalars)
      <4>1. SecondScalars \in Seq(SecondOfScalars) BY DEF SecondScalars, SecondOfScalars
      <4>2. g \in Seq(SecondOfScalars) BY <4>1, WhenTyped
      <4>3. SecondOfScalars \cap FirstSends = {} BY DEF SecondOfScalars, FirstSends
      <4> HIDE DEF g
      <4>4. QED BY <4>2, <4>3, LacksAll
    <3>4. Ordered(h, x, FirstSends)
      <4> DEFINE U == F \cup SecondOfScalars
      <4>1. f \in Seq(U) /\ g \in Seq(U)
        <5>1. F \subseteq U /\ SecondOfScalars \subseteq U OBVIOUS
        <5> HIDE DEF U, F, f, g
        <5>2. QED BY <3>2, <3>3, <5>1, SeqMonotonic
      <4> HIDE DEF U, F, f, g, x, h
      <4>2. QED BY <3>1, <3>2, <3>3, <4>1, OrderedBoth
    <3>5. \A i \in 1 .. Len(a \o b \o c \o e) : (a \o b \o c \o e)[i] # x
      <4>1. e \in Seq(G)
        <5>1. d = <<>> BY <2>8 DEF When
        <5>2. SecondHydro \in Seq(G) BY DEF SecondHydro, SecondExchange
        <5>3. d \o SecondHydro \in Seq(G) BY <5>1, <5>2, EmptySeq, Concatenated
        <5>4. QED BY <5>3, WhenTyped
      <4>2. a \o b \o c \in Seq(G)
        <5>1. F \subseteq G OBVIOUS
        <5> HIDE DEF F, G, a, b, c
        <5>2. QED BY <2>3, <5>1, SeqMonotonic
      <4> HIDE DEF a, b, c, e, G, x
      <4>3. a \o b \o c \o e \in Seq(G) BY <4>1, <4>2, Concatenated
      <4>4. QED BY <2>1, <4>3, Lacks
    <3> HIDE DEF a, b, c, e, h, x, S
    <3>6. QED BY <1>4, <2>6, <2>7, <3>4, <3>5, OrderedBoth
  <2>9. ASSUME ~ scalars PROVE Ordered(m, x, FirstSends)
    <3>1. h = <<>> BY <2>9 DEF When
    <3>2. Ordered(h, x, FirstSends) /\ \A i \in 1 .. Len(h) : h[i] \notin FirstSends
      BY <3>1, EmptySeq DEF Ordered
    <3> HIDE DEF a, b, c, e, h, x, S
    <3>3. QED BY <1>4, <2>6, <2>7, <3>2, OrderedBoth
  <2>10. QED BY <2>8, <2>9
<1> HIDE DEF m, S
<1>10. QED BY <1>5, <1>6, <1>7, <1>8, <1>9, Zenon DEF S

(* The last task of the list ends the update, and flags are cleared for the *)
(* last time after everything is sent.                                      *)
LEMMA ListOrder ==
  ASSUME NEW sphere \in BOOLEAN, NEW scalars \in BOOLEAN
  PROVE  LET L == ListOf[sphere][scalars]
         IN  /\ L \in Seq(Tasks(sphere)) /\ Len(L) \in Nat /\ DOMAIN L = 1 .. Len(L)
             /\ \A i \in 1 .. Len(L) : L[i] = "UPDATE_ALLCONS" => i = Len(L)
             /\ \A i, j \in 1 .. Len(L) :
                  L[i] = "CLEAR_ALLBND" /\ L[j] \in Sending => j < i
             /\ Ordered(L, "CLEAR_ALLBND2", FirstSends)
             /\ Has(L, Exchanges(sphere, scalars) \cup {"CONS2PRIM", "CLEAR_ALLBND"})
<1>1. PICK m \in Seq(Early(sphere)) :
        /\ ListOf[sphere][scalars] = (m \o <<"CONS2PRIM", "CLEAR_ALLBND">>) \o Added
        /\ Has(m, Exchanges(sphere, scalars))
        /\ Ordered(m, "CLEAR_ALLBND2", FirstSends)
  BY ListShape
<1> DEFINE T == Tasks(sphere)
           two == <<"CONS2PRIM", "CLEAR_ALLBND">>
           k == Len(m)
           L == (m \o two) \o Added
<1>2. k \in Nat /\ \A i \in 1 .. k : m[i] \in Early(sphere) BY ElementOfSeq, LenProperties
<1>3. m \in Seq(T) BY SeqMonotonic DEF Tasks
<1>4. two \in Seq(T) /\ Len(two) = 2 /\ two[1] = "CONS2PRIM" /\ two[2] = "CLEAR_ALLBND"
  BY DEF Tasks
<1>5. Added \in Seq(T) /\ Len(Added) = 3
      /\ Added[1] = "ADD_FLX_CONS" /\ Added[2] = "IMPLICIT_CORR"
      /\ Added[3] = "UPDATE_ALLCONS"
  BY DEF Tasks, Added
<1> HIDE DEF T, two
<1>6. /\ m \o two \in Seq(T) /\ Len(m \o two) = k + 2
      /\ \A i \in 1 .. k + 2 : (m \o two)[i] = IF i <= k THEN m[i] ELSE two[i - k]
  <2>1. /\ m \o two \in Seq(T) /\ Len(m \o two) = Len(m) + Len(two)
        /\ \A i \in 1 .. Len(m) + Len(two) :
             (m \o two)[i] = IF i <= Len(m) THEN m[i] ELSE two[i - Len(m)]
    BY <1>3, <1>4, ConcatProperties, Zenon
  <2>2. QED BY <1>4, <2>1
<1>7. /\ L \in Seq(T) /\ Len(L) = k + 5
      /\ \A i \in 1 .. k + 5 :
           L[i] = IF i <= k + 2 THEN (m \o two)[i] ELSE Added[i - (k + 2)]
  <2>1. k + 2 \in Nat /\ (k + 2) + 3 = k + 5 BY <1>2
  <2>2. /\ L \in Seq(T) /\ Len(L) = Len(m \o two) + Len(Added)
        /\ \A i \in 1 .. Len(m \o two) + Len(Added) :
             L[i] = IF i <= Len(m \o two) THEN (m \o two)[i]
                    ELSE Added[i - Len(m \o two)]
    <3>1. m \o two \in Seq(T) /\ Added \in Seq(T) BY <1>5, <1>6
    <3>2. QED BY <3>1, ConcatProperties, Zenon
  <2>3. QED BY <1>5, <1>6, <2>1, <2>2
<1> HIDE DEF L, k
<1>m. ASSUME NEW i \in 1 .. k PROVE i \in 1 .. k + 5 /\ L[i] = m[i]
  <2>1. i \in 1 .. k + 5 /\ i <= k + 2 BY <1>2
  <2>2. L[i] = (m \o two)[i] BY <1>7, <2>1, Zenon
  <2>3. (m \o two)[i] = m[i] BY <1>6, <2>1
  <2>4. QED BY <2>1, <2>2, <2>3
<1>8. /\ \A i \in 1 .. k : L[i] \in Early(sphere)
      /\ L[k + 1] = "CONS2PRIM" /\ L[k + 2] = "CLEAR_ALLBND"
      /\ L[k + 3] = "ADD_FLX_CONS" /\ L[k + 4] = "IMPLICIT_CORR"
      /\ L[k + 5] = "UPDATE_ALLCONS"
  <2>1. \A i \in 1 .. k : L[i] = m[i] BY <1>m
  <2>2. (k + 1) - k = 1 /\ (k + 2) - k = 2 /\ (k + 3) - (k + 2) = 1
        /\ (k + 4) - (k + 2) = 2 /\ (k + 5) - (k + 2) = 3
    BY <1>2
  <2>3. L[k + 1] = two[1] /\ L[k + 2] = two[2]
    <3>1. k + 1 \in 1 .. k + 2 /\ k + 2 \in 1 .. k + 2 /\ ~ (k + 1 <= k) /\ ~ (k + 2 <= k)
          /\ k + 1 \in 1 .. k + 5 /\ k + 2 \in 1 .. k + 5 /\ k + 1 <= k + 2 /\ k + 2 <= k + 2
      BY <1>2
    <3>2. (m \o two)[k + 1] = two[(k + 1) - k] /\ (m \o two)[k + 2] = two[(k + 2) - k]
      BY <1>6, <3>1, Zenon
    <3>3. L[k + 1] = (m \o two)[k + 1] /\ L[k + 2] = (m \o two)[k + 2]
      BY <1>7, <3>1, Zenon
    <3>4. QED BY <2>2, <3>2, <3>3, Zenon
  <2>4. L[k + 3] = Added[1] /\ L[k + 4] = Added[2] /\ L[k + 5] = Added[3]
    <3>1. k + 3 \in 1 .. k + 5 /\ k + 4 \in 1 .. k + 5 /\ k + 5 \in 1 .. k + 5
          /\ ~ (k + 3 <= k + 2) /\ ~ (k + 4 <= k + 2) /\ ~ (k + 5 <= k + 2)
      BY <1>2
    <3>2. /\ L[k + 3] = Added[(k + 3) - (k + 2)]
          /\ L[k + 4] = Added[(k + 4) - (k + 2)]
          /\ L[k + 5] = Added[(k + 5) - (k + 2)]
      BY <1>7, <3>1, Zenon
    <3>3. QED BY <2>2, <3>2, Zenon
  <2>5. QED BY <1>2, <1>4, <1>5, <2>1, <2>3, <2>4
<1>9. \A t \in Early(sphere) : t # "UPDATE_ALLCONS" /\ t # "CLEAR_ALLBND" BY DEF Early
<1>10. \A i \in 1 .. k + 5 :
         i \in 1 .. k \/ i = k + 1 \/ i = k + 2 \/ i = k + 3 \/ i = k + 4 \/ i = k + 5
  BY <1>2
<1>11. \A i \in 1 .. k + 5 : L[i] = "UPDATE_ALLCONS" => i = k + 5
  BY <1>8, <1>9, <1>10
<1>12. \A i \in 1 .. k + 5 : L[i] = "CLEAR_ALLBND" => i = k + 2
  BY <1>8, <1>9, <1>10
<1>13. \A i \in 1 .. k + 5 : L[i] \in Sending => i \in 1 .. k
  BY <1>8, <1>10 DEF Sending
<1>14. \A i, j \in 1 .. k + 5 : L[i] = "CLEAR_ALLBND" /\ L[j] \in Sending => j < i
  BY <1>2, <1>12, <1>13
<1>15. k + 2 \in 1 .. k + 5 /\ k + 5 \in Nat BY <1>2
<1>16. DOMAIN L = 1 .. Len(L) BY <1>7
<1>17. Has(L, Exchanges(sphere, scalars) \cup {"CONS2PRIM", "CLEAR_ALLBND"})
  <2>1. \A i \in 1 .. k : i \in 1 .. k + 5 /\ L[i] = m[i] BY <1>m
  <2>2. k + 1 \in 1 .. k + 5 BY <1>2
  <2>3. ASSUME NEW n \in Exchanges(sphere, scalars) PROVE \E i \in 1 .. k + 5 : L[i] = n
    <3>1. PICK i \in 1 .. k : m[i] = n BY <1>1 DEF Has, k
    <3>2. QED BY <2>1, <3>1
  <2>4. QED BY <1>7, <1>8, <1>15, <2>2, <2>3 DEF Has
<1>18. Ordered(L, "CLEAR_ALLBND2", FirstSends)
  <2>1. \A i \in 1 .. k + 5 : L[i] = "CLEAR_ALLBND2" => i \in 1 .. k BY <1>8, <1>10
  <2>2. \A i \in 1 .. k + 5 : L[i] \in FirstSends => i \in 1 .. k
    BY <1>8, <1>10 DEF FirstSends
  <2>3. \A i, j \in 1 .. k : m[i] = "CLEAR_ALLBND2" /\ m[j] \in FirstSends => j < i
    BY <1>1 DEF Ordered, k
  <2>4. \A i \in 1 .. k : L[i] = m[i] BY <1>m
  <2>5. QED BY <1>7, <2>1, <2>2, <2>3, <2>4 DEF Ordered
<1>19. /\ L \in Seq(T) /\ Len(L) \in Nat /\ DOMAIN L = 1 .. Len(L)
       /\ \A i \in 1 .. Len(L) : L[i] = "UPDATE_ALLCONS" => i = Len(L)
       /\ \A i, j \in 1 .. Len(L) : L[i] = "CLEAR_ALLBND" /\ L[j] \in Sending => j < i
  BY <1>7, <1>11, <1>14, <1>15, <1>16
<1>20. ListOf[sphere][scalars] = L BY <1>1 DEF L, two
<1>21. QED BY <1>17, <1>18, <1>19, <1>20, Zenon DEF T


-----------------------------------------------------------------------------
(* The mesh and the program of a run.                                       *)
LEMMA Meshes ==
  ASSUME setup \in Setup
  PROVE  /\ Block \subseteq Nat /\ Block # {} /\ RankOf \in [Block -> Nat]
         /\ Link \subseteq Block \X Block
         /\ CubedSphere \in BOOLEAN /\ Scalars \in BOOLEAN
         /\ setup.stack \in [Block -> SUBSET Block]
BY StageAssumption DEF SetupType, Block, RankOf, Link, CubedSphere, Scalars

\* They stay what they are.
LEMMA Fixed ==
  ASSUME setup' = setup
  PROVE  /\ Block' = Block /\ RankOf' = RankOf /\ Link' = Link
         /\ CubedSphere' = CubedSphere /\ Scalars' = Scalars
         /\ Var' = Var /\ Rank' = Rank /\ List' = List /\ Task' = Task
         /\ \A t : Position(t)' = Position(t)
         /\ \A t : Dep(t)' = Dep(t)
<1>1. /\ Block' = Block /\ RankOf' = RankOf /\ Link' = Link
      /\ CubedSphere' = CubedSphere /\ Scalars' = Scalars
  BY DEF Block, RankOf, Link, CubedSphere, Scalars
<1>2. Var' = Var /\ Rank' = Rank /\ List' = List /\ Task' = Task
  BY <1>1 DEF Var, Rank, List, Task
<1>3. \A t : Position(t)' = Position(t) BY <1>1 DEF Position
<1>4. \A S : WithScalars(S)' = WithScalars(S) BY <1>1 DEF WithScalars
<1>5. \A t : AthenaDep(t)' = AthenaDep(t) BY <1>1, <1>4, Zenon DEF AthenaDep
<1>6. \A t : CanoeDep(t)' = CanoeDep(t) BY <1>1, <1>4, <1>5, Zenon DEF CanoeDep
<1>7. QED BY <1>1, <1>2, <1>3, <1>6, Zenon DEF Dep

\* What the list is of, and where its tasks are.
LEMMA Places ==
  ASSUME setup \in Setup
  PROVE  /\ Len(List) \in Nat
         /\ Task \subseteq Tasks(CubedSphere)
         /\ Exchanges(CubedSphere, Scalars) \cup {"CONS2PRIM", "CLEAR_ALLBND"} \subseteq Task
         /\ \A t \in Task : Position(t) \in 1 .. Len(List) /\ List[Position(t)] = t
         /\ "UPDATE_ALLCONS" \in Task => Position("UPDATE_ALLCONS") = Len(List)
         /\ \A t \in Task \cap Sending : Position(t) < Position("CLEAR_ALLBND")
         /\ "CLEAR_ALLBND2" \in Task =>
              \A t \in Task \cap FirstSends : Position(t) < Position("CLEAR_ALLBND2")
<1>1. CubedSphere \in BOOLEAN /\ Scalars \in BOOLEAN BY Meshes
<1>2. /\ List = ListOf[CubedSphere][Scalars] /\ Task = Range(List)
      /\ \A t : Position(t) = AntiFunction(List)[t]
  BY <1>1 DEF List, Task, Position, ListOf, TaskOf, PositionOf
<1>3. /\ List \in Seq(Tasks(CubedSphere)) /\ Len(List) \in Nat
      /\ DOMAIN List = 1 .. Len(List)
      /\ \A i \in 1 .. Len(List) : List[i] = "UPDATE_ALLCONS" => i = Len(List)
      /\ \A i, j \in 1 .. Len(List) :
           List[i] = "CLEAR_ALLBND" /\ List[j] \in Sending => j < i
      /\ \A i, j \in 1 .. Len(List) :
           List[i] = "CLEAR_ALLBND2" /\ List[j] \in FirstSends => j < i
      /\ \A n \in Exchanges(CubedSphere, Scalars) \cup {"CONS2PRIM", "CLEAR_ALLBND"} :
           \E i \in 1 .. Len(List) : List[i] = n
  <2>1. /\ List \in Seq(Tasks(CubedSphere)) /\ Len(List) \in Nat
        /\ DOMAIN List = 1 .. Len(List)
        /\ \A i \in 1 .. Len(List) : List[i] = "UPDATE_ALLCONS" => i = Len(List)
        /\ \A i, j \in 1 .. Len(List) :
             List[i] = "CLEAR_ALLBND" /\ List[j] \in Sending => j < i
        /\ Ordered(List, "CLEAR_ALLBND2", FirstSends)
        /\ Has(List, Exchanges(CubedSphere, Scalars) \cup {"CONS2PRIM", "CLEAR_ALLBND"})
    BY <1>1, <1>2, ListOrder
  <2>2. QED BY <2>1 DEF Ordered, Has
<1>4. \A t \in Task : \E i \in 1 .. Len(List) : List[i] = t BY <1>2, <1>3 DEF Range
<1>5. \A t \in Task : Position(t) \in 1 .. Len(List) /\ List[Position(t)] = t
  <2> TAKE t \in Task
  <2>1. Position(t) = CHOOSE i \in DOMAIN List : t \in Range(List) => List[i] = t
    BY <1>2 DEF AntiFunction, Inverse
  <2>2. QED BY <1>2, <1>3, <1>4, <2>1
<1>6. Task \subseteq Tasks(CubedSphere)
  <2>1. List \in Seq(Tasks(CubedSphere)) BY <1>3
  <2>2. \A i \in 1 .. Len(List) : List[i] \in Tasks(CubedSphere) BY <2>1, ElementOfSeq
  <2>3. QED BY <1>4, <2>2
<1>7. Exchanges(CubedSphere, Scalars) \cup {"CONS2PRIM", "CLEAR_ALLBND"} \subseteq Task
  BY <1>2, <1>3 DEF Range
<1>8. QED BY <1>3, <1>5, <1>6, <1>7

\* The dependencies the argument rests on.
LEMMA Waits ==
  /\ "CALC_HYDFLX" \in Dep("ADD_FLX_CONS")
  /\ "ADD_FLX_CONS" \in Dep("INT_HYD")
  /\ "CALC_SCLRFLX" \in Dep("INT_SCLR")
  /\ "INT_HYD" \in Dep("SRC_TERM")
  /\ Scalars => "INT_SCLR" \in Dep("SRC_TERM")
  /\ "SRC_TERM" \in Dep("IMPLICIT_CORR")
  /\ "IMPLICIT_CORR" \in Dep("UPDATE_ALLCONS")
  /\ Dep("SEND_HYD") = {"UPDATE_ALLCONS"} /\ Dep("SEND_SCLR") = {"UPDATE_ALLCONS"}
  /\ "UPDATE_ALLCONS" \in Dep("SETB_HYD")
  /\ "SETB_HYD" \in Dep("CLEAR_ALLBND2")
  /\ "CLEAR_ALLBND2" \in Dep("RESTART_RECV")
  /\ Dep("SEND_HYD2") = {"CLEAR_ALLBND2"} /\ Dep("SEND_SCLR2") = {"CLEAR_ALLBND2"}
  /\ "RESTART_RECV" \in Dep("RECV_HYD2")
  /\ "RECV_HYD2" \in Dep("SETB_HYD2")
  /\ IF CubedSphere THEN "SETB_HYD2" \in Dep("CONS2PRIM") ELSE "SETB_HYD" \in Dep("CONS2PRIM")
  /\ "CONS2PRIM" \in Dep("CLEAR_ALLBND")
BY DEF Dep, CanoeDep, AthenaDep, WithScalars


-----------------------------------------------------------------------------
(* The invariant.                                                           *)

\* Values of any kind.
Content == SUBSET (Part("hyd") \X Nat)
Message == [value : Content, fresh : BOOLEAN]

TypedState ==
  /\ setup \in Setup
  /\ stage \in [Block -> Nat]
  /\ done \in [Block -> SUBSET Task]
  /\ visit = [r \in Rank |-> visit[r]]
  /\ \A r \in Rank : visit[r].passed \in Nat

TypedFields ==
  /\ flux \in [Block -> [Var -> Content]]
  /\ du \in [Block -> Content]
  /\ u \in [Block -> [Var -> Content]]
  /\ sflag \in [Block -> SUBSET Var]
  /\ sendbuf \in [Block -> [Var -> Message]]

\* Parts computed in the stage b is in.
Of(P, b) == P \X {stage[b]}

Closed(b) == \A t \in done[b] : Dep(t) \subseteq done[b]

FluxesRight(b) ==
  /\ "CALC_HYDFLX" \in done[b] /\ "ADD_FLX_CONS" \notin done[b] =>
       flux[b]["hyd"] = Of({"flux"}, b)
  /\ "ADD_FLX_CONS" \in done[b] => flux[b]["hyd"] = Of({"flux", "radiation"}, b)
  /\ Scalars /\ "CALC_SCLRFLX" \in done[b] => flux[b]["sclr"] = Of({"flux"}, b)

IncrementRight(b) ==
  /\ "INT_HYD" \in done[b] /\ "SRC_TERM" \notin done[b] =>
       du[b] = Of({"flux", "radiation"}, b)
  /\ "SRC_TERM" \in done[b] /\ "IMPLICIT_CORR" \notin done[b] =>
       du[b] = Of({"flux", "radiation", "source"}, b)

ConservedRight(b) ==
  /\ "INT_HYD" \in done[b] /\ "IMPLICIT_CORR" \notin done[b] => u[b]["hyd"] = {}
  /\ "IMPLICIT_CORR" \in done[b] /\ "UPDATE_ALLCONS" \notin done[b] =>
       u[b]["hyd"] = Of({"flux", "radiation", "source", "implicit"}, b)
  /\ "UPDATE_ALLCONS" \in done[b] => u[b]["hyd"] = Whole("hyd", stage[b])
  /\ Scalars /\ "INT_SCLR" \in done[b] /\ "SRC_TERM" \notin done[b] =>
       u[b]["sclr"] = Of({"flux"}, b)
  /\ Scalars /\ "SRC_TERM" \in done[b] => u[b]["sclr"] = Whole("sclr", stage[b])

SentRight(b) ==
  \A v \in sflag[b] : /\ "UPDATE_ALLCONS" \in done[b]
                      /\ sendbuf[b][v].value = Whole(v, stage[b])

ClearedRight(b) ==
  "CLEAR_ALLBND" \in done[b] => sflag[b] = {} /\ Task \cap Sending \subseteq done[b]

\* A scan has not passed a send that could be made, unless it is at its end.
ScanRight(b) ==
  LET at == visit[RankOf[b]]
  IN  at.block = b =>
        \A t \in Task \cap Sending :
          t \notin done[b] /\ Position(t) <= at.passed =>
            at.passed = Len(List) \/ ~ (Dep(t) \subseteq done[b])

InStage(b) ==
  /\ Closed(b) /\ FluxesRight(b) /\ IncrementRight(b) /\ ConservedRight(b)
  /\ SentRight(b) /\ ClearedRight(b) /\ ScanRight(b)

\* Before the first stage.
Idle(b) ==
  done[b] = Task /\ sflag[b] = {} /\ \A v \in Var : u[b][v] = Whole(v, stage[b])

IInv == TypedState /\ TypedFields /\ \A b \in Block : Idle(b) \/ InStage(b)

-----------------------------------------------------------------------------
(* What a task leaves alone stays right.                                    *)

LEMMA WholeHydro ==
  ASSUME NEW s
  PROVE  Whole("hyd", s) =
           IF LastStage(s)
           THEN {"flux", "radiation", "source", "implicit", "update"} \X {s}
           ELSE {"flux", "radiation", "source", "implicit"} \X {s}
<1>1. Part("hyd") = {"flux", "radiation", "source", "implicit", "update"}
  BY DEF Part
<1>2. Part("hyd") \ {"update"} = {"flux", "radiation", "source", "implicit"}
  BY <1>1
<1>3. QED BY <1>1, <1>2, Zenon DEF Whole

LEMMA WholeScalars ==
  ASSUME NEW s
  PROVE  Whole("sclr", s) = {"flux", "source"} \X {s}
<1>1. Part("sclr") = {"flux", "source"} BY DEF Part
<1>2. Part("sclr") \ {"update"} = {"flux", "source"} BY <1>1
<1>3. QED BY <1>1, <1>2, Zenon DEF Whole

\* Finishing a task that could be executed.
LEMMA ClosedStays ==
  ASSUME NEW b, Closed(b), NEW t, Dep(t) \subseteq done[b],
         done'[b] = done[b] \cup {t}, setup' = setup
  PROVE  Closed(b)'
BY Fixed DEF Closed

LEMMA FluxesStay ==
  ASSUME NEW b, FluxesRight(b), NEW t,
         t \notin {"CALC_HYDFLX", "ADD_FLX_CONS", "CALC_SCLRFLX"},
         done'[b] = done[b] \cup {t}, flux'[b] = flux[b], stage'[b] = stage[b],
         setup' = setup
  PROVE  FluxesRight(b)'
BY Fixed DEF FluxesRight, Of

LEMMA IncrementStays ==
  ASSUME NEW b, IncrementRight(b), NEW t,
         t \notin {"INT_HYD", "SRC_TERM", "IMPLICIT_CORR"},
         done'[b] = done[b] \cup {t}, du'[b] = du[b], stage'[b] = stage[b]
  PROVE  IncrementRight(b)'
BY DEF IncrementRight, Of

LEMMA ConservedStays ==
  ASSUME NEW b, ConservedRight(b), NEW t,
         t \notin {"INT_HYD", "INT_SCLR", "SRC_TERM", "IMPLICIT_CORR", "UPDATE_ALLCONS"},
         done'[b] = done[b] \cup {t}, u'[b] = u[b], stage'[b] = stage[b],
         setup' = setup
  PROVE  ConservedRight(b)'
BY Fixed DEF ConservedRight, Of

LEMMA SentStays ==
  ASSUME NEW b, SentRight(b), done[b] \subseteq done'[b], sflag'[b] = sflag[b],
         sendbuf'[b] = sendbuf[b], stage'[b] = stage[b]
  PROVE  SentRight(b)'
BY DEF SentRight

LEMMA ClearedStays ==
  ASSUME NEW b, ClearedRight(b), NEW t, t # "CLEAR_ALLBND",
         done'[b] = done[b] \cup {t}, sflag'[b] = sflag[b], setup' = setup
  PROVE  ClearedRight(b)'
BY Fixed DEF ClearedRight

\* A scan that starts from the beginning, or of another block.
LEMMA ScanBegins ==
  ASSUME NEW b, setup \in Setup, setup' = setup,
         visit'[RankOf[b]].block # b \/ visit'[RankOf[b]].passed = 0
  PROVE  ScanRight(b)'
<1> DEFINE at == visit'[RankOf[b]]
<1> SUFFICES ASSUME at.block = b, NEW t \in Task \cap Sending, Position(t) <= at.passed
             PROVE  FALSE
  BY Fixed DEF ScanRight
<1>1. at.passed = 0 OBVIOUS
<1>2. Position(t) \in 1 .. Len(List) /\ Len(List) \in Nat BY Places
<1>3. QED BY <1>1, <1>2

LEMMA IdleStays ==
  ASSUME NEW b, Idle(b), setup' = setup, stage'[b] = stage[b], done'[b] = done[b],
         u'[b] = u[b], sflag'[b] = sflag[b]
  PROVE  Idle(b)'
BY Fixed DEF Idle

LEMMA OthersStay ==
  ASSUME NEW b, InStage(b), setup \in Setup, setup' = setup,
         stage'[b] = stage[b], done'[b] = done[b], flux'[b] = flux[b], du'[b] = du[b],
         u'[b] = u[b], sflag'[b] = sflag[b], sendbuf'[b] = sendbuf[b],
         \/ visit'[RankOf[b]] = visit[RankOf[b]]
         \/ visit'[RankOf[b]].block # b
         \/ visit'[RankOf[b]].passed = 0
  PROVE  InStage(b)'
<1>1. Closed(b)' BY Fixed DEF InStage, Closed
<1>2. FluxesRight(b)' BY Fixed DEF InStage, FluxesRight, Of
<1>3. IncrementRight(b)' BY DEF InStage, IncrementRight, Of
<1>4. ConservedRight(b)' BY Fixed DEF InStage, ConservedRight, Of
<1>5. SentRight(b)' BY SentStays DEF InStage
<1>6. ClearedRight(b)' BY Fixed DEF InStage, ClearedRight
<1>7. ScanRight(b)'
  <2>1. CASE visit'[RankOf[b]] = visit[RankOf[b]]
    BY <2>1, Fixed DEF InStage, ScanRight
  <2>2. CASE visit'[RankOf[b]].block # b \/ visit'[RankOf[b]].passed = 0
    BY <2>2, ScanBegins
  <2>3. QED BY <2>1, <2>2
<1>8. QED BY <1>1, <1>2, <1>3, <1>4, <1>5, <1>6, <1>7 DEF InStage


-----------------------------------------------------------------------------
(* A block that finishes a task is in a stage, and its scan is right.       *)
LEMMA ScanGoesOn ==
  ASSUME TypedState, NEW b \in Block, InStage(b), NEW t, Ready(b, t),
         Goes(b, t), setup' = setup, done'[b] = done[b] \cup {t},
         visit'[RankOf[b]] = Visit(b, Position(t))
  PROVE  ScanRight(b)'
<1> DEFINE at == visit[RankOf[b]]
<1>1. setup \in Setup BY DEF TypedState
<1>2. RankOf[b] \in Rank BY DEF Rank
<1>3. at.passed \in Nat /\ at.block = b /\ at.passed < Position(t)
  BY <1>2 DEF TypedState, Ready
<1>4. t \in Task \ done[b] /\ Position(t) \in 1 .. Len(List) /\ Len(List) \in Nat
      /\ List[Position(t)] = t
  BY <1>1, Places DEF Ready
<1>5. visit'[RankOf[b]].passed = Position(t) BY DEF Visit
<1> SUFFICES ASSUME NEW s \in Task \cap Sending, s \notin done'[b],
                    Position(s) <= Position(t), Position(t) # Len(List),
                    Dep(s) \subseteq done'[b]
             PROVE  FALSE
  BY <1>1, <1>5, Fixed DEF ScanRight
<1>6. Position(s) \in 1 .. Len(List) /\ List[Position(s)] = s BY <1>1, Places
<1>7. t # "UPDATE_ALLCONS" BY <1>1, <1>4, Places
<1>8. t # "CLEAR_ALLBND2" BY DEF Goes
<1>9. Dep(s) = {"UPDATE_ALLCONS"} \/ Dep(s) = {"CLEAR_ALLBND2"} BY Waits DEF Sending
<1>10. Dep(s) \subseteq done[b] BY <1>7, <1>8, <1>9
<1>11. Executable(b, s)
  <2>1. \A v \in Var : s \notin RecvTask(v) BY DEF Sending, RecvTask
  <2>2. QED BY <1>10, <2>1 DEF Executable
<1>12. CASE Position(s) <= at.passed
  <2>1. at.passed = Len(List) BY <1>3, <1>10, <1>12 DEF InStage, ScanRight
  <2>2. QED BY <1>3, <1>4, <2>1
<1>13. CASE at.passed < Position(s) /\ Position(s) < Position(t)
  <2>1. Position(s) \in at.passed + 1 .. Position(t) - 1 BY <1>3, <1>4, <1>6, <1>13
  <2>2. ~ Executable(b, List[Position(s)]) BY <2>1 DEF Ready
  <2>3. QED BY <1>6, <1>11, <2>2
<1>14. CASE Position(s) = Position(t) BY <1>4, <1>6, <1>14
<1>15. QED BY <1>3, <1>4, <1>6, <1>12, <1>13, <1>14

LEMMA Taken ==
  ASSUME IInv, NEW b \in Block, NEW t, Ready(b, t), Finish(b, t)
  PROVE  /\ setup' = setup /\ stage' = stage
         /\ InStage(b) /\ t \in Task /\ t \notin done[b] /\ Dep(t) \subseteq done[b]
         /\ done'[b] = done[b] \cup {t}
         /\ Closed(b)' /\ ScanRight(b)' /\ TypedState'
<1>1. setup' = setup /\ stage' = stage BY DEF Finish
<1>2. t \in Task /\ t \notin done[b] /\ Dep(t) \subseteq done[b]
  BY DEF Ready, Executable
<1>3. InStage(b) BY <1>2 DEF IInv, Idle
<1>4. /\ setup \in Setup /\ done \in [Block -> SUBSET Task]
      /\ visit = [r \in Rank |-> visit[r]] /\ \A r \in Rank : visit[r].passed \in Nat
  BY DEF IInv, TypedState
<1>5. done'[b] = done[b] \cup {t} BY <1>4 DEF Finish
<1>6. Closed(b)' BY <1>1, <1>2, <1>3, <1>5, ClosedStays DEF InStage
<1>7. RankOf[b] \in Rank BY DEF Rank
<1> DEFINE next == IF Goes(b, t) THEN Visit(b, Position(t)) ELSE Visit(After(b), 0)
<1>8. visit' = [visit EXCEPT ![RankOf[b]] = next] BY DEF Finish
<1>9. next.passed \in Nat
  <2>1. Position(t) \in Nat BY <1>2, <1>4, Places
  <2>2. QED BY <2>1 DEF Visit
<1>10. visit'[RankOf[b]] = next
  <2> HIDE DEF next
  <2>1. QED BY <1>4, <1>7, <1>8
<1>11. ScanRight(b)'
  <2>1. CASE Goes(b, t)
    BY <1>1, <1>3, <1>5, <1>10, <2>1, ScanGoesOn DEF IInv
  <2>2. CASE ~ Goes(b, t)
    <3>1. visit'[RankOf[b]].passed = 0 BY <1>10, <2>2 DEF Visit
    <3>2. QED BY <1>1, <1>4, <3>1, ScanBegins
  <2>3. QED BY <2>1, <2>2
<1>12. TypedState'
  <2> HIDE DEF next
  <2>1. done' \in [Block -> SUBSET Task] BY <1>2, <1>4 DEF Finish
  <2>2. visit' = [r \in Rank |-> visit'[r]] BY <1>4, <1>8
  <2>3. \A r \in Rank : visit'[r].passed \in Nat BY <1>4, <1>8, <1>9
  <2>4. stage \in [Block -> Nat] BY DEF IInv, TypedState
  <2>5. QED BY <1>1, <1>4, <2>1, <2>2, <2>3, <2>4, Fixed DEF TypedState
<1>13. QED BY <1>1, <1>2, <1>3, <1>5, <1>6, <1>11, <1>12

\* A step of block b keeps the invariant if it keeps that of block b.
LEMMA OneBlock ==
  ASSUME IInv, NEW b \in Block, NEW t, Ready(b, t), Finish(b, t), TypedFields',
         \A a \in Block \ {b} :
           /\ flux'[a] = flux[a] /\ du'[a] = du[a] /\ u'[a] = u[a]
           /\ sflag'[a] = sflag[a] /\ sendbuf'[a] = sendbuf[a],
         FluxesRight(b)', IncrementRight(b)', ConservedRight(b)',
         SentRight(b)', ClearedRight(b)'
  PROVE  IInv'
<1>1. /\ setup' = setup /\ stage' = stage /\ Closed(b)' /\ ScanRight(b)' /\ TypedState'
  BY Taken
<1>2. InStage(b)' BY <1>1 DEF InStage
<1>3. ASSUME NEW a \in Block, a # b PROVE Idle(a)' \/ InStage(a)'
  <2>1. done'[a] = done[a] BY <1>3 DEF IInv, TypedState, Finish
  <2>2. \/ visit'[RankOf[a]] = visit[RankOf[a]]
        \/ visit'[RankOf[a]].block # a
        \/ visit'[RankOf[a]].passed = 0
    <3>1. RankOf[a] \in Rank /\ RankOf[b] \in Rank BY DEF Rank
    <3>2. visit = [r \in Rank |-> visit[r]] BY DEF IInv, TypedState
    <3>3. CASE RankOf[a] = RankOf[b]
      <4>1. CASE Goes(b, t)
        <5>1. visit'[RankOf[a]] = Visit(b, Position(t))
          BY <3>1, <3>2, <3>3, <4>1 DEF Finish
        <5>2. QED BY <1>3, <5>1 DEF Visit
      <4>2. CASE ~ Goes(b, t)
        <5>1. visit'[RankOf[a]] = Visit(After(b), 0)
          BY <3>1, <3>2, <3>3, <4>2 DEF Finish
        <5>2. QED BY <5>1 DEF Visit
      <4>3. QED BY <4>1, <4>2
    <3>4. CASE RankOf[a] # RankOf[b] BY <3>1, <3>2, <3>4 DEF Finish
    <3>5. QED BY <3>3, <3>4
  <2>3. /\ flux'[a] = flux[a] /\ du'[a] = du[a] /\ u'[a] = u[a]
        /\ sflag'[a] = sflag[a] /\ sendbuf'[a] = sendbuf[a]
    BY <1>3
  <2>4. CASE Idle(a) BY <1>1, <2>1, <2>3, <2>4, IdleStays
  <2>5. CASE InStage(a)
    <3>1. setup \in Setup /\ stage'[a] = stage[a] BY <1>1 DEF IInv, TypedState
    <3>2. QED BY <1>1, <2>1, <2>2, <2>3, <2>5, <3>1, OthersStay
  <2>6. QED BY <2>4, <2>5 DEF IInv
<1>4. Block' = Block BY <1>1, Fixed
<1>5. QED BY <1>1, <1>2, <1>3, <1>4 DEF IInv


-----------------------------------------------------------------------------
(* The tasks.                                                               *)
LEMMA ComputedIs ==
  ASSUME NEW part, NEW b
  PROVE  Computed(part, b) = Of({part}, b)
BY DEF Computed, Of

LEMMA OfTyped ==
  ASSUME NEW P \in SUBSET Part("hyd"), NEW b \in Block, TypedState
  PROVE  Of(P, b) \in Content
BY DEF Of, Content, TypedState

LEMMA PartsOfHydro ==
  Part("hyd") = {"flux", "radiation", "source", "implicit", "update"}
BY DEF Part

LEMMA HydroFluxKeeps ==
  ASSUME IInv, NEW b \in Block, CalculateHydroFlux(b)
  PROVE  IInv'
<1> DEFINE t == "CALC_HYDFLX"
<1>1. Ready(b, t) /\ Finish(b, t) BY DEF CalculateHydroFlux
<1>2. /\ setup' = setup /\ stage' = stage /\ InStage(b) /\ t \notin done[b]
      /\ done'[b] = done[b] \cup {t}
  BY <1>1, Taken
<1>3. TypedState /\ TypedFields BY DEF IInv
<1>4. /\ flux' = [flux EXCEPT ![b]["hyd"] = Of({"flux"}, b)]
      /\ UNCHANGED <<du, u, sflag, sendbuf>>
  BY ComputedIs DEF CalculateHydroFlux, sends
<1>5. Var' = Var /\ Block' = Block /\ Scalars' = Scalars BY <1>2, Fixed
<1>6. "hyd" \in Var BY DEF Var
<1>7. TypedFields'
  <2>1. Of({"flux"}, b) \in Content BY <1>3, PartsOfHydro, OfTyped
  <2>2. flux' \in [Block -> [Var -> Content]]
    <3> HIDE DEF Content
    <3>1. QED BY <1>3, <1>4, <1>6, <2>1 DEF TypedFields
  <2>3. QED BY <1>3, <1>4, <1>5, <2>2 DEF TypedFields
<1>8. /\ flux'[b]["hyd"] = Of({"flux"}, b)
      /\ \A v \in Var \ {"hyd"} : flux'[b][v] = flux[b][v]
      /\ \A a \in Block \ {b} : flux'[a] = flux[a]
  BY <1>3, <1>4, <1>6 DEF TypedFields
<1>9. FluxesRight(b)'
  <2>1. "ADD_FLX_CONS" \notin done[b] BY <1>2, Waits DEF InStage, Closed
  <2>2. Of({"flux"}, b)' = Of({"flux"}, b) BY <1>2 DEF Of
  <2>3. Scalars => "sclr" \in Var \ {"hyd"} BY DEF Var
  <2>4. QED BY <1>2, <1>5, <1>8, <2>1, <2>2, <2>3 DEF InStage, FluxesRight
<1>10. IncrementRight(b)' BY <1>2, <1>4, IncrementStays DEF InStage
<1>11. ConservedRight(b)' BY <1>2, <1>4, ConservedStays DEF InStage
<1>12. SentRight(b)' BY <1>2, <1>4, SentStays DEF InStage
<1>13. ClearedRight(b)' BY <1>2, <1>4, ClearedStays DEF InStage
<1>14. QED
  BY <1>1, <1>4, <1>7, <1>8, <1>9, <1>10, <1>11, <1>12, <1>13, OneBlock

LEMMA ScalarFluxKeeps ==
  ASSUME IInv, NEW b \in Block, CalculateScalarFlux(b)
  PROVE  IInv'
<1> DEFINE t == "CALC_SCLRFLX"
<1>1. Ready(b, t) /\ Finish(b, t) BY DEF CalculateScalarFlux
<1>2. /\ setup' = setup /\ stage' = stage /\ InStage(b) /\ t \notin done[b]
      /\ done'[b] = done[b] \cup {t}
  BY <1>1, Taken
<1>3. TypedState /\ TypedFields BY DEF IInv
<1>4. /\ flux' = [flux EXCEPT ![b]["sclr"] = Of({"flux"}, b)]
      /\ UNCHANGED <<du, u, sflag, sendbuf>>
  BY ComputedIs DEF CalculateScalarFlux, sends
<1>5. Var' = Var /\ Block' = Block /\ Scalars' = Scalars BY <1>2, Fixed
<1>6. "hyd" \in Var /\ (Scalars => "sclr" \in Var) BY DEF Var
<1>7. TypedFields'
  <2>1. Of({"flux"}, b) \in Content BY <1>3, PartsOfHydro, OfTyped
  <2>2. flux' \in [Block -> [Var -> Content]]
    <3> HIDE DEF Content
    <3>1. QED BY <1>3, <1>4, <2>1 DEF TypedFields
  <2>3. QED BY <1>3, <1>4, <1>5, <2>2 DEF TypedFields
<1>8. /\ Scalars => flux'[b]["sclr"] = Of({"flux"}, b)
      /\ flux'[b]["hyd"] = flux[b]["hyd"]
      /\ \A a \in Block \ {b} : flux'[a] = flux[a]
  BY <1>3, <1>4, <1>6 DEF TypedFields
<1>9. FluxesRight(b)'
  <2>1. \A P : Of(P, b)' = Of(P, b) BY <1>2 DEF Of
  <2>2. QED BY <1>2, <1>5, <1>8, <2>1 DEF InStage, FluxesRight
<1>10. IncrementRight(b)' BY <1>2, <1>4, IncrementStays DEF InStage
<1>11. ConservedRight(b)' BY <1>2, <1>4, ConservedStays DEF InStage
<1>12. SentRight(b)' BY <1>2, <1>4, SentStays DEF InStage
<1>13. ClearedRight(b)' BY <1>2, <1>4, ClearedStays DEF InStage
<1>14. QED
  BY <1>1, <1>4, <1>7, <1>8, <1>9, <1>10, <1>11, <1>12, <1>13, OneBlock

LEMMA AddFluxKeeps ==
  ASSUME IInv, NEW b \in Block, AddFluxToConserved(b)
  PROVE  IInv'
<1> DEFINE t == "ADD_FLX_CONS"
           both == {"flux", "radiation"}
<1>1. Ready(b, t) /\ Finish(b, t) BY DEF AddFluxToConserved
<1>2. /\ setup' = setup /\ stage' = stage /\ InStage(b) /\ t \notin done[b]
      /\ Dep(t) \subseteq done[b] /\ done'[b] = done[b] \cup {t}
  BY <1>1, Taken
<1>3. TypedState /\ TypedFields BY DEF IInv
<1>4. flux[b]["hyd"] \cup Computed("radiation", b) = Of(both, b)
  <2>1. flux[b]["hyd"] = Of({"flux"}, b) BY <1>2, Waits DEF InStage, FluxesRight
  <2>2. {"flux"} \cup {"radiation"} = both OBVIOUS
  <2>3. Of({"flux"}, b) \cup Computed("radiation", b) = Of({"flux"} \cup {"radiation"}, b)
    BY DEF Of, Computed
  <2>4. QED BY <2>1, <2>2, <2>3
<1>5. Var' = Var /\ Block' = Block /\ Scalars' = Scalars BY <1>2, Fixed
<1>6. "hyd" \in Var BY DEF Var
<1>7. /\ flux' = [flux EXCEPT ![b]["hyd"] = flux[b]["hyd"] \cup Computed("radiation", b)]
      /\ UNCHANGED <<du, u, sflag, sendbuf>>
  BY DEF AddFluxToConserved, sends
<1>8. TypedFields'
  <2>1. Of(both, b) \in Content BY <1>3, PartsOfHydro, OfTyped
  <2>2. flux' \in [Block -> [Var -> Content]]
    <3> HIDE DEF Content
    <3>1. QED BY <1>3, <1>4, <1>6, <1>7, <2>1 DEF TypedFields
  <2>3. QED BY <1>3, <1>5, <1>7, <2>2 DEF TypedFields
<1>9. /\ flux'[b]["hyd"] = Of(both, b)
      /\ \A v \in Var \ {"hyd"} : flux'[b][v] = flux[b][v]
      /\ \A a \in Block \ {b} : flux'[a] = flux[a]
  BY <1>3, <1>4, <1>6, <1>7 DEF TypedFields
<1>10. FluxesRight(b)'
  <2>1. \A P : Of(P, b)' = Of(P, b) BY <1>2 DEF Of
  <2>2. Scalars => "sclr" \in Var \ {"hyd"} BY DEF Var
  <2>3. QED BY <1>2, <1>5, <1>9, <2>1, <2>2 DEF InStage, FluxesRight
<1>11. IncrementRight(b)' BY <1>2, <1>7, IncrementStays DEF InStage
<1>12. ConservedRight(b)' BY <1>2, <1>7, ConservedStays DEF InStage
<1>13. SentRight(b)' BY <1>2, <1>7, SentStays DEF InStage
<1>14. ClearedRight(b)' BY <1>2, <1>7, ClearedStays DEF InStage
<1>15. QED
  BY <1>1, <1>7, <1>8, <1>9, <1>10, <1>11, <1>12, <1>13, <1>14, OneBlock


\* What has been done when a task has.
LEMMA Chain ==
  ASSUME NEW b, Closed(b)
  PROVE  /\ "ADD_FLX_CONS" \in done[b] => "CALC_HYDFLX" \in done[b]
         /\ "INT_HYD" \in done[b] => "ADD_FLX_CONS" \in done[b]
         /\ "INT_SCLR" \in done[b] => "CALC_SCLRFLX" \in done[b]
         /\ "SRC_TERM" \in done[b] => "INT_HYD" \in done[b]
         /\ Scalars /\ "SRC_TERM" \in done[b] => "INT_SCLR" \in done[b]
         /\ "IMPLICIT_CORR" \in done[b] => "SRC_TERM" \in done[b]
         /\ "UPDATE_ALLCONS" \in done[b] => "IMPLICIT_CORR" \in done[b]
         /\ "CLEAR_ALLBND2" \in done[b] => "UPDATE_ALLCONS" \in done[b]
         /\ "CONS2PRIM" \in done[b] =>
              /\ "UPDATE_ALLCONS" \in done[b]
              /\ CubedSphere => "CLEAR_ALLBND2" \in done[b]
BY Waits DEF Closed

LEMMA IntegrateHydroKeeps ==
  ASSUME IInv, NEW b \in Block, IntegrateHydro(b)
  PROVE  IInv'
<1> DEFINE t == "INT_HYD"
<1>1. Ready(b, t) /\ Finish(b, t) BY DEF IntegrateHydro
<1>2. /\ setup' = setup /\ stage' = stage /\ InStage(b) /\ t \notin done[b]
      /\ Dep(t) \subseteq done[b] /\ done'[b] = done[b] \cup {t}
  BY <1>1, Taken
<1>3. TypedState /\ TypedFields BY DEF IInv
<1>4. /\ "ADD_FLX_CONS" \in done[b] /\ "SRC_TERM" \notin done[b]
      /\ "IMPLICIT_CORR" \notin done[b] /\ "UPDATE_ALLCONS" \notin done[b]
  BY <1>2, Waits, Chain DEF InStage
<1>5. Var' = Var /\ Block' = Block /\ Scalars' = Scalars BY <1>2, Fixed
<1>6. "hyd" \in Var /\ (Scalars => "sclr" \in Var) BY DEF Var
<1>7. /\ u' = [u EXCEPT ![b]["hyd"] = {}]
      /\ du' = [du EXCEPT ![b] = flux[b]["hyd"]]
      /\ UNCHANGED <<flux, sflag, sendbuf>>
  BY DEF IntegrateHydro, sends
<1>8. TypedFields'
  <2> HIDE DEF t
  <2>1. {} \in Content BY DEF Content
  <2>2. u' \in [Block -> [Var -> Content]] BY <1>3, <1>7, <2>1 DEF TypedFields
  <2>3. flux[b]["hyd"] \in Content BY <1>3, <1>6 DEF TypedFields
  <2>4. du' \in [Block -> Content] BY <1>3, <1>7, <2>3 DEF TypedFields
  <2>5. QED BY <1>3, <1>5, <1>7, <2>2, <2>4 DEF TypedFields
<1>9. /\ u'[b]["hyd"] = {} /\ du'[b] = flux[b]["hyd"]
      /\ \A v \in Var \ {"hyd"} : u'[b][v] = u[b][v]
      /\ \A a \in Block \ {b} : u'[a] = u[a] /\ du'[a] = du[a]
  BY <1>3, <1>6, <1>7 DEF TypedFields
<1>10. FluxesRight(b)' BY <1>2, <1>7, FluxesStay DEF InStage
<1>11. \A P : Of(P, b)' = Of(P, b) BY <1>2 DEF Of
<1>12. IncrementRight(b)'
  <2>1. du'[b] = Of({"flux", "radiation"}, b)
    BY <1>2, <1>4, <1>9 DEF InStage, FluxesRight
  <2>2. QED BY <1>2, <1>4, <1>11, <2>1 DEF IncrementRight
<1>13. ConservedRight(b)'
  <2>1. Scalars => u'[b]["sclr"] = u[b]["sclr"]
    <3>1. Scalars => "sclr" \in Var \ {"hyd"} BY <1>6
    <3>2. QED BY <1>9, <3>1
  <2>2. QED BY <1>2, <1>4, <1>5, <1>9, <1>11, <2>1 DEF InStage, ConservedRight
<1>14. SentRight(b)' BY <1>2, <1>7, SentStays DEF InStage
<1>15. ClearedRight(b)' BY <1>2, <1>7, ClearedStays DEF InStage
<1>16. QED
  BY <1>1, <1>7, <1>8, <1>9, <1>10, <1>12, <1>13, <1>14, <1>15, OneBlock

LEMMA IntegrateScalarsKeeps ==
  ASSUME IInv, NEW b \in Block, IntegrateScalars(b)
  PROVE  IInv'
<1> DEFINE t == "INT_SCLR"
<1>1. Ready(b, t) /\ Finish(b, t) BY DEF IntegrateScalars
<1>2. /\ setup' = setup /\ stage' = stage /\ InStage(b) /\ t \notin done[b]
      /\ Dep(t) \subseteq done[b] /\ done'[b] = done[b] \cup {t}
  BY <1>1, Taken
<1>3. TypedState /\ TypedFields BY DEF IInv
<1>4. "CALC_SCLRFLX" \in done[b] /\ (Scalars => "SRC_TERM" \notin done[b])
  BY <1>2, Waits, Chain DEF InStage
<1>5. Var' = Var /\ Block' = Block /\ Scalars' = Scalars BY <1>2, Fixed
<1>6. "hyd" \in Var /\ (Scalars <=> "sclr" \in Var) BY DEF Var
<1>7. /\ u' = [u EXCEPT ![b]["sclr"] = flux[b]["sclr"]]
      /\ UNCHANGED <<flux, du, sflag, sendbuf>>
  BY DEF IntegrateScalars, sends
<1>8. TypedFields'
  <2> HIDE DEF t
  <2>1. u' \in [Block -> [Var -> Content]]
    <3>1. CASE Scalars
      <4>1. flux[b]["sclr"] \in Content BY <1>3, <1>6, <3>1 DEF TypedFields
      <4>2. QED BY <1>3, <1>7, <4>1 DEF TypedFields
    <3>2. CASE ~ Scalars
      <4>1. u \in [Block -> [Var -> Content]] BY <1>3 DEF TypedFields
      <4>2. u[b] \in [Var -> Content] /\ "sclr" \notin Var BY <1>6, <3>2, <4>1
      <4>3. [u[b] EXCEPT !["sclr"] = flux[b]["sclr"]] \in [Var -> Content] BY <4>2
      <4>4. QED BY <1>7, <4>1, <4>3
    <3>3. QED BY <3>1, <3>2
  <2>2. QED BY <1>3, <1>5, <1>7, <2>1 DEF TypedFields
<1>9. /\ Scalars => u'[b]["sclr"] = flux[b]["sclr"]
      /\ u'[b]["hyd"] = u[b]["hyd"]
      /\ \A a \in Block \ {b} : u'[a] = u[a]
  BY <1>3, <1>6, <1>7 DEF TypedFields
<1>10. FluxesRight(b)' BY <1>2, <1>7, FluxesStay DEF InStage
<1>11. \A P : Of(P, b)' = Of(P, b) BY <1>2 DEF Of
<1>12. IncrementRight(b)' BY <1>2, <1>7, IncrementStays DEF InStage
<1>13. ConservedRight(b)'
  <2>1. Scalars => u'[b]["sclr"] = Of({"flux"}, b)
    BY <1>2, <1>4, <1>9 DEF InStage, FluxesRight
  <2>2. QED BY <1>2, <1>4, <1>5, <1>9, <1>11, <2>1 DEF InStage, ConservedRight
<1>14. SentRight(b)' BY <1>2, <1>7, SentStays DEF InStage
<1>15. ClearedRight(b)' BY <1>2, <1>7, ClearedStays DEF InStage
<1>16. QED
  BY <1>1, <1>7, <1>8, <1>9, <1>10, <1>12, <1>13, <1>14, <1>15, OneBlock


LEMMA SourceTermsKeep ==
  ASSUME IInv, NEW b \in Block, AddSourceTerms(b)
  PROVE  IInv'
<1> DEFINE t == "SRC_TERM"
           three == {"flux", "radiation", "source"}
<1>1. Ready(b, t) /\ Finish(b, t) BY DEF AddSourceTerms
<1>2. /\ setup' = setup /\ stage' = stage /\ InStage(b) /\ t \notin done[b]
      /\ Dep(t) \subseteq done[b] /\ done'[b] = done[b] \cup {t}
  BY <1>1, Taken
<1>3. TypedState /\ TypedFields BY DEF IInv
<1>4. /\ "INT_HYD" \in done[b] /\ (Scalars => "INT_SCLR" \in done[b])
      /\ "IMPLICIT_CORR" \notin done[b] /\ "UPDATE_ALLCONS" \notin done[b]
  BY <1>2, Waits, Chain DEF InStage
<1>5. Var' = Var /\ Block' = Block /\ Scalars' = Scalars BY <1>2, Fixed
<1>6. "hyd" \in Var /\ (Scalars => "sclr" \in Var) BY DEF Var
<1>7. /\ du' = [du EXCEPT ![b] = du[b] \cup Computed("source", b)]
      /\ Scalars => u' = [u EXCEPT ![b]["sclr"] = u[b]["sclr"] \cup Computed("source", b)]
      /\ ~ Scalars => u' = u
      /\ UNCHANGED <<flux, sflag, sendbuf>>
  BY DEF AddSourceTerms, sends
<1>8. du[b] \cup Computed("source", b) = Of(three, b)
  <2>1. du[b] = Of({"flux", "radiation"}, b) BY <1>2, <1>4 DEF InStage, IncrementRight
  <2>2. {"flux", "radiation"} \cup {"source"} = three OBVIOUS
  <2>3. Of({"flux", "radiation"}, b) \cup Computed("source", b)
          = Of({"flux", "radiation"} \cup {"source"}, b)
    BY DEF Of, Computed
  <2>4. QED BY <2>1, <2>2, <2>3
<1>9. Scalars => u[b]["sclr"] \cup Computed("source", b) = Of({"flux", "source"}, b)
  <2>1. Scalars => u[b]["sclr"] = Of({"flux"}, b)
    BY <1>2, <1>4 DEF InStage, ConservedRight
  <2>2. {"flux"} \cup {"source"} = {"flux", "source"} OBVIOUS
  <2>3. Of({"flux"}, b) \cup Computed("source", b) = Of({"flux"} \cup {"source"}, b)
    BY DEF Of, Computed
  <2>4. QED BY <2>1, <2>2, <2>3
<1>10. TypedFields'
  <2> HIDE DEF t
  <2>1. Of(three, b) \in Content /\ Of({"flux", "source"}, b) \in Content
    BY <1>3, PartsOfHydro, OfTyped
  <2> HIDE DEF three
  <2>2. du' \in [Block -> Content] BY <1>3, <1>7, <1>8, <2>1 DEF TypedFields
  <2>3. u' \in [Block -> [Var -> Content]]
    <3>1. CASE Scalars
      <4>1. u' = [u EXCEPT ![b]["sclr"] = Of({"flux", "source"}, b)]
        BY <1>7, <1>9, <3>1
      <4>2. QED BY <1>3, <2>1, <4>1 DEF TypedFields
    <3>2. CASE ~ Scalars BY <1>3, <1>7, <3>2 DEF TypedFields
    <3>3. QED BY <3>1, <3>2
  <2>4. QED BY <1>3, <1>5, <1>7, <2>2, <2>3 DEF TypedFields
<1>11. /\ du'[b] = Of(three, b) /\ u'[b]["hyd"] = u[b]["hyd"]
       /\ Scalars => u'[b]["sclr"] = Of({"flux", "source"}, b)
       /\ \A a \in Block \ {b} : u'[a] = u[a] /\ du'[a] = du[a]
  <2> HIDE DEF three
  <2>1. du'[b] = Of(three, b) /\ \A a \in Block \ {b} : du'[a] = du[a]
    BY <1>3, <1>7, <1>8 DEF TypedFields
  <2>2. CASE Scalars
    <3>1. u' = [u EXCEPT ![b]["sclr"] = Of({"flux", "source"}, b)]
      BY <1>7, <1>9, <2>2
    <3>2. QED BY <1>3, <1>6, <2>1, <2>2, <3>1 DEF TypedFields
  <2>3. CASE ~ Scalars BY <1>7, <2>1, <2>3
  <2>4. QED BY <2>2, <2>3
<1>12. \A P : Of(P, b)' = Of(P, b) BY <1>2 DEF Of
<1>13. FluxesRight(b)' BY <1>2, <1>7, FluxesStay DEF InStage
<1>14. IncrementRight(b)' BY <1>2, <1>4, <1>11, <1>12 DEF IncrementRight
<1>15. ConservedRight(b)'
  <2>1. Of({"flux", "source"}, b) = Whole("sclr", stage[b]) BY WholeScalars DEF Of
  <2>2. QED BY <1>2, <1>4, <1>5, <1>11, <1>12, <2>1 DEF InStage, ConservedRight
<1>16. SentRight(b)' BY <1>2, <1>7, SentStays DEF InStage
<1>17. ClearedRight(b)' BY <1>2, <1>7, ClearedStays DEF InStage
<1>18. QED
  BY <1>1, <1>7, <1>10, <1>11, <1>13, <1>14, <1>15, <1>16, <1>17, OneBlock

LEMMA ImplicitKeeps ==
  ASSUME IInv, NEW b \in Block, ImplicitCorrection(b)
  PROVE  IInv'
<1> DEFINE t == "IMPLICIT_CORR"
           four == {"flux", "radiation", "source", "implicit"}
<1>1. Ready(b, t) /\ Finish(b, t) BY DEF ImplicitCorrection
<1>2. /\ setup' = setup /\ stage' = stage /\ InStage(b) /\ t \notin done[b]
      /\ Dep(t) \subseteq done[b] /\ done'[b] = done[b] \cup {t}
  BY <1>1, Taken
<1>3. TypedState /\ TypedFields BY DEF IInv
<1>4. /\ "INT_HYD" \in done[b] /\ "SRC_TERM" \in done[b]
      /\ "UPDATE_ALLCONS" \notin done[b]
  BY <1>2, Waits, Chain DEF InStage
<1>5. Var' = Var /\ Block' = Block /\ Scalars' = Scalars BY <1>2, Fixed
<1>6. "hyd" \in Var BY DEF Var
<1>7. /\ du' = [du EXCEPT ![b] = du[b] \cup Computed("implicit", b)]
      /\ u' = [u EXCEPT ![b]["hyd"] = u[b]["hyd"] \cup du'[b]]
      /\ UNCHANGED <<flux, sflag, sendbuf>>
  BY DEF ImplicitCorrection, sends
<1>8. du'[b] = Of(four, b)
  <2>1. du[b] = Of({"flux", "radiation", "source"}, b)
    BY <1>2, <1>4 DEF InStage, IncrementRight
  <2>2. {"flux", "radiation", "source"} \cup {"implicit"} = four OBVIOUS
  <2>3. Of({"flux", "radiation", "source"}, b) \cup Computed("implicit", b)
          = Of({"flux", "radiation", "source"} \cup {"implicit"}, b)
    BY DEF Of, Computed
  <2>4. du'[b] = du[b] \cup Computed("implicit", b) BY <1>3, <1>7 DEF TypedFields
  <2>5. QED BY <2>1, <2>2, <2>3, <2>4
<1>9. u[b]["hyd"] \cup du'[b] = Of(four, b)
  <2>1. u[b]["hyd"] = {} BY <1>2, <1>4 DEF InStage, ConservedRight
  <2> HIDE DEF four
  <2>2. QED BY <1>8, <2>1
<1>10. Of(four, b) \in Content BY <1>3, PartsOfHydro, OfTyped
<1>11. TypedFields'
  <2> HIDE DEF t, four
  <2>1. du' \in [Block -> Content]
    <3>1. du' = [du EXCEPT ![b] = Of(four, b)] BY <1>3, <1>7, <1>8 DEF TypedFields
    <3>2. QED BY <1>3, <1>10, <3>1 DEF TypedFields
  <2>2. u' \in [Block -> [Var -> Content]]
    BY <1>3, <1>7, <1>9, <1>10 DEF TypedFields
  <2>3. QED BY <1>3, <1>5, <1>7, <2>1, <2>2 DEF TypedFields
<1>12. /\ u'[b]["hyd"] = Of(four, b)
       /\ \A v \in Var \ {"hyd"} : u'[b][v] = u[b][v]
       /\ \A a \in Block \ {b} : u'[a] = u[a] /\ du'[a] = du[a]
  <2> HIDE DEF four
  <2>1. QED BY <1>3, <1>6, <1>7, <1>9 DEF TypedFields
<1>13. \A P : Of(P, b)' = Of(P, b) BY <1>2 DEF Of
<1>14. FluxesRight(b)' BY <1>2, <1>7, FluxesStay DEF InStage
<1>15. IncrementRight(b)' BY <1>2, <1>4 DEF IncrementRight
<1>16. ConservedRight(b)'
  <2>1. Scalars => "sclr" \in Var \ {"hyd"} BY DEF Var
  <2>2. QED BY <1>2, <1>4, <1>5, <1>12, <1>13, <2>1 DEF InStage, ConservedRight
<1>17. SentRight(b)' BY <1>2, <1>7, SentStays DEF InStage
<1>18. ClearedRight(b)' BY <1>2, <1>7, ClearedStays DEF InStage
<1>19. QED
  BY <1>1, <1>7, <1>11, <1>12, <1>14, <1>15, <1>16, <1>17, <1>18, OneBlock

LEMMA UpdateKeeps ==
  ASSUME IInv, NEW b \in Block, UpdateAllConserved(b)
  PROVE  IInv'
<1> DEFINE t == "UPDATE_ALLCONS"
           four == {"flux", "radiation", "source", "implicit"}
           all == {"flux", "radiation", "source", "implicit", "update"}
           last == LastStage(stage[b])
<1>1. Ready(b, t) /\ Finish(b, t) BY DEF UpdateAllConserved
<1>2. /\ setup' = setup /\ stage' = stage /\ InStage(b) /\ t \notin done[b]
      /\ Dep(t) \subseteq done[b] /\ done'[b] = done[b] \cup {t}
  BY <1>1, Taken
<1>3. TypedState /\ TypedFields BY DEF IInv
<1>4. "IMPLICIT_CORR" \in done[b] BY <1>2, Waits
<1>5. Var' = Var /\ Block' = Block /\ Scalars' = Scalars BY <1>2, Fixed
<1>6. "hyd" \in Var BY DEF Var
<1>7. /\ last => u' = [u EXCEPT ![b]["hyd"] = u[b]["hyd"] \cup Computed("update", b)]
      /\ ~ last => u' = u
      /\ UNCHANGED <<flux, du, sflag, sendbuf>>
  BY DEF UpdateAllConserved, sends
<1>8. u[b]["hyd"] = Of(four, b) BY <1>2, <1>4 DEF InStage, ConservedRight
<1>9. u[b]["hyd"] \cup Computed("update", b) = Of(all, b)
  <2>1. four \cup {"update"} = all OBVIOUS
  <2>2. Of(four, b) \cup Computed("update", b) = Of(four \cup {"update"}, b)
    BY DEF Of, Computed
  <2>3. QED BY <1>8, <2>1, <2>2
<1>10. TypedFields'
  <2> HIDE DEF t, last
  <2>1. Of(all, b) \in Content BY <1>3, PartsOfHydro, OfTyped
  <2> HIDE DEF all
  <2>2. u' \in [Block -> [Var -> Content]]
    <3>1. CASE last
      <4>1. u' = [u EXCEPT ![b]["hyd"] = Of(all, b)] BY <1>7, <1>9, <3>1
      <4>2. QED BY <1>3, <2>1, <4>1 DEF TypedFields
    <3>2. CASE ~ last BY <1>3, <1>7, <3>2 DEF TypedFields
    <3>3. QED BY <3>1, <3>2
  <2>3. QED BY <1>3, <1>5, <1>7, <2>2 DEF TypedFields
<1>11. /\ u'[b]["hyd"] = IF last THEN Of(all, b) ELSE Of(four, b)
       /\ \A v \in Var \ {"hyd"} : u'[b][v] = u[b][v]
       /\ \A a \in Block \ {b} : u'[a] = u[a]
  <2> HIDE DEF last, all, four
  <2>1. CASE last
    <3>1. u' = [u EXCEPT ![b]["hyd"] = Of(all, b)] BY <1>7, <1>9, <2>1
    <3>2. QED BY <1>3, <1>6, <2>1, <3>1 DEF TypedFields
  <2>2. CASE ~ last BY <1>7, <1>8, <2>2
  <2>3. QED BY <2>1, <2>2
<1>12. u'[b]["hyd"] = Whole("hyd", stage[b]) BY <1>11, WholeHydro DEF Of
<1>13. FluxesRight(b)' BY <1>2, <1>7, FluxesStay DEF InStage
<1>14. IncrementRight(b)' BY <1>2, <1>7, IncrementStays DEF InStage
<1>15. ConservedRight(b)'
  <2>1. Scalars => "sclr" \in Var \ {"hyd"} BY DEF Var
  <2>2. "INT_HYD" \in done[b] /\ "SRC_TERM" \in done[b]
    BY <1>2, <1>4, Chain DEF InStage
  <2>3. QED BY <1>2, <1>4, <1>5, <1>11, <1>12, <2>1, <2>2 DEF InStage, ConservedRight
<1>16. SentRight(b)' BY <1>2, <1>7, SentStays DEF InStage
<1>17. ClearedRight(b)' BY <1>2, <1>7, ClearedStays DEF InStage
<1>18. QED
  BY <1>1, <1>7, <1>10, <1>11, <1>13, <1>14, <1>15, <1>16, <1>17, OneBlock


\* A task that changes no value.
LEMMA QuietTaskKeeps ==
  ASSUME IInv, NEW b \in Block, NEW t, Ready(b, t), Finish(b, t),
         UNCHANGED <<flux, du, u, sflag, sendbuf>>,
         t \notin {"CALC_HYDFLX", "CALC_SCLRFLX", "ADD_FLX_CONS", "INT_HYD", "INT_SCLR",
                   "SRC_TERM", "IMPLICIT_CORR", "UPDATE_ALLCONS", "CLEAR_ALLBND"}
  PROVE  IInv'
<1>1. /\ setup' = setup /\ stage' = stage /\ InStage(b)
      /\ done'[b] = done[b] \cup {t}
  BY Taken
<1>2. TypedFields'
  <2>1. Block' = Block /\ Var' = Var BY <1>1, Fixed
  <2>2. QED BY <2>1 DEF IInv, TypedFields
<1>3. FluxesRight(b)' BY <1>1, FluxesStay DEF InStage
<1>4. IncrementRight(b)' BY <1>1, IncrementStays DEF InStage
<1>5. ConservedRight(b)' BY <1>1, ConservedStays DEF InStage
<1>6. SentRight(b)' BY <1>1, SentStays DEF InStage
<1>7. ClearedRight(b)' BY <1>1, ClearedStays DEF InStage
<1>8. QED BY <1>2, <1>3, <1>4, <1>5, <1>6, <1>7, OneBlock

\* When a block may send, what it has is whole.
LEMMA SendsWhole ==
  ASSUME IInv, NEW b \in Block, NEW t, NEW v \in Var, t \in SendTask(v), Ready(b, t),
         InStage(b)
  PROVE  "UPDATE_ALLCONS" \in done[b] /\ u[b][v] = Whole(v, stage[b])
<1>1. t \in Sending BY DEF SendTask, Sending
<1>2. "UPDATE_ALLCONS" \in Dep(t) \/ "CLEAR_ALLBND2" \in Dep(t)
  BY <1>1, Waits DEF Sending
<1>3. "UPDATE_ALLCONS" \in done[b]
  BY <1>2, Chain DEF InStage, Ready, Executable
<1>4. "SRC_TERM" \in done[b] BY <1>3, Chain DEF InStage
<1>5. v = "hyd" \/ (Scalars /\ v = "sclr")
  <2>1. CASE Scalars BY <2>1 DEF Var
  <2>2. CASE ~ Scalars BY <2>2 DEF Var
  <2>3. QED BY <2>1, <2>2
<1>6. QED BY <1>3, <1>4, <1>5 DEF InStage, ConservedRight

LEMMA MessageTyped ==
  ASSUME NEW x \in Content, NEW f \in BOOLEAN
  PROVE  [value |-> x, fresh |-> f] \in Message
BY DEF Message

LEMMA SendKeeps ==
  ASSUME IInv, NEW b \in Block, NEW t, NEW v \in Var, Send(b, t, v)
  PROVE  IInv'
<1>1. Ready(b, t) /\ Finish(b, t) /\ t \in SendTask(v) BY DEF Send
<1>2. /\ setup' = setup /\ stage' = stage /\ InStage(b) /\ t \notin done[b]
      /\ t \in Task /\ done'[b] = done[b] \cup {t}
  BY <1>1, Taken
<1>3. UNCHANGED <<flux, du, u>> BY DEF Send, fields
<1>4. t \notin {"CALC_HYDFLX", "CALC_SCLRFLX", "ADD_FLX_CONS", "INT_HYD", "INT_SCLR",
                "SRC_TERM", "IMPLICIT_CORR", "UPDATE_ALLCONS", "CLEAR_ALLBND"}
  BY <1>1 DEF SendTask
<1>5. CASE v \in sflag[b]
  <2>1. UNCHANGED <<sflag, sendbuf>> BY <1>5 DEF Send, sends
  <2>2. QED BY <1>1, <1>3, <1>4, <2>1, QuietTaskKeeps
<1>6. CASE v \notin sflag[b]
  <2>1. /\ sflag' = [sflag EXCEPT ![b] = sflag[b] \cup {v}]
        /\ sendbuf' = [sendbuf EXCEPT ![b][v] = Pack(b, v)]
    BY <1>6 DEF Send
  <2>2. TypedFields BY DEF IInv
  <2>3. "UPDATE_ALLCONS" \in done[b] /\ u[b][v] = Whole(v, stage[b])
    BY <1>1, <1>2, SendsWhole
  <2>4. Pack(b, v).value = Whole(v, stage[b]) BY <2>3 DEF Pack
  <2>5. Pack(b, v) \in Message
    <3>1. u[b][v] \in Content BY <2>2 DEF TypedFields
    <3> DEFINE fresh == CubedSphere =>
                 \A l \in LinksTo(b) : ghost[l][v].value = Whole(v, stage[b])
    <3>2. fresh \in BOOLEAN OBVIOUS
    <3>3. Pack(b, v) = [value |-> u[b][v], fresh |-> fresh] BY Zenon DEF Pack
    <3> HIDE DEF fresh
    <3>4. QED BY <3>1, <3>2, <3>3, MessageTyped, Zenon
  <2>6. TypedFields'
    <3>1. Block' = Block /\ Var' = Var BY <1>2, Fixed
    <3>2. sflag' \in [Block -> SUBSET Var] BY <2>1, <2>2 DEF TypedFields
    <3>3. sendbuf' \in [Block -> [Var -> Message]] BY <2>1, <2>2, <2>5 DEF TypedFields
    <3>4. QED BY <1>3, <2>2, <3>1, <3>2, <3>3 DEF TypedFields
  <2>7. /\ sflag'[b] = sflag[b] \cup {v} /\ sendbuf'[b][v] = Pack(b, v)
        /\ \A w \in Var \ {v} : sendbuf'[b][w] = sendbuf[b][w]
        /\ \A a \in Block \ {b} : sflag'[a] = sflag[a] /\ sendbuf'[a] = sendbuf[a]
    BY <2>1, <2>2 DEF TypedFields
  <2>8. FluxesRight(b)' BY <1>2, <1>3, <1>4, FluxesStay DEF InStage
  <2>9. IncrementRight(b)' BY <1>2, <1>3, <1>4, IncrementStays DEF InStage
  <2>10. ConservedRight(b)' BY <1>2, <1>3, <1>4, ConservedStays DEF InStage
  <2>11. SentRight(b)'
    <3>1. sflag[b] \subseteq Var BY <2>2 DEF TypedFields
    <3>2. QED BY <1>2, <2>3, <2>4, <2>7, <3>1 DEF InStage, SentRight
  <2>12. ClearedRight(b)'
    <3>1. t \in Sending BY <1>1 DEF SendTask, Sending
    <3>2. "CLEAR_ALLBND" \notin done[b]
      BY <1>2, <3>1 DEF InStage, ClearedRight
    <3>3. QED BY <1>2, <1>4, <3>2 DEF ClearedRight
  <2>13. QED
    BY <1>1, <1>3, <2>6, <2>7, <2>8, <2>9, <2>10, <2>11, <2>12, OneBlock
<1>7. QED BY <1>5, <1>6

\* When the flags are cleared for the last time, nothing is left to be sent.
LEMMA NothingLeft ==
  ASSUME IInv, NEW b \in Block, Ready(b, "CLEAR_ALLBND"), InStage(b)
  PROVE  Task \cap Sending \subseteq done[b]
<1> DEFINE at == visit[RankOf[b]]
           p == Position("CLEAR_ALLBND")
<1> SUFFICES ASSUME NEW s \in Task \cap Sending, s \notin done[b]
             PROVE  FALSE
  OBVIOUS
<1>1. setup \in Setup BY DEF IInv, TypedState
<1>2. RankOf[b] \in Rank BY DEF Rank
<1>3. at.block = b /\ at.passed \in Nat /\ at.passed < p
  BY <1>2 DEF Ready, IInv, TypedState
<1>4. /\ Len(List) \in Nat /\ p \in 1 .. Len(List) /\ Position(s) \in 1 .. Len(List)
      /\ Position(s) < p /\ List[Position(s)] = s
  BY <1>1, Places
<1>5. "CONS2PRIM" \in done[b] BY Waits DEF Ready, Executable
<1>6. /\ "UPDATE_ALLCONS" \in done[b]
      /\ CubedSphere => "CLEAR_ALLBND2" \in done[b]
  BY <1>5, Chain DEF InStage
<1>7. s \in {"SEND_HYD", "SEND_SCLR"}
      \/ (s \in {"SEND_HYD2", "SEND_SCLR2"} /\ CubedSphere)
  <2>1. s \in Tasks(CubedSphere) BY <1>1, Places
  <2>2. s \in {"SEND_HYD2", "SEND_SCLR2"} => CubedSphere BY <2>1 DEF Tasks, Early
  <2>3. QED BY <2>2 DEF Sending
<1>8. Dep(s) \subseteq done[b] BY <1>6, <1>7, Waits
<1>9. Executable(b, s)
  <2>1. \A v \in Var : s \notin RecvTask(v) BY DEF Sending, RecvTask
  <2>2. QED BY <1>8, <2>1 DEF Executable
<1>10. CASE Position(s) <= at.passed
  <2>1. at.passed = Len(List) BY <1>3, <1>8, <1>10 DEF InStage, ScanRight
  <2>2. QED BY <1>3, <1>4, <2>1
<1>11. CASE at.passed < Position(s)
  <2>1. Position(s) \in at.passed + 1 .. p - 1 BY <1>3, <1>4, <1>11
  <2>2. ~ Executable(b, List[Position(s)]) BY <2>1 DEF Ready
  <2>3. QED BY <1>4, <1>9, <2>2
<1>12. QED BY <1>3, <1>4, <1>10, <1>11

LEMMA ClearKeeps ==
  ASSUME IInv, NEW b \in Block, NEW t, ClearAllBoundary(b, t)
  PROVE  IInv'
<1>1. /\ Ready(b, t) /\ Finish(b, t) /\ t \in {"CLEAR_ALLBND", "CLEAR_ALLBND2"}
      /\ sflag' = [sflag EXCEPT ![b] = {}]
  BY DEF ClearAllBoundary
<1>2. /\ setup' = setup /\ stage' = stage /\ InStage(b)
      /\ done'[b] = done[b] \cup {t}
  BY <1>1, Taken
<1>3. UNCHANGED <<flux, du, u, sendbuf>> BY DEF ClearAllBoundary, fields
<1>4. TypedFields BY DEF IInv
<1>5. TypedFields'
  <2>1. Block' = Block /\ Var' = Var BY <1>2, Fixed
  <2>2. sflag' \in [Block -> SUBSET Var] BY <1>1, <1>4 DEF TypedFields
  <2>3. QED BY <1>3, <1>4, <2>1, <2>2 DEF TypedFields
<1>6. /\ sflag'[b] = {}
      /\ \A a \in Block \ {b} : sflag'[a] = sflag[a]
  BY <1>1, <1>4 DEF TypedFields
<1>7. FluxesRight(b)' BY <1>1, <1>2, <1>3, FluxesStay DEF InStage
<1>8. IncrementRight(b)' BY <1>1, <1>2, <1>3, IncrementStays DEF InStage
<1>9. ConservedRight(b)' BY <1>1, <1>2, <1>3, ConservedStays DEF InStage
<1>10. SentRight(b)' BY <1>6 DEF SentRight
<1>11. ClearedRight(b)'
  <2>1. Task' = Task BY <1>2, Fixed
  <2>2. CASE t = "CLEAR_ALLBND"
    BY <1>1, <1>2, <1>6, <2>1, <2>2, NothingLeft DEF ClearedRight
  <2>3. CASE t = "CLEAR_ALLBND2"
    BY <1>2, <1>6, <2>1, <2>3 DEF InStage, ClearedRight
  <2>4. QED BY <1>1, <2>2, <2>3
<1>12. QED BY <1>1, <1>3, <1>5, <1>6, <1>7, <1>8, <1>9, <1>10, <1>11, OneBlock


-----------------------------------------------------------------------------
(* The other steps, and the theorem.                                        *)
LEMMA InitInvariant == Init => IInv
<1> SUFFICES ASSUME Init PROVE IInv
  OBVIOUS
<1>1. setup \in Setup BY DEF Init
<1>2. TypedState
  <2>1. stage \in [Block -> Nat] /\ done \in [Block -> SUBSET Task] BY DEF Init
  <2>2. visit = [r \in Rank |-> visit[r]] BY DEF Init
  <2>3. \A r \in Rank : visit[r].passed \in Nat BY DEF Init, Visit
  <2>4. QED BY <1>1, <2>1, <2>2, <2>3 DEF TypedState
<1>3. TypedFields
  <2>1. {} \in Content BY DEF Content
  <2>2. \A v \in Var : Whole(v, 0) \in Content
    <3>1. Part("hyd") \subseteq Part("hyd") /\ Part("sclr") \subseteq Part("hyd") BY DEF Part
    <3>2. \A v : Part(v) \subseteq Part("hyd") BY DEF Part
    <3>3. \A v : Whole(v, 0) \subseteq Part("hyd") \X Nat BY <3>2 DEF Whole
    <3>4. QED BY <3>3 DEF Content
  <2>3. \A v \in Var : WholePacked(v, 0) \in Message
    BY <2>2, MessageTyped DEF WholePacked
  <2>4. flux \in [Block -> [Var -> Content]] /\ du \in [Block -> Content]
    BY <2>1 DEF Init
  <2>5. u \in [Block -> [Var -> Content]] BY <2>2 DEF Init
  <2>6. sendbuf \in [Block -> [Var -> Message]] BY <2>3 DEF Init
  <2>7. sflag \in [Block -> SUBSET Var] BY DEF Init
  <2>8. QED BY <2>4, <2>5, <2>6, <2>7 DEF TypedFields
<1>4. \A b \in Block : Idle(b) BY DEF Init, Idle
<1>5. QED BY <1>2, <1>3, <1>4 DEF IInv

\* Nothing is kept from the stage before.
LEMMA StartupKeeps ==
  ASSUME IInv, NEW r \in Rank, Startup(r)
  PROVE  IInv'
<1>1. /\ setup' = setup
      /\ UNCHANGED <<flux, du, u, sflag, sendbuf>>
      /\ \A b \in Blocks(r) : done[b] = Task
      /\ stage' = [b \in Block |-> IF b \in Blocks(r) THEN stage[b] + 1 ELSE stage[b]]
      /\ done' = [b \in Block |-> IF b \in Blocks(r) THEN {} ELSE done[b]]
      /\ visit' = [visit EXCEPT ![r] = Visit(Least(Blocks(r)), 0)]
  BY DEF Startup, fields, sends
<1>2. TypedState /\ TypedFields /\ setup \in Setup BY DEF IInv, TypedState
<1>3. Block' = Block /\ Var' = Var /\ Rank' = Rank /\ Task' = Task /\ RankOf' = RankOf
  BY <1>1, Fixed
<1>4. visit'[r].passed = 0 /\ \A q \in Rank \ {r} : visit'[q] = visit[q]
  BY <1>1, <1>2 DEF TypedState, Visit
<1>5. TypedState'
  <2>1. stage' \in [Block -> Nat] BY <1>1, <1>2 DEF TypedState
  <2>2. done' \in [Block -> SUBSET Task] BY <1>1, <1>2 DEF TypedState
  <2>3. visit' = [q \in Rank |-> visit'[q]] BY <1>1, <1>2 DEF TypedState
  <2>4. \A q \in Rank : visit'[q].passed \in Nat BY <1>2, <1>4 DEF TypedState
  <2>5. QED BY <1>1, <1>2, <1>3, <2>1, <2>2, <2>3, <2>4 DEF TypedState
<1>6. TypedFields' BY <1>1, <1>2, <1>3 DEF TypedFields
<1>7. ASSUME NEW b \in Block, b \in Blocks(r) PROVE InStage(b)'
  <2>1. done'[b] = {} /\ RankOf[b] = r BY <1>1, <1>7 DEF Blocks
  <2>2. sflag[b] = {}
    <3>1. "CLEAR_ALLBND" \in done[b] BY <1>1, <1>2, <1>7, Places
    <3>2. QED BY <3>1 DEF IInv, Idle, InStage, ClearedRight
  <2>3. sflag'[b] = {} BY <1>1, <2>2
  <2>4. Closed(b)' BY <2>1 DEF Closed
  <2>5. FluxesRight(b)' /\ IncrementRight(b)' /\ ConservedRight(b)'
    BY <2>1 DEF FluxesRight, IncrementRight, ConservedRight
  <2>6. SentRight(b)' /\ ClearedRight(b)' BY <2>1, <2>3 DEF SentRight, ClearedRight
  <2>7. ScanRight(b)' BY <1>1, <1>2, <1>4, <2>1, ScanBegins
  <2>8. QED BY <2>4, <2>5, <2>6, <2>7 DEF InStage
<1>8. ASSUME NEW b \in Block, b \notin Blocks(r) PROVE Idle(b)' \/ InStage(b)'
  <2>1. stage'[b] = stage[b] /\ done'[b] = done[b] BY <1>1, <1>8
  <2>2. visit'[RankOf[b]] = visit[RankOf[b]]
    <3>1. RankOf[b] \in Rank \ {r} BY <1>8 DEF Rank, Blocks
    <3>2. QED BY <1>4, <3>1
  <2>3. CASE Idle(b) BY <1>1, <2>1, <2>3, IdleStays
  <2>4. CASE InStage(b) BY <1>1, <1>2, <2>1, <2>2, <2>4, OthersStay
  <2>5. QED BY <2>3, <2>4 DEF IInv
<1>9. QED BY <1>3, <1>5, <1>6, <1>7, <1>8 DEF IInv

LEMMA EndVisitKeeps ==
  ASSUME IInv, NEW b \in Block, EndVisit(b)
  PROVE  IInv'
<1>1. /\ setup' = setup /\ UNCHANGED <<stage, done, flux, du, u, sflag, sendbuf>>
      /\ visit' = [visit EXCEPT ![RankOf[b]] = Visit(After(b), 0)]
  BY DEF EndVisit, fields, sends
<1>2. TypedState /\ TypedFields /\ setup \in Setup BY DEF IInv, TypedState
<1>3. Block' = Block /\ Var' = Var /\ Rank' = Rank /\ Task' = Task
  BY <1>1, Fixed
<1>4. \A q \in Rank : visit'[q] = visit[q] \/ visit'[q].passed = 0
  BY <1>1, <1>2 DEF TypedState, Visit
<1>5. TypedState'
  <2>1. visit' = [q \in Rank |-> visit'[q]] BY <1>1, <1>2 DEF TypedState
  <2>2. \A q \in Rank : visit'[q].passed \in Nat BY <1>2, <1>4 DEF TypedState
  <2>3. QED BY <1>1, <1>2, <1>3, <2>1, <2>2 DEF TypedState
<1>6. TypedFields' BY <1>1, <1>2, <1>3 DEF TypedFields
<1>7. ASSUME NEW a \in Block PROVE Idle(a)' \/ InStage(a)'
  <2>1. RankOf[a] \in Rank BY DEF Rank
  <2>2. CASE Idle(a) BY <1>1, <2>2, IdleStays
  <2>3. CASE InStage(a) BY <1>1, <1>2, <1>4, <2>1, <2>3, OthersStay
  <2>4. QED BY <2>2, <2>3 DEF IInv
<1>8. QED BY <1>3, <1>5, <1>6, <1>7 DEF IInv

LEMMA NothingKeeps ==
  ASSUME IInv, UNCHANGED <<setup, state, flux, du, u, sflag, sendbuf>>
  PROVE  IInv'
<1>1. setup' = setup /\ UNCHANGED <<stage, done, visit, flux, du, u, sflag, sendbuf>>
  BY DEF state
<1>2. TypedState /\ TypedFields /\ setup \in Setup BY DEF IInv, TypedState
<1>3. Block' = Block /\ Var' = Var /\ Rank' = Rank /\ Task' = Task
  BY <1>1, Fixed
<1>4. TypedState' /\ TypedFields' BY <1>1, <1>2, <1>3 DEF TypedState, TypedFields
<1>5. ASSUME NEW a \in Block PROVE Idle(a)' \/ InStage(a)'
  <2>1. CASE Idle(a) BY <1>1, <2>1, IdleStays
  <2>2. CASE InStage(a) BY <1>1, <1>2, <2>2, OthersStay
  <2>3. QED BY <2>1, <2>2 DEF IInv
<1>6. QED BY <1>3, <1>4, <1>5 DEF IInv

LEMMA NextInvariant == IInv /\ [Next]_vars => IInv'
<1> SUFFICES ASSUME IInv, [Next]_vars PROVE IInv'
  OBVIOUS
<1>1. ASSUME NEW r \in Rank, Startup(r) PROVE IInv' BY <1>1, StartupKeeps
<1>2. ASSUME NEW b \in Block, Compute(b) PROVE IInv'
  <2>1. CASE CalculateHydroFlux(b) BY <2>1, HydroFluxKeeps
  <2>2. CASE CalculateScalarFlux(b) BY <2>2, ScalarFluxKeeps
  <2>3. CASE AddFluxToConserved(b) BY <2>3, AddFluxKeeps
  <2>4. CASE IntegrateHydro(b) BY <2>4, IntegrateHydroKeeps
  <2>5. CASE IntegrateScalars(b) BY <2>5, IntegrateScalarsKeeps
  <2>6. CASE AddSourceTerms(b) BY <2>6, SourceTermsKeep
  <2>7. CASE ImplicitCorrection(b) BY <2>7, ImplicitKeeps
  <2>8. CASE UpdateAllConserved(b) BY <2>8, UpdateKeeps
  <2>9. CASE Primitives(b)
    <3>1. Ready(b, "CONS2PRIM") /\ Finish(b, "CONS2PRIM")
          /\ UNCHANGED <<flux, du, u, sflag, sendbuf>>
      BY <2>9 DEF Primitives, fields, sends
    <3>2. QED BY <3>1, QuietTaskKeeps
  <2>10. QED
    BY <1>2, <2>1, <2>2, <2>3, <2>4, <2>5, <2>6, <2>7, <2>8, <2>9 DEF Compute
<1>3. ASSUME NEW b \in Block, Exchange(b) PROVE IInv'
  <2>1. ASSUME NEW t, NEW v \in Var, Send(b, t, v) PROVE IInv' BY <2>1, SendKeeps
  <2>2. ASSUME NEW t, NEW v \in Var, Receive(b, t, v) PROVE IInv'
    <3>1. Ready(b, t) /\ Finish(b, t) /\ t \in RecvTask(v)
          /\ UNCHANGED <<flux, du, u, sflag, sendbuf>>
      BY <2>2 DEF Receive, fields, sends
    <3>2. QED BY <3>1, QuietTaskKeeps DEF RecvTask
  <2>3. ASSUME NEW t, NEW v \in Var, SetBoundaries(b, t, v) PROVE IInv'
    <3>1. Ready(b, t) /\ Finish(b, t) /\ t \in SetTask(v)
          /\ UNCHANGED <<flux, du, u, sflag, sendbuf>>
      BY <2>3 DEF SetBoundaries, sends
    <3>2. QED BY <3>1, QuietTaskKeeps DEF SetTask
  <2>4. ASSUME NEW t, ClearAllBoundary(b, t) PROVE IInv' BY <2>4, ClearKeeps
  <2>5. CASE RestartReceiving(b)
    <3>1. Ready(b, "RESTART_RECV") /\ Finish(b, "RESTART_RECV")
          /\ UNCHANGED <<flux, du, u, sflag, sendbuf>>
      BY <2>5 DEF RestartReceiving, fields, sends
    <3>2. QED BY <3>1, QuietTaskKeeps
  <2>6. QED BY <1>3, <2>1, <2>2, <2>3, <2>4, <2>5 DEF Exchange
<1>4. ASSUME NEW b \in Block, EndVisit(b) PROVE IInv' BY <1>4, EndVisitKeeps
<1>5. ASSUME NEW l \in Link, NEW v \in Var, Deliver(l, v) PROVE IInv'
  <2>1. UNCHANGED <<setup, state, flux, du, u, sflag, sendbuf>>
    BY <1>5 DEF Deliver, fields
  <2>2. QED BY <2>1, NothingKeeps
<1>6. ASSUME Finished \/ UNCHANGED vars PROVE IInv'
  <2>1. UNCHANGED <<setup, state, flux, du, u, sflag, sendbuf>>
    BY <1>6 DEF Finished, vars, fields, sends
  <2>2. QED BY <2>1, NothingKeeps
<1>7. QED BY <1>1, <1>2, <1>3, <1>4, <1>5, <1>6 DEF Next, BlockStep

(* The list is run in the order of its dependencies, and a visit that       *)
(* clears the flags has passed no send that was still to be made.           *)
THEOREM StageInvariant == Spec => []IInv
<1>1. QED BY InitInvariant, NextInvariant, PTL DEF Spec

(* What a block sends holds everything its stage adds to the conserved      *)
(* variables, the implicit correction of canoe's task list and the          *)
(* thermodynamics of the last stage included, in either exchange.           *)
THEOREM SentIsWhole == Spec => []SentWhole
<1>1. IInv => SentWhole BY DEF IInv, SentWhole, Idle, InStage, SentRight
<1>2. QED BY <1>1, StageInvariant, PTL

-----------------------------------------------------------------------------
(* The exchanges of ghost cells.  A block's messages of a variable are      *)
(* numbered over all its stages, one or two of them in each; so are the     *)
(* requests a receiver starts.  The numbers follow from the stage and the   *)
(* tasks done, and tell what is in every buffer.                            *)
First(v) == IF v = "hyd" THEN "SEND_HYD" ELSE "SEND_SCLR"
Second(v) == IF v = "hyd" THEN "SEND_HYD2" ELSE "SEND_SCLR2"
RecvFirst(v) == IF v = "hyd" THEN "RECV_HYD" ELSE "RECV_SCLR"
RecvSecond(v) == IF v = "hyd" THEN "RECV_HYD2" ELSE "RECV_SCLR2"
SetFirst(v) == IF v = "hyd" THEN "SETB_HYD" ELSE "SETB_SCLR"
SetSecond(v) == IF v = "hyd" THEN "SETB_HYD2" ELSE "SETB_SCLR2"

In(t, D) == IF t \in D THEN 1 ELSE 0

\* Messages of v that a block has sent which is in stage s with D done.
SentNo(sphere, s, D, v) ==
  IF sphere THEN 2 * (s - 1) + In(First(v), D) + In(Second(v), D)
  ELSE (s - 1) + In(First(v), D)

\* Receives it has started from each neighbour.
StartNo(sphere, s, D) ==
  IF sphere THEN 2 * (s - 1) + 1 + In("RESTART_RECV", D) ELSE s

\* The stage message k belongs to.
StageOf(sphere, k) == IF sphere THEN (k + 1) \div 2 ELSE k

\* Message m of variable v is what the k-th should be.
Right(sphere, v, k, m) ==
  /\ m.value = Whole(v, StageOf(sphere, k))
  /\ (sphere => k % 2 = 0) => m.fresh = TRUE

Sent(b, v) == SentNo(CubedSphere, stage[b], done[b], v)

\* Messages received over l.
Got(l, v) ==
  StartNo(CubedSphere, stage[l[2]], done[l[2]]) - IF active[l][v] = TRUE THEN 1 ELSE 0

-----------------------------------------------------------------------------
(* The invariant.                                                           *)
TypedBuffers ==
  /\ eager \in BOOLEAN
  /\ ghost \in [Link -> [Var -> Message]]
  /\ recvbuf \in [Link -> [Var -> Message]]
  /\ chan \in [Link -> [Var -> Seq(Message)]]
  /\ active \in [Link -> [Var -> BOOLEAN]]
  /\ flag \in [Link -> [Var -> {"waiting", "arrived", "completed"}]]

\* What is marked as sent was sent in this exchange, and when flags have been
\* cleared between exchanges the first has been sent.
BlockRight(b) ==
  /\ \A v \in sflag[b] :
       IF CubedSphere /\ "CLEAR_ALLBND2" \in done[b]
       THEN Second(v) \in done[b] ELSE First(v) \in done[b]
  /\ CubedSphere /\ "CLEAR_ALLBND2" \in done[b] => \A v \in Var : First(v) \in done[b]
  /\ \A v \in Var : Right(CubedSphere, v, Sent(b, v), sendbuf[b][v])

GhostRight(l, v) ==
  SetFirst(v) \in done[l[2]] =>
    /\ ghost[l][v].value = Whole(v, stage[l[2]])
    /\ (CubedSphere => SetSecond(v) \in done[l[2]]) => ghost[l][v].fresh = TRUE

\* Messages on the way are those sent and not received.
ChannelRight(l, v) ==
  /\ Len(chan[l][v]) = Sent(l[1], v) - Got(l, v)
  /\ \A i \in 1 .. Len(chan[l][v]) :
       Right(CubedSphere, v, Got(l, v) + i, chan[l][v][i])
  /\ Right(CubedSphere, v, Got(l, v), recvbuf[l][v])
  /\ eager = FALSE /\ chan[l][v] # <<>> => v \in sflag[l[1]] /\ Len(chan[l][v]) = 1

\* A buffer that was not received in this exchange is waited for, and what was
\* received was started and has come.
FlagRight(l, v) ==
  LET D == done[l[2]]
  IN  /\ RecvFirst(v) \notin D => flag[l][v] = "waiting"
      /\ CubedSphere /\ "CLEAR_ALLBND2" \in D /\ RecvSecond(v) \notin D =>
           flag[l][v] = "waiting"
      /\ "CLEAR_ALLBND" \in D => flag[l][v] = "waiting"
      /\ RecvFirst(v) \in D /\ ~ (CubedSphere /\ "RESTART_RECV" \in D) =>
           active[l][v] = FALSE
      /\ CubedSphere /\ RecvSecond(v) \in D => active[l][v] = FALSE

\* Between blocks of one rank, which start their stages together.
LocalRight(l, v) ==
  /\ active[l][v] = FALSE /\ chan[l][v] = <<>>
  /\ stage[l[1]] = stage[l[2]]
  /\ flag[l][v] # "waiting" => First(v) \in done[l[1]]
  /\ RecvFirst(v) \in done[l[2]] => First(v) \in done[l[1]]
  /\ First(v) \in done[l[1]] =>
       recvbuf[l][v].value = Whole(v, stage[l[1]]) /\ recvbuf[l][v].fresh = TRUE
  /\ "CLEAR_ALLBND" \in done[l[2]] => flag[l][v] = "waiting"

LinkRight(l, v) ==
  /\ GhostRight(l, v)
  /\ Local(l) => LocalRight(l, v)
  /\ Remote(l) => ChannelRight(l, v) /\ FlagRight(l, v)

XInv ==
  /\ TypedBuffers
  /\ \A b \in Block : BlockRight(b)
  /\ \A l \in Link, v \in Var : LinkRight(l, v)

-----------------------------------------------------------------------------
(* Tasks and links.                                                         *)
LEMMA TasksOf ==
  ASSUME NEW v
  PROVE  /\ SendTask(v) = {First(v), Second(v)}
         /\ RecvTask(v) = {RecvFirst(v), RecvSecond(v)}
         /\ SetTask(v) = {SetFirst(v), SetSecond(v)}
BY DEF SendTask, RecvTask, SetTask, First, Second, RecvFirst, RecvSecond, SetFirst,
       SetSecond

LEMMA VarIs ==
  ASSUME NEW v \in Var
  PROVE  v = "hyd" \/ (v = "sclr" /\ Scalars)
<1>1. CASE Scalars BY <1>1 DEF Var
<1>2. CASE ~ Scalars BY <1>2 DEF Var
<1>3. QED BY <1>1, <1>2

LEMMA LinkMesh ==
  ASSUME setup \in Setup, NEW l \in Link
  PROVE  /\ l = <<l[1], l[2]>> /\ l[1] \in Block /\ l[2] \in Block
         /\ <<l[2], l[1]>> \in Link
         /\ Local(l) => ~ CubedSphere
         /\ Local(l) <=> RankOf[l[1]] = RankOf[l[2]]
         /\ CubedSphere => l[1] # l[2]
<1>1. l = <<l[1], l[2]>> /\ l[1] \in Block /\ l[2] \in Block
  <2>1. Link \subseteq Block \X Block BY Meshes
  <2>2. QED BY <2>1
<1>2. <<l[2], l[1]>> \in Link /\ (CubedSphere => l[1] # l[2])
  BY StageAssumption DEF Link, CubedSphere
<1>3. OneBlockPerRank(setup) BY StageAssumption
<1>4. CubedSphere => RankOf[l[1]] # RankOf[l[2]]
  BY <1>1, <1>2, <1>3 DEF OneBlockPerRank, CubedSphere, RankOf, Block
<1>5. QED BY <1>1, <1>2, <1>4 DEF Local

\* What has been done of an exchange when a later task of it has.
LEMMA ExchangeChain ==
  ASSUME IInv, NEW b \in Block, NEW v \in Var
  PROVE  LET D == done[b]
         IN  /\ SetFirst(v) \in D => RecvFirst(v) \in D
             /\ CubedSphere /\ "CLEAR_ALLBND2" \in D => SetFirst(v) \in D
             /\ CubedSphere /\ "RESTART_RECV" \in D => "CLEAR_ALLBND2" \in D
             /\ CubedSphere /\ Second(v) \in D => "CLEAR_ALLBND2" \in D
             /\ CubedSphere /\ RecvSecond(v) \in D => "RESTART_RECV" \in D
             /\ CubedSphere /\ SetSecond(v) \in D => RecvSecond(v) \in D
             /\ "CONS2PRIM" \in D =>
                  IF CubedSphere THEN SetSecond(v) \in D ELSE SetFirst(v) \in D
             /\ "CLEAR_ALLBND" \in D => "CONS2PRIM" \in D
             /\ ~ CubedSphere =>
                  D \cap {"CLEAR_ALLBND2", "RESTART_RECV", Second(v), RecvSecond(v),
                          SetSecond(v)} = {}
<1>1. v = "hyd" \/ (v = "sclr" /\ Scalars) BY VarIs
<1>2. setup \in Setup /\ done[b] \subseteq Task BY DEF IInv, TypedState
<1>3. ~ CubedSphere =>
        done[b] \cap {"CLEAR_ALLBND2", "RESTART_RECV", Second(v), RecvSecond(v),
                      SetSecond(v)} = {}
  <2>1. done[b] \subseteq Tasks(CubedSphere) BY <1>2, Places
  <2>2. ~ CubedSphere =>
          Tasks(CubedSphere) \cap {"CLEAR_ALLBND2", "RESTART_RECV", "SEND_HYD2", "RECV_HYD2",
                                   "SETB_HYD2", "SEND_SCLR2", "RECV_SCLR2", "SETB_SCLR2"} = {}
    BY DEF Tasks, Early
  <2>3. QED BY <2>1, <2>2 DEF Second, RecvSecond, SetSecond
<1>4. CASE Idle(b)
  <2>1. Exchanges(CubedSphere, Scalars) \cup {"CONS2PRIM", "CLEAR_ALLBND"} \subseteq done[b]
    BY <1>2, <1>4, Places DEF Idle
  <2>2. /\ {RecvFirst(v), SetFirst(v)} \subseteq done[b]
        /\ CubedSphere => {"CLEAR_ALLBND2", "RESTART_RECV", RecvSecond(v), SetSecond(v)}
                            \subseteq done[b]
    BY <1>1, <2>1 DEF Exchanges, FirstExchange, SecondExchange, FirstScalars,
       SecondOfScalars, RecvFirst, SetFirst, RecvSecond, SetSecond
  <2>3. QED BY <1>3, <2>1, <2>2
<1>5. CASE InStage(b)
  <2>1. /\ RecvFirst(v) \in Dep(SetFirst(v))
        /\ SetFirst(v) \in Dep("CLEAR_ALLBND2")
        /\ "CLEAR_ALLBND2" \in Dep("RESTART_RECV")
        /\ "CLEAR_ALLBND2" \in Dep(Second(v))
        /\ "RESTART_RECV" \in Dep(RecvSecond(v))
        /\ RecvSecond(v) \in Dep(SetSecond(v))
        /\ IF CubedSphere THEN SetSecond(v) \in Dep("CONS2PRIM")
           ELSE SetFirst(v) \in Dep("CONS2PRIM")
        /\ "CONS2PRIM" \in Dep("CLEAR_ALLBND")
    <3>1. CASE v = "hyd"
      BY <3>1 DEF Dep, CanoeDep, AthenaDep, WithScalars, RecvFirst, SetFirst, Second,
         RecvSecond, SetSecond
    <3>2. CASE v = "sclr" /\ Scalars
      BY <3>2 DEF Dep, CanoeDep, AthenaDep, WithScalars, RecvFirst, SetFirst, Second,
         RecvSecond, SetSecond
    <3>3. QED BY <1>1, <3>1, <3>2
  <2>2. \A t \in done[b] : Dep(t) \subseteq done[b] BY <1>5 DEF InStage, Closed
  <2>3. QED BY <1>3, <2>1, <2>2
<1>6. QED BY <1>4, <1>5 DEF IInv

\* At the end of a stage both exchanges have been made.
LEMMA ExchangesDone ==
  ASSUME IInv, NEW b \in Block, NEW v \in Var, done[b] = Task
  PROVE  /\ First(v) \in done[b] /\ RecvFirst(v) \in done[b] /\ SetFirst(v) \in done[b]
         /\ "CLEAR_ALLBND" \in done[b]
         /\ CubedSphere =>
              {"CLEAR_ALLBND2", "RESTART_RECV", Second(v), RecvSecond(v), SetSecond(v)}
                \subseteq done[b]
<1>1. v = "hyd" \/ (v = "sclr" /\ Scalars) BY VarIs
<1>2. setup \in Setup BY DEF IInv, TypedState
<1>3. Exchanges(CubedSphere, Scalars) \cup {"CONS2PRIM", "CLEAR_ALLBND"} \subseteq done[b]
  BY <1>2, Places
<1>4. QED
  BY <1>1, <1>3 DEF Exchanges, FirstExchange, SecondExchange, FirstScalars,
     SecondOfScalars, First, Second, RecvFirst, SetFirst, RecvSecond, SetSecond

\* When flags are cleared between exchanges, the first has been sent.
LEMMA FirstSent ==
  ASSUME IInv, NEW b \in Block, Ready(b, "CLEAR_ALLBND2"), InStage(b), NEW v \in Var
  PROVE  First(v) \in done[b]
<1> DEFINE at == visit[RankOf[b]]
           p == Position("CLEAR_ALLBND2")
           s == First(v)
<1> SUFFICES ASSUME s \notin done[b] PROVE FALSE
  OBVIOUS
<1>1. setup \in Setup BY DEF IInv, TypedState
<1>2. RankOf[b] \in Rank BY DEF Rank
<1>3. at.block = b /\ at.passed \in Nat /\ at.passed < p /\ "CLEAR_ALLBND2" \in Task
  BY <1>2 DEF Ready, IInv, TypedState
<1>4. s \in Task /\ s \in FirstSends /\ s \in Sending
  <2>1. v = "hyd" \/ (v = "sclr" /\ Scalars) BY VarIs
  <2>2. Exchanges(CubedSphere, Scalars) \subseteq Task BY <1>1, Places
  <2>3. QED
    BY <2>1, <2>2 DEF First, Exchanges, FirstExchange, FirstScalars, FirstSends, Sending
<1>5. /\ Len(List) \in Nat /\ p \in 1 .. Len(List) /\ Position(s) \in 1 .. Len(List)
      /\ Position(s) < p /\ List[Position(s)] = s
  BY <1>1, <1>3, <1>4, Places
<1>6. Dep(s) = {"UPDATE_ALLCONS"} BY <1>4, Waits DEF FirstSends
<1>7. "UPDATE_ALLCONS" \in done[b]
  BY Waits DEF Ready, Executable, InStage, Closed
<1>8. Executable(b, s)
  <2>1. \A w \in Var : s \notin RecvTask(w) BY <1>4 DEF Sending, RecvTask
  <2>2. QED BY <1>6, <1>7, <2>1 DEF Executable
<1>9. CASE Position(s) <= at.passed
  <2>1. at.passed = Len(List) BY <1>3, <1>4, <1>6, <1>7, <1>9 DEF InStage, ScanRight
  <2>2. QED BY <1>3, <1>5, <2>1
<1>10. CASE at.passed < Position(s)
  <2>1. Position(s) \in at.passed + 1 .. p - 1 BY <1>3, <1>5, <1>10
  <2>2. ~ Executable(b, List[Position(s)]) BY <2>1 DEF Ready
  <2>3. QED BY <1>5, <1>8, <2>2
<1>11. QED BY <1>3, <1>5, <1>9, <1>10


-----------------------------------------------------------------------------
(* What a step leaves alone stays right.                                    *)
LEMMA BlockStays ==
  ASSUME NEW b, BlockRight(b), setup' = setup, stage'[b] = stage[b],
         \A v \in Var : First(v) \in done'[b] <=> First(v) \in done[b],
         \A v \in Var : Second(v) \in done'[b] <=> Second(v) \in done[b],
         "CLEAR_ALLBND2" \in done'[b] <=> "CLEAR_ALLBND2" \in done[b],
         sflag[b] \subseteq Var, sflag'[b] = sflag[b], sendbuf'[b] = sendbuf[b]
  PROVE  BlockRight(b)'
<1>1. CubedSphere' = CubedSphere /\ Var' = Var BY Fixed
<1>2. \A v \in Var : Sent(b, v)' = Sent(b, v) BY <1>1 DEF Sent, SentNo, In
<1>3. QED BY <1>1, <1>2 DEF BlockRight

LEMMA GhostStays ==
  ASSUME NEW l, NEW v, GhostRight(l, v), setup' = setup, stage'[l[2]] = stage[l[2]],
         SetFirst(v) \in done'[l[2]] => SetFirst(v) \in done[l[2]],
         SetSecond(v) \in done'[l[2]] => SetSecond(v) \in done[l[2]],
         ghost'[l][v] = ghost[l][v]
  PROVE  GhostRight(l, v)'
<1>1. CubedSphere' = CubedSphere BY Fixed
<1>2. QED BY <1>1 DEF GhostRight

LEMMA SentStays2 ==
  ASSUME NEW b, NEW v, setup' = setup, stage'[b] = stage[b],
         First(v) \in done'[b] <=> First(v) \in done[b],
         Second(v) \in done'[b] <=> Second(v) \in done[b]
  PROVE  Sent(b, v)' = Sent(b, v)
<1>1. CubedSphere' = CubedSphere BY Fixed
<1>2. QED BY <1>1 DEF Sent, SentNo, In

LEMMA GotStays ==
  ASSUME NEW l, NEW v, setup' = setup, stage'[l[2]] = stage[l[2]],
         "RESTART_RECV" \in done'[l[2]] <=> "RESTART_RECV" \in done[l[2]],
         active'[l][v] = active[l][v]
  PROVE  Got(l, v)' = Got(l, v)
<1>1. CubedSphere' = CubedSphere BY Fixed
<1>2. QED BY <1>1 DEF Got, StartNo, In

LEMMA ChannelStays ==
  ASSUME NEW l, NEW v, ChannelRight(l, v), setup' = setup, eager' = eager,
         Sent(l[1], v)' = Sent(l[1], v), Got(l, v)' = Got(l, v),
         v \in sflag[l[1]] => v \in sflag'[l[1]],
         chan'[l][v] = chan[l][v], recvbuf'[l][v] = recvbuf[l][v]
  PROVE  ChannelRight(l, v)'
<1>1. CubedSphere' = CubedSphere BY Fixed
<1>2. QED BY <1>1 DEF ChannelRight

LEMMA FlagStays ==
  ASSUME NEW l, NEW v, FlagRight(l, v), setup' = setup,
         \A t \in {"CLEAR_ALLBND", "CLEAR_ALLBND2", "RESTART_RECV", RecvFirst(v),
                   RecvSecond(v)} :
           t \in done'[l[2]] <=> t \in done[l[2]],
         flag'[l][v] = flag[l][v], active'[l][v] = active[l][v]
  PROVE  FlagRight(l, v)'
<1>1. CubedSphere' = CubedSphere BY Fixed
<1>2. QED BY <1>1 DEF FlagRight

LEMMA LocalStays ==
  ASSUME NEW l, NEW v, LocalRight(l, v), setup' = setup,
         stage'[l[1]] = stage[l[1]], stage'[l[2]] = stage[l[2]],
         First(v) \in done'[l[1]] <=> First(v) \in done[l[1]],
         \A t \in {"CLEAR_ALLBND", RecvFirst(v)} :
           t \in done'[l[2]] => t \in done[l[2]],
         flag'[l][v] = flag[l][v], active'[l][v] = active[l][v],
         chan'[l][v] = chan[l][v], recvbuf'[l][v] = recvbuf[l][v]
  PROVE  LocalRight(l, v)'
BY DEF LocalRight

\* The tasks that say how far a block is with its exchanges.
Sends(v) == {First(v), Second(v)}
Receives(v) ==
  {"CLEAR_ALLBND", "RESTART_RECV", RecvFirst(v), RecvSecond(v), SetFirst(v), SetSecond(v)}

\* Nothing of a link changes.
LEMMA LinkStays ==
  ASSUME NEW l, NEW v, LinkRight(l, v), setup' = setup, eager' = eager,
         stage'[l[1]] = stage[l[1]], stage'[l[2]] = stage[l[2]],
         \A t \in Sends(v) : t \in done'[l[1]] <=> t \in done[l[1]],
         \A t \in Receives(v) \cup {"CLEAR_ALLBND2"} :
           t \in done'[l[2]] <=> t \in done[l[2]],
         v \in sflag[l[1]] => v \in sflag'[l[1]],
         chan'[l][v] = chan[l][v], active'[l][v] = active[l][v],
         flag'[l][v] = flag[l][v], recvbuf'[l][v] = recvbuf[l][v],
         ghost'[l][v] = ghost[l][v] \/ SetFirst(v) \notin done[l[2]]
  PROVE  LinkRight(l, v)'
<1>1. /\ \A t \in {First(v), Second(v)} : t \in done'[l[1]] <=> t \in done[l[1]]
      /\ \A t \in {"CLEAR_ALLBND", "CLEAR_ALLBND2", "RESTART_RECV", RecvFirst(v),
                   RecvSecond(v), SetFirst(v), SetSecond(v)} :
           t \in done'[l[2]] <=> t \in done[l[2]]
  BY DEF Sends, Receives
<1>2. GhostRight(l, v)'
  <2>1. CASE ghost'[l][v] = ghost[l][v] BY <1>1, <2>1, GhostStays DEF LinkRight
  <2>2. CASE SetFirst(v) \notin done[l[2]] BY <1>1, <2>2 DEF GhostRight
  <2>3. QED BY <2>1, <2>2
<1>3. Local(l)' <=> Local(l) BY Fixed DEF Local
<1>4. Remote(l)' <=> Remote(l) BY <1>3 DEF Remote
<1>5. Local(l) => LocalRight(l, v)' BY <1>1, LocalStays DEF LinkRight
<1>6. Sent(l[1], v)' = Sent(l[1], v) BY <1>1, SentStays2
<1>7. Got(l, v)' = Got(l, v) BY <1>1, GotStays
<1>8. Remote(l) => ChannelRight(l, v)' BY <1>6, <1>7, ChannelStays DEF LinkRight
<1>9. Remote(l) => FlagRight(l, v)' BY <1>1, FlagStays DEF LinkRight
<1>10. QED BY <1>2, <1>3, <1>4, <1>5, <1>8, <1>9 DEF LinkRight

\* One more task of a block has been done.
LEMMA OneMore ==
  ASSUME IInv, NEW b \in Block, NEW t, Finish(b, t)
  PROVE  /\ setup' = setup /\ eager' = eager /\ stage' = stage
         /\ done'[b] = done[b] \cup {t}
         /\ \A a \in Block \ {b} : done'[a] = done[a]
         /\ \A a \in Block : \A x : x # t => (x \in done'[a] <=> x \in done[a])
<1>1. done \in [Block -> SUBSET Task] BY DEF IInv, TypedState
<1>2. done' = [done EXCEPT ![b] = done[b] \cup {t}] BY DEF Finish
<1>3. done'[b] = done[b] \cup {t} /\ \A a \in Block \ {b} : done'[a] = done[a]
  BY <1>1, <1>2
<1>4. QED BY <1>3 DEF Finish

LEMMA NumbersTyped ==
  ASSUME IInv, XInv, NEW l \in Link, NEW v \in Var
  PROVE  /\ Sent(l[1], v) \in Int /\ Got(l, v) \in Int
         /\ stage[l[1]] \in Nat /\ stage[l[2]] \in Nat
<1>1. stage[l[1]] \in Nat /\ stage[l[2]] \in Nat
  BY LinkMesh DEF IInv, TypedState
<1>2. QED BY <1>1 DEF Sent, SentNo, Got, StartNo, In

-----------------------------------------------------------------------------
(* Computing.                                                               *)

\* A task that is no part of an exchange.
LEMMA QuietStep ==
  ASSUME IInv, XInv, NEW b \in Block, NEW t, Finish(b, t),
         \A v \in Var : t \notin Sends(v) \cup Receives(v) \cup {"CLEAR_ALLBND2"},
         UNCHANGED <<sends, receives>>, TypedBuffers',
         \A l \in Link, v \in Var :
           ghost'[l][v] = ghost[l][v] \/ SetFirst(v) \notin done[l[2]]
  PROVE  XInv'
<1>1. /\ setup' = setup /\ eager' = eager /\ stage' = stage
      /\ \A a \in Block : \A x : x # t => (x \in done'[a] <=> x \in done[a])
  BY OneMore
<1>2. Block' = Block /\ Var' = Var /\ Link' = Link BY <1>1, Fixed
<1>3. UNCHANGED <<sflag, sendbuf, chan, active, flag, recvbuf>> BY DEF sends, receives
<1>4. setup \in Setup BY DEF IInv, TypedState
<1>5. ASSUME NEW a \in Block PROVE BlockRight(a)'
  <2>1. \A v \in Var : t # First(v) /\ t # Second(v) BY DEF Sends
  <2>2. "hyd" \in Var BY DEF Var
  <2>3. t # "CLEAR_ALLBND2" BY <2>2
  <2>4. sflag[a] \subseteq Var BY DEF IInv, TypedFields
  <2>5. BlockRight(a) BY DEF XInv
  <2>6. QED BY <1>1, <1>3, <2>1, <2>3, <2>4, <2>5, BlockStays
<1>6. ASSUME NEW l \in Link, NEW v \in Var PROVE LinkRight(l, v)'
  <2>1. l[1] \in Block /\ l[2] \in Block BY <1>4, LinkMesh
  <2>2. \A x \in Sends(v) : x \in done'[l[1]] <=> x \in done[l[1]] BY <1>1, <2>1
  <2>3. \A x \in Receives(v) \cup {"CLEAR_ALLBND2"} :
          x \in done'[l[2]] <=> x \in done[l[2]]
    BY <1>1, <2>1
  <2>4. LinkRight(l, v) BY DEF XInv
  <2>5. QED BY <1>1, <1>3, <2>2, <2>3, <2>4, LinkStays
<1>7. QED BY <1>2, <1>5, <1>6 DEF XInv

LEMMA Averages ==
  ASSUME TypedBuffers, NEW b, NEW v, Averaged(b, v)
  PROVE  /\ ghost' \in [Link -> [Var -> Message]]
         /\ \A l \in Link, w \in Var :
              ghost'[l][w] = ghost[l][w] \/ (l[2] = b /\ w = v)
<1>1. CASE UNCHANGED ghost BY <1>1 DEF TypedBuffers
<1>2. CASE ghost' = [l \in Link |->
             IF l[2] = b THEN [ghost[l] EXCEPT ![v] = [value |-> {}, fresh |-> FALSE]]
             ELSE ghost[l]]
  <2>1. {} \in Content BY DEF Content
  <2>2. [value |-> {}, fresh |-> FALSE] \in Message BY <2>1, MessageTyped
  <2>3. QED BY <1>2, <2>2 DEF TypedBuffers
<1>3. QED BY <1>1, <1>2 DEF Averaged

LEMMA NotInExchange ==
  ASSUME NEW v, NEW t \in {"CALC_HYDFLX", "CALC_SCLRFLX", "ADD_FLX_CONS", "INT_HYD",
                          "INT_SCLR", "SRC_TERM", "IMPLICIT_CORR", "UPDATE_ALLCONS",
                          "CONS2PRIM"}
  PROVE  t \notin Sends(v) \cup Receives(v) \cup {"CLEAR_ALLBND2"}
BY DEF Sends, Receives, First, Second, RecvFirst, RecvSecond, SetFirst, SetSecond

LEMMA ComputeStep ==
  ASSUME IInv, XInv, NEW b \in Block, Compute(b)
  PROVE  XInv'
<1>1. TypedBuffers BY DEF XInv
<1>2. ASSUME NEW t, Finish(b, t), UNCHANGED <<sends, receives>>,
             ghost' \in [Link -> [Var -> Message]]
      PROVE  TypedBuffers'
  <2>1. setup' = setup /\ eager' = eager BY <1>2 DEF Finish
  <2>2. Block' = Block /\ Var' = Var /\ Link' = Link BY <2>1, Fixed
  <2>3. QED BY <1>1, <1>2, <2>1, <2>2 DEF TypedBuffers, sends, receives
<1>3. ASSUME NEW t \in {"CALC_HYDFLX", "CALC_SCLRFLX", "ADD_FLX_CONS", "SRC_TERM",
                       "IMPLICIT_CORR", "UPDATE_ALLCONS", "CONS2PRIM"},
             Finish(b, t), UNCHANGED <<ghost, sends, receives>>
      PROVE  XInv'
  <2>1. ghost' \in [Link -> [Var -> Message]] BY <1>1, <1>3 DEF TypedBuffers
  <2>2. TypedBuffers' BY <1>2, <1>3, <2>1
  <2>3. \A v \in Var : t \notin Sends(v) \cup Receives(v) \cup {"CLEAR_ALLBND2"}
    BY NotInExchange
  <2>4. QED BY <1>3, <2>2, <2>3, QuietStep
<1>4. CASE CalculateHydroFlux(b) BY <1>3, <1>4 DEF CalculateHydroFlux
<1>5. CASE CalculateScalarFlux(b) BY <1>3, <1>5 DEF CalculateScalarFlux
<1>6. CASE AddFluxToConserved(b) BY <1>3, <1>6 DEF AddFluxToConserved
<1>7. CASE AddSourceTerms(b) BY <1>3, <1>7 DEF AddSourceTerms
<1>8. CASE ImplicitCorrection(b) BY <1>3, <1>8 DEF ImplicitCorrection
<1>9. CASE UpdateAllConserved(b) BY <1>3, <1>9 DEF UpdateAllConserved
<1>10. CASE Primitives(b) BY <1>3, <1>10 DEF Primitives, fields
<1>11. ASSUME NEW v, NEW t, Ready(b, t), Finish(b, t), Averaged(b, v),
              t = (IF v = "hyd" THEN "INT_HYD" ELSE "INT_SCLR"),
              UNCHANGED <<sends, receives>>
       PROVE  XInv'
  <2>1. ghost' \in [Link -> [Var -> Message]]
        /\ \A l \in Link, w \in Var :
             ghost'[l][w] = ghost[l][w] \/ (l[2] = b /\ w = v)
    BY <1>1, <1>11, Averages
  <2>2. TypedBuffers' BY <1>2, <1>11, <2>1
  <2>3. ASSUME v \in Var PROVE SetFirst(v) \notin done[b]
    <3>1. InStage(b) /\ t \notin done[b] BY <1>11, Taken
    <3>2. v = "hyd" \/ (v = "sclr" /\ Scalars) BY <2>3, VarIs
    <3>3. "SRC_TERM" \notin done[b] BY <1>11, <3>1, <3>2, Chain DEF InStage
    <3>4. "UPDATE_ALLCONS" \notin done[b] BY <3>1, <3>3, Chain DEF InStage
    <3>5. "UPDATE_ALLCONS" \in Dep(SetFirst(v))
      BY <3>2 DEF SetFirst, Dep, CanoeDep, AthenaDep
    <3>6. QED BY <3>1, <3>4, <3>5 DEF InStage, Closed
  <2>4. \A w \in Var : t \notin Sends(w) \cup Receives(w) \cup {"CLEAR_ALLBND2"}
    BY <1>11, NotInExchange
  <2>5. \A l \in Link, w \in Var :
          ghost'[l][w] = ghost[l][w] \/ SetFirst(w) \notin done[l[2]]
    BY <2>1, <2>3
  <2>6. QED BY <1>11, <2>2, <2>4, <2>5, QuietStep
<1>12. CASE IntegrateHydro(b) BY <1>11, <1>12 DEF IntegrateHydro
<1>13. CASE IntegrateScalars(b) BY <1>11, <1>13 DEF IntegrateScalars
<1>14. QED
  BY <1>4, <1>5, <1>6, <1>7, <1>8, <1>9, <1>10, <1>12, <1>13 DEF Compute

-----------------------------------------------------------------------------
(* Sending.                                                                 *)
LEMMA TaskNames ==
  ASSUME NEW v \in Var, NEW w \in Var
  PROVE  /\ Sends(v) \cap (Receives(w) \cup {"CLEAR_ALLBND2"}) = {}
         /\ v # w => (Sends(v) \cup Receives(v)) \cap Sends(w) = {}
         /\ First(v) # Second(v)
BY VarIs DEF Sends, Receives, First, Second, RecvFirst, RecvSecond, SetFirst, SetSecond

\* The message a send makes has the next number, and nothing is marked.
LEMMA NextMessage ==
  ASSUME IInv, XInv, NEW b \in Block, NEW t, NEW v \in Var, t \in SendTask(v),
         Ready(b, t), Finish(b, t)
  PROVE  /\ v \notin sflag[b]
         /\ t = First(v) => ~ (CubedSphere /\ "CLEAR_ALLBND2" \in done[b])
         /\ Sent(b, v)' = Sent(b, v) + 1
         /\ Right(CubedSphere, v, Sent(b, v) + 1, Pack(b, v))
         /\ t = First(v) \/ (t = Second(v) /\ CubedSphere)
<1> DEFINE D == done[b]
           s == stage[b]
<1>1. /\ setup' = setup /\ stage' = stage /\ InStage(b) /\ t \in Task /\ t \notin D
      /\ Dep(t) \subseteq D /\ done'[b] = D \cup {t}
  BY Taken
<1>2. t = First(v) \/ (t = Second(v) /\ CubedSphere)
  <2>1. t = First(v) \/ t = Second(v) BY TasksOf
  <2>2. t \in Tasks(CubedSphere) BY <1>1, Places DEF IInv, TypedState
  <2>3. t = Second(v) => CubedSphere BY <2>2 DEF Second, Tasks, Early
  <2>4. QED BY <2>1, <2>3
<1>3. t = Second(v) => "CLEAR_ALLBND2" \in D
  <2>1. t = Second(v) => Dep(t) = {"CLEAR_ALLBND2"} BY Waits DEF Second
  <2>2. QED BY <1>1, <2>1
<1>4. First(v) # Second(v) BY TaskNames
<1>5. BlockRight(b) BY DEF XInv
<1>6. t = First(v) =>
        /\ ~ (CubedSphere /\ "CLEAR_ALLBND2" \in D)
        /\ CubedSphere => Second(v) \notin D
  BY <1>1, <1>5, ExchangeChain DEF BlockRight
<1>7. t = Second(v) => CubedSphere /\ First(v) \in D /\ SetFirst(v) \in D
  BY <1>2, <1>3, <1>4, <1>5, ExchangeChain DEF BlockRight
<1>8. v \notin sflag[b] BY <1>1, <1>2, <1>3, <1>5, <1>6 DEF BlockRight
<1>9. s \in Nat BY DEF IInv, TypedState
<1>10. CubedSphere' = CubedSphere BY <1>1, Fixed
<1>11. /\ Sent(b, v)' = Sent(b, v) + 1
       /\ Sent(b, v) + 1 = IF CubedSphere THEN (IF t = First(v) THEN 2 * s - 1 ELSE 2 * s)
                           ELSE s
  <2>1. CASE CubedSphere /\ t = First(v)
    BY <1>1, <1>4, <1>6, <1>9, <1>10, <2>1 DEF Sent, SentNo, In
  <2>2. CASE CubedSphere /\ t = Second(v)
    BY <1>1, <1>4, <1>7, <1>9, <1>10, <2>2 DEF Sent, SentNo, In
  <2>3. CASE ~ CubedSphere
    <3>1. t = First(v) BY <1>2, <2>3
    <3>2. QED BY <1>1, <1>9, <1>10, <2>3, <3>1 DEF Sent, SentNo, In
  <2>4. QED BY <1>2, <2>1, <2>2, <2>3
<1>12. Pack(b, v).value = Whole(v, s)
  <2>1. u[b][v] = Whole(v, s) BY <1>1, SendsWhole
  <2>2. QED BY <2>1 DEF Pack
<1>13. ~ CubedSphere \/ t = Second(v) => Pack(b, v).fresh = TRUE
  <2>1. ASSUME t = Second(v), NEW l \in LinksTo(b)
        PROVE  ghost[l][v].value = Whole(v, s)
    <3>1. l \in Link /\ l[2] = b BY DEF LinksTo
    <3>2. GhostRight(l, v) BY <3>1 DEF XInv, LinkRight
    <3>3. QED BY <1>7, <2>1, <3>1, <3>2 DEF GhostRight
  <2>2. QED BY <2>1 DEF Pack
<1>14. Right(CubedSphere, v, Sent(b, v) + 1, Pack(b, v))
  <2>1. CASE CubedSphere /\ t = First(v)
    <3>1. ((2 * s - 1) + 1) \div 2 = s /\ (2 * s - 1) % 2 = 1 BY <1>9
    <3>2. QED BY <1>11, <1>12, <2>1, <3>1 DEF Right, StageOf
  <2>2. CASE CubedSphere /\ t = Second(v)
    <3>1. (2 * s + 1) \div 2 = s BY <1>9
    <3>2. QED BY <1>4, <1>11, <1>12, <1>13, <2>2, <3>1 DEF Right, StageOf
  <2>3. CASE ~ CubedSphere BY <1>11, <1>12, <1>13, <2>3 DEF Right, StageOf
  <2>4. QED BY <1>2, <2>1, <2>2, <2>3
<1>15. QED BY <1>2, <1>6, <1>8, <1>11, <1>14

LEMMA PackTyped ==
  ASSUME IInv, NEW b \in Block, NEW v \in Var
  PROVE  Pack(b, v) \in Message
<1>1. u[b][v] \in Content BY DEF IInv, TypedFields
<1> DEFINE fresh == CubedSphere =>
             \A l \in LinksTo(b) : ghost[l][v].value = Whole(v, stage[b])
<1>2. fresh \in BOOLEAN OBVIOUS
<1>3. Pack(b, v) = [value |-> u[b][v], fresh |-> fresh] BY Zenon DEF Pack
<1> HIDE DEF fresh
<1>4. QED BY <1>1, <1>2, <1>3, MessageTyped, Zenon

\* What a send changes of a link.
LEMMA SentOver ==
  ASSUME IInv, XInv, NEW b \in Block, NEW t, NEW v \in Var, Send(b, t, v),
         v \notin sflag[b]
  PROVE  /\ TypedBuffers'
         /\ UNCHANGED <<ghost, active>>
         /\ sflag'[b] = sflag[b] \cup {v} /\ sendbuf'[b][v] = Pack(b, v)
         /\ \A w \in Var \ {v} : sendbuf'[b][w] = sendbuf[b][w]
         /\ \A a \in Block \ {b} : sflag'[a] = sflag[a] /\ sendbuf'[a] = sendbuf[a]
         /\ \A l \in Link, w \in Var : w # v \/ l[1] # b =>
              /\ chan'[l][w] = chan[l][w] /\ recvbuf'[l][w] = recvbuf[l][w]
              /\ flag'[l][w] = flag[l][w]
         /\ \A l \in Link : l[1] = b =>
              IF Remote(l)
              THEN /\ chan'[l][v] = Append(chan[l][v], Pack(b, v))
                   /\ recvbuf'[l][v] = recvbuf[l][v] /\ flag'[l][v] = flag[l][v]
              ELSE /\ chan'[l][v] = chan[l][v]
                   /\ recvbuf'[l][v] = Pack(b, v) /\ flag'[l][v] = "arrived"
<1>1. /\ sflag' = [sflag EXCEPT ![b] = sflag[b] \cup {v}]
      /\ sendbuf' = [sendbuf EXCEPT ![b][v] = Pack(b, v)]
      /\ chan' = [l \in Link |->
           IF l \in LinksFrom(b) /\ Remote(l)
           THEN [chan[l] EXCEPT ![v] = Append(chan[l][v], Pack(b, v))] ELSE chan[l]]
      /\ recvbuf' = [l \in Link |->
           IF l \in LinksFrom(b) /\ Local(l)
           THEN [recvbuf[l] EXCEPT ![v] = Pack(b, v)] ELSE recvbuf[l]]
      /\ flag' = [l \in Link |->
           IF l \in LinksFrom(b) /\ Local(l)
           THEN [flag[l] EXCEPT ![v] = "arrived"] ELSE flag[l]]
      /\ UNCHANGED <<ghost, active>> /\ setup' = setup /\ eager' = eager
  BY DEF Send, Finish, fields
<1>2. TypedBuffers /\ TypedFields BY DEF XInv, IInv
<1>3. Pack(b, v) \in Message BY PackTyped
<1>4. Block' = Block /\ Var' = Var /\ Link' = Link BY <1>1, Fixed
<1>5. \A l \in Link : Append(chan[l][v], Pack(b, v)) \in Seq(Message)
  BY <1>2, <1>3, AppendProperties DEF TypedBuffers
<1>6. TypedBuffers'
  <2>1. chan' \in [Link -> [Var -> Seq(Message)]]
    BY <1>1, <1>2, <1>5 DEF TypedBuffers
  <2>2. recvbuf' \in [Link -> [Var -> Message]] BY <1>1, <1>2, <1>3 DEF TypedBuffers
  <2>3. flag' \in [Link -> [Var -> {"waiting", "arrived", "completed"}]]
    BY <1>1, <1>2 DEF TypedBuffers
  <2>4. QED BY <1>1, <1>2, <1>4, <2>1, <2>2, <2>3 DEF TypedBuffers
<1>7. \A l \in Link : l \in LinksFrom(b) <=> l[1] = b BY DEF LinksFrom
<1>8. \A l \in Link : Remote(l) <=> ~ Local(l) BY DEF Remote
<1>9. /\ sflag'[b] = sflag[b] \cup {v} /\ sendbuf'[b][v] = Pack(b, v)
      /\ \A w \in Var \ {v} : sendbuf'[b][w] = sendbuf[b][w]
      /\ \A a \in Block \ {b} : sflag'[a] = sflag[a] /\ sendbuf'[a] = sendbuf[a]
  BY <1>1, <1>2 DEF TypedFields
<1>10. ASSUME NEW l \in Link, NEW w \in Var, w # v \/ l[1] # b
       PROVE  /\ chan'[l][w] = chan[l][w] /\ recvbuf'[l][w] = recvbuf[l][w]
              /\ flag'[l][w] = flag[l][w]
  BY <1>1, <1>2, <1>7, <1>10 DEF TypedBuffers
<1>11. ASSUME NEW l \in Link, l[1] = b
       PROVE  IF Remote(l)
              THEN /\ chan'[l][v] = Append(chan[l][v], Pack(b, v))
                   /\ recvbuf'[l][v] = recvbuf[l][v] /\ flag'[l][v] = flag[l][v]
              ELSE /\ chan'[l][v] = chan[l][v]
                   /\ recvbuf'[l][v] = Pack(b, v) /\ flag'[l][v] = "arrived"
  BY <1>1, <1>2, <1>7, <1>8, <1>11 DEF TypedBuffers
<1>12. QED BY <1>1, <1>6, <1>9, <1>10, <1>11

LEMMA SendStep ==
  ASSUME IInv, XInv, NEW b \in Block, NEW t, NEW v \in Var, Send(b, t, v)
  PROVE  XInv'
<1>1. Ready(b, t) /\ Finish(b, t) /\ t \in SendTask(v) BY DEF Send
<1>2. /\ v \notin sflag[b]
      /\ t = First(v) => ~ (CubedSphere /\ "CLEAR_ALLBND2" \in done[b])
      /\ Sent(b, v)' = Sent(b, v) + 1
      /\ Right(CubedSphere, v, Sent(b, v) + 1, Pack(b, v))
      /\ t = First(v) \/ (t = Second(v) /\ CubedSphere)
  BY <1>1, NextMessage
<1>3. /\ setup' = setup /\ eager' = eager /\ stage' = stage
      /\ done'[b] = done[b] \cup {t}
      /\ \A a \in Block \ {b} : done'[a] = done[a]
      /\ \A a \in Block : \A x : x # t => (x \in done'[a] <=> x \in done[a])
  BY <1>1, OneMore
<1>4. InStage(b) /\ t \notin done[b] BY <1>1, Taken
<1>5. /\ Block' = Block /\ Var' = Var /\ Link' = Link /\ CubedSphere' = CubedSphere
      /\ RankOf' = RankOf
  BY <1>3, Fixed
<1>6. setup \in Setup BY DEF IInv, TypedState
<1>7. /\ TypedBuffers'
      /\ UNCHANGED <<ghost, active>>
      /\ sflag'[b] = sflag[b] \cup {v} /\ sendbuf'[b][v] = Pack(b, v)
      /\ \A w \in Var \ {v} : sendbuf'[b][w] = sendbuf[b][w]
      /\ \A a \in Block \ {b} : sflag'[a] = sflag[a] /\ sendbuf'[a] = sendbuf[a]
      /\ \A l \in Link, w \in Var : w # v \/ l[1] # b =>
           /\ chan'[l][w] = chan[l][w] /\ recvbuf'[l][w] = recvbuf[l][w]
           /\ flag'[l][w] = flag[l][w]
      /\ \A l \in Link : l[1] = b =>
           IF Remote(l)
           THEN /\ chan'[l][v] = Append(chan[l][v], Pack(b, v))
                /\ recvbuf'[l][v] = recvbuf[l][v] /\ flag'[l][v] = flag[l][v]
           ELSE /\ chan'[l][v] = chan[l][v]
                /\ recvbuf'[l][v] = Pack(b, v) /\ flag'[l][v] = "arrived"
  BY <1>2, SentOver
<1>8. t \in Sends(v) BY <1>2 DEF Sends
<1>9. \A w \in Var : t \notin Receives(w) \cup {"CLEAR_ALLBND2"} BY <1>8, TaskNames
<1>10. \A w \in Var \ {v} : t \notin Sends(w) BY <1>8, TaskNames
<1>11. ASSUME NEW a \in Block PROVE BlockRight(a)'
  <2>1. BlockRight(a) BY DEF XInv
  <2>2. CASE a # b
    <3>1. sflag[a] \subseteq Var BY DEF IInv, TypedFields
    <3>2. done'[a] = done[a] BY <1>3, <2>2
    <3>3. QED BY <1>3, <1>7, <2>1, <2>2, <3>1, <3>2, BlockStays
  <2>3. CASE a = b
    <3>1. "CLEAR_ALLBND2" \in done'[b] <=> "CLEAR_ALLBND2" \in done[b] BY <1>3, <1>9
    <3>2. \A w \in Var : /\ First(w) \in done[b] => First(w) \in done'[b]
                         /\ Second(w) \in done[b] => Second(w) \in done'[b]
      BY <1>3
    <3>3. sflag[b] \subseteq Var BY DEF IInv, TypedFields
    <3>4. CASE t = First(v)
      <4>1. \A w \in Var : Right(CubedSphere, w, Sent(b, w)', sendbuf'[b][w])
        <5>1. Right(CubedSphere, v, Sent(b, v)', sendbuf'[b][v]) BY <1>2, <1>7
        <5>2. ASSUME NEW w \in Var \ {v}
              PROVE  Right(CubedSphere, w, Sent(b, w)', sendbuf'[b][w])
          <6>1. Sent(b, w)' = Sent(b, w)
            BY <1>3, <1>10, SentStays2 DEF Sends
          <6>2. QED BY <1>7, <2>1, <2>3, <6>1 DEF BlockRight
        <5>3. QED BY <5>1, <5>2
      <4>2. QED
        BY <1>2, <1>3, <1>5, <1>7, <2>1, <2>3, <3>1, <3>2, <3>3, <3>4, <4>1 DEF BlockRight
    <3>5. CASE t = Second(v) /\ CubedSphere
      <4>1. \A w \in Var : Right(CubedSphere, w, Sent(b, w)', sendbuf'[b][w])
        <5>1. Right(CubedSphere, v, Sent(b, v)', sendbuf'[b][v]) BY <1>2, <1>7
        <5>2. ASSUME NEW w \in Var \ {v}
              PROVE  Right(CubedSphere, w, Sent(b, w)', sendbuf'[b][w])
          <6>1. Sent(b, w)' = Sent(b, w)
            BY <1>3, <1>10, SentStays2 DEF Sends
          <6>2. QED BY <1>7, <2>1, <2>3, <6>1 DEF BlockRight
        <5>3. QED BY <5>1, <5>2
      <4>2. "CLEAR_ALLBND2" \in done[b]
        <5>1. Dep(t) \subseteq done[b] BY <1>1, Taken
        <5>2. Dep(t) = {"CLEAR_ALLBND2"} BY <3>5, Waits DEF Second
        <5>3. QED BY <5>1, <5>2
      <4>3. QED
        BY <1>3, <1>5, <1>7, <2>1, <2>3, <3>1, <3>2, <3>3, <3>5, <4>1, <4>2 DEF BlockRight
    <3>6. QED BY <1>2, <3>4, <3>5
  <2>4. QED BY <2>2, <2>3
<1>12. ASSUME NEW l \in Link, NEW w \in Var PROVE LinkRight(l, w)'
  <2>1. LinkRight(l, w) BY DEF XInv
  <2>2. /\ l[1] \in Block /\ l[2] \in Block
        /\ Local(l) => ~ CubedSphere
        /\ Local(l) <=> RankOf[l[1]] = RankOf[l[2]]
    BY <1>6, LinkMesh
  <2>3. \A x \in Receives(w) \cup {"CLEAR_ALLBND2"} :
          x \in done'[l[2]] <=> x \in done[l[2]]
    BY <1>3, <1>9, <2>2
  <2>4. w \in sflag[l[1]] => w \in sflag'[l[1]] BY <1>7, <2>2
  <2>5. CASE w # v \/ l[1] # b
    <3>1. \A x \in Sends(w) : x \in done'[l[1]] <=> x \in done[l[1]]
      BY <1>3, <1>10, <2>2, <2>5
    <3>2. QED BY <1>3, <1>7, <2>1, <2>3, <2>4, <2>5, <3>1, LinkStays
  <2>6. CASE w = v /\ l[1] = b
    <3>1. /\ SetFirst(v) \in done'[l[2]] => SetFirst(v) \in done[l[2]]
          /\ SetSecond(v) \in done'[l[2]] => SetSecond(v) \in done[l[2]]
      BY <2>3, <2>6 DEF Receives
    <3>2. GhostRight(l, v)' BY <1>3, <1>7, <2>1, <2>6, <3>1, GhostStays DEF LinkRight
    <3>3. Local(l)' <=> Local(l) BY <1>5 DEF Local
    <3>4. CASE Local(l)
      <4>1. LocalRight(l, v) BY <2>1, <2>6, <3>4 DEF LinkRight
      <4>2. t = First(v) /\ ~ CubedSphere BY <1>2, <2>2, <3>4
      <4>3. /\ recvbuf'[l][v] = Pack(b, v) /\ flag'[l][v] = "arrived"
            /\ chan'[l][v] = chan[l][v] /\ active' = active
        BY <1>7, <2>6, <3>4 DEF Remote
      <4>4. Pack(b, v).value = Whole(v, stage[b]) /\ Pack(b, v).fresh = TRUE
        <5>1. u[b][v] = Whole(v, stage[b]) BY <1>1, <1>4, SendsWhole
        <5>2. QED BY <4>2, <5>1 DEF Pack
      <4>5. "CLEAR_ALLBND" \notin done'[l[2]]
        <5>1. First(v) \notin done[b] BY <1>4, <4>2
        <5>2. RecvFirst(v) \notin done[l[2]] BY <2>6, <4>1, <5>1 DEF LocalRight
        <5>3. "CLEAR_ALLBND" \notin done[l[2]]
          BY <2>2, <4>2, <5>2, ExchangeChain
        <5>4. QED BY <2>3, <5>3 DEF Receives
      <4>6. First(v) \in done'[l[1]] BY <1>3, <2>6, <4>2
      <4>7. LocalRight(l, v)'
        BY <1>3, <2>6, <4>1, <4>3, <4>4, <4>5, <4>6 DEF LocalRight
      <4>8. QED BY <2>6, <3>2, <3>3, <3>4, <4>7 DEF LinkRight, Remote
    <3>5. CASE Remote(l)
      <4>1. ChannelRight(l, v) /\ FlagRight(l, v) BY <2>1, <2>6, <3>5 DEF LinkRight
      <4>2. chan'[l][v] = Append(chan[l][v], Pack(b, v))
            /\ recvbuf'[l][v] = recvbuf[l][v] /\ flag'[l][v] = flag[l][v]
        BY <1>7, <2>6, <3>5
      <4>3. FlagRight(l, v)'
        BY <1>3, <1>7, <2>3, <2>6, <4>1, <4>2, FlagStays DEF Receives
      <4>4. Got(l, v)' = Got(l, v)
        BY <1>3, <1>7, <2>3, <2>6, GotStays DEF Receives
      <4>5. ChannelRight(l, v)'
        <5> DEFINE n == Len(chan[l][v])
        <5>1. chan[l][v] \in Seq(Message) BY DEF XInv, TypedBuffers
        <5>2. n \in Nat BY <5>1, LenProperties
        <5>3. /\ Len(chan'[l][v]) = n + 1 /\ chan'[l][v][n + 1] = Pack(b, v)
              /\ \A i \in 1 .. n : chan'[l][v][i] = chan[l][v][i]
          <6>1. Pack(b, v) \in Message BY PackTyped
          <6>2. /\ Len(Append(chan[l][v], Pack(b, v))) = n + 1
                /\ \A i \in 1 .. n : Append(chan[l][v], Pack(b, v))[i] = chan[l][v][i]
                /\ Append(chan[l][v], Pack(b, v))[n + 1] = Pack(b, v)
            BY <5>1, <6>1, AppendProperties
          <6>3. QED BY <4>2, <6>2
        <5>4. /\ n = Sent(l[1], v) - Got(l, v)
              /\ Sent(l[1], v) \in Int /\ Got(l, v) \in Int
          BY <4>1, NumbersTyped DEF ChannelRight
        <5> HIDE DEF n
        <5>5. Len(chan'[l][v]) = Sent(l[1], v)' - Got(l, v)'
          BY <1>2, <2>6, <4>4, <5>2, <5>3, <5>4
        <5>6. ASSUME NEW i \in 1 .. n + 1
              PROVE  Right(CubedSphere, v, Got(l, v) + i, chan'[l][v][i])
          <6>1. CASE i = n + 1
            <7>1. Got(l, v) + i = Sent(b, v) + 1 BY <2>6, <5>2, <5>4, <6>1
            <7>2. QED BY <1>2, <5>3, <6>1, <7>1
          <6>2. CASE i \in 1 .. n BY <4>1, <5>3, <6>2 DEF ChannelRight, n
          <6>3. QED BY <5>2, <6>1, <6>2
        <5>7. eager = FALSE => v \in sflag'[b] /\ Len(chan'[l][v]) = 1
          <6>1. eager = FALSE => chan[l][v] = <<>>
            BY <1>2, <2>6, <4>1 DEF ChannelRight
          <6>2. eager = FALSE => n = 0 BY <6>1, EmptySeq DEF n
          <6>3. QED BY <1>7, <5>3, <6>2
        <5>8. QED
          BY <1>3, <1>5, <2>6, <4>1, <4>2, <4>4, <5>3, <5>5, <5>6, <5>7 DEF ChannelRight
      <4>6. QED BY <2>6, <3>2, <3>3, <3>5, <4>3, <4>5 DEF LinkRight, Remote
    <3>6. QED BY <3>4, <3>5 DEF Remote
  <2>7. QED BY <2>5, <2>6
<1>13. QED BY <1>5, <1>7, <1>11, <1>12 DEF XInv

-----------------------------------------------------------------------------
(* Receiving.                                                               *)

\* A task of b that receives: other blocks, and what was sent, stay right.
LEMMA SendersStay ==
  ASSUME IInv, XInv, NEW b \in Block, NEW t, Finish(b, t), UNCHANGED sends,
         \A w \in Var : t \notin Sends(w) \cup {"CLEAR_ALLBND2"}
  PROVE  \A a \in Block : BlockRight(a)'
<1> SUFFICES ASSUME NEW a \in Block PROVE BlockRight(a)'
  OBVIOUS
<1>1. /\ setup' = setup /\ stage' = stage
      /\ \A x : x # t => (x \in done'[a] <=> x \in done[a])
  BY OneMore
<1>2. \A w \in Var : t # First(w) /\ t # Second(w) BY DEF Sends
<1>3. "hyd" \in Var BY DEF Var
<1>4. t # "CLEAR_ALLBND2" BY <1>3
<1>5. BlockRight(a) /\ sflag[a] \subseteq Var BY DEF XInv, IInv, TypedFields
<1>6. sflag'[a] = sflag[a] /\ sendbuf'[a] = sendbuf[a] BY DEF sends
<1>7. QED BY <1>1, <1>2, <1>4, <1>5, <1>6, BlockStays

\* And links on which nothing arrives.
LEMMA OtherLinksStay ==
  ASSUME IInv, XInv, NEW b \in Block, NEW t, Finish(b, t), UNCHANGED sends,
         NEW l \in Link, NEW v \in Var, t \notin Sends(v),
         l[2] = b => t \notin Receives(v) \cup {"CLEAR_ALLBND2"},
         active'[l][v] = active[l][v], flag'[l][v] = flag[l][v],
         recvbuf'[l][v] = recvbuf[l][v], ghost'[l][v] = ghost[l][v]
  PROVE  LinkRight(l, v)'
<1>1. /\ setup' = setup /\ eager' = eager /\ stage' = stage
      /\ \A a \in Block \ {b} : done'[a] = done[a]
      /\ \A a \in Block : \A x : x # t => (x \in done'[a] <=> x \in done[a])
  BY OneMore
<1>2. l[1] \in Block /\ l[2] \in Block BY LinkMesh DEF IInv, TypedState
<1>3. \A x \in Sends(v) : x \in done'[l[1]] <=> x \in done[l[1]] BY <1>1, <1>2
<1>4. \A x \in Receives(v) \cup {"CLEAR_ALLBND2"} :
        x \in done'[l[2]] <=> x \in done[l[2]]
  BY <1>1, <1>2
<1>5. LinkRight(l, v) BY DEF XInv
<1>6. sflag' = sflag /\ chan' = chan BY DEF sends
<1>7. QED BY <1>1, <1>3, <1>4, <1>5, <1>6, LinkStays

LEMMA RecvNames ==
  ASSUME NEW v \in Var, NEW w \in Var
  PROVE  /\ {RecvFirst(v), RecvSecond(v), SetFirst(v), SetSecond(v)}
              \cap (Sends(w) \cup {"CLEAR_ALLBND2", "CLEAR_ALLBND", "RESTART_RECV"}) = {}
         /\ v # w => {RecvFirst(v), RecvSecond(v), SetFirst(v), SetSecond(v)}
                       \cap Receives(w) = {}
         /\ RecvFirst(v) # RecvSecond(v) /\ SetFirst(v) # SetSecond(v)
         /\ {RecvFirst(v), RecvSecond(v)} \cap {SetFirst(v), SetSecond(v)} = {}
BY VarIs DEF Sends, Receives, First, Second, RecvFirst, RecvSecond, SetFirst, SetSecond

\* Tasks of the second exchange are those of the cubed sphere.
LEMMA SecondOfSphere ==
  ASSUME setup \in Setup, NEW v,
         NEW t \in Task \cap {"RESTART_RECV", "CLEAR_ALLBND2", Second(v), RecvSecond(v),
                              SetSecond(v)}
  PROVE  CubedSphere
<1>1. t \in Tasks(CubedSphere) BY Places
<1>2. QED BY <1>1 DEF Tasks, Early, Second, RecvSecond, SetSecond

\* How far a block is that is about to receive.
LEMMA AboutToReceive ==
  ASSUME IInv, NEW b \in Block, NEW v \in Var, NEW t, t \in RecvTask(v), Ready(b, t),
         Finish(b, t)
  PROVE  /\ t \notin done[b] /\ done'[b] = done[b] \cup {t}
         /\ "CLEAR_ALLBND" \notin done[b]
         /\ \/ t = RecvFirst(v) /\ ~ (CubedSphere /\ "CLEAR_ALLBND2" \in done[b])
               /\ ~ (CubedSphere /\ "RESTART_RECV" \in done[b])
               /\ ~ (CubedSphere /\ RecvSecond(v) \in done[b])
            \/ /\ t = RecvSecond(v) /\ CubedSphere /\ "CLEAR_ALLBND2" \in done[b]
               /\ "RESTART_RECV" \in done[b] /\ RecvFirst(v) \in done[b]
<1>1. /\ t \in Task /\ t \notin done[b] /\ Dep(t) \subseteq done[b]
      /\ done'[b] = done[b] \cup {t}
  BY Taken
<1>2. t = RecvFirst(v) \/ t = RecvSecond(v) BY TasksOf
<1>3. t = RecvSecond(v) => CubedSphere BY <1>1, SecondOfSphere DEF IInv, TypedState
<1>4. t = RecvSecond(v) => "RESTART_RECV" \in done[b]
  <2>1. "RESTART_RECV" \in Dep(RecvSecond(v))
    BY VarIs DEF RecvSecond, Dep, CanoeDep, AthenaDep, WithScalars
  <2>2. QED BY <1>1, <2>1
<1>5. QED BY <1>1, <1>2, <1>3, <1>4, ExchangeChain

LEMMA ReceiveStep ==
  ASSUME IInv, XInv, NEW b \in Block, NEW t, NEW v \in Var, Receive(b, t, v)
  PROVE  XInv'
<1>1. /\ Ready(b, t) /\ Finish(b, t) /\ t \in RecvTask(v)
      /\ UNCHANGED <<ghost, sends, active, recvbuf>>
      /\ flag' = [l \in Link |->
           IF l \in LinksTo(b) /\ flag[l][v] = "waiting"
           THEN [flag[l] EXCEPT ![v] = "arrived"] ELSE flag[l]]
  BY DEF Receive, fields
<1>2. /\ setup' = setup /\ eager' = eager /\ stage' = stage
      /\ \A a \in Block \ {b} : done'[a] = done[a]
      /\ \A a \in Block : \A x : x # t => (x \in done'[a] <=> x \in done[a])
  BY <1>1, OneMore
<1>3. /\ Block' = Block /\ Var' = Var /\ Link' = Link /\ CubedSphere' = CubedSphere
      /\ RankOf' = RankOf
  BY <1>2, Fixed
<1>4. TypedBuffers BY DEF XInv
<1>5. UNCHANGED <<sflag, sendbuf, chan>> BY <1>1 DEF sends
<1>6. TypedBuffers'
  <2>1. flag' \in [Link -> [Var -> {"waiting", "arrived", "completed"}]]
    BY <1>1, <1>4 DEF TypedBuffers
  <2>2. QED BY <1>1, <1>2, <1>3, <1>4, <1>5, <2>1 DEF TypedBuffers
<1>7. t \in {RecvFirst(v), RecvSecond(v)} BY <1>1, TasksOf
<1>8. /\ \A w \in Var : t \notin Sends(w) \cup {"CLEAR_ALLBND2"}
      /\ \A w \in Var \ {v} : t \notin Receives(w)
  BY <1>7, RecvNames
<1>9. \A a \in Block : BlockRight(a)' BY <1>1, <1>8, SendersStay
<1>10. ASSUME NEW l \in Link, NEW w \in Var PROVE LinkRight(l, w)'
  <2>1. LinkRight(l, w) BY DEF XInv
  <2>2. l \in LinksTo(b) <=> l[2] = b BY DEF LinksTo
  <2>3. CASE w # v \/ l[2] # b
    <3>1. flag'[l][w] = flag[l][w] BY <1>1, <1>4, <2>2, <2>3 DEF TypedBuffers
    <3>2. QED BY <1>1, <1>8, <2>3, <3>1, OtherLinksStay
  <2>4. CASE w = v /\ l[2] = b
    <3>1. /\ l[1] \in Block /\ l[2] \in Block /\ (Local(l) => ~ CubedSphere)
      BY LinkMesh DEF IInv, TypedState
    <3> DEFINE D == done[b]
    <3>2. /\ t \notin D /\ done'[b] = D \cup {t}
          /\ "CLEAR_ALLBND" \notin D
          /\ \/ t = RecvFirst(v) /\ ~ (CubedSphere /\ "CLEAR_ALLBND2" \in D)
                /\ ~ (CubedSphere /\ "RESTART_RECV" \in D)
                /\ ~ (CubedSphere /\ RecvSecond(v) \in D)
             \/ /\ t = RecvSecond(v) /\ CubedSphere /\ "CLEAR_ALLBND2" \in D
                /\ "RESTART_RECV" \in D /\ RecvFirst(v) \in D
      BY <1>1, AboutToReceive
    <3>3. /\ t # "CLEAR_ALLBND" /\ t # "CLEAR_ALLBND2" /\ t # "RESTART_RECV"
          /\ t # SetFirst(v) /\ t # SetSecond(v) /\ t # First(v) /\ t # Second(v)
      BY <1>7, RecvNames DEF Sends
    <3>4. flag[l][v] = "waiting" => Remote(l) /\ active[l][v] = FALSE
      <4>1. AllArrived(b, v) BY <1>1 DEF Ready, Executable
      <4>2. active[l][v] \in BOOLEAN BY <1>4 DEF TypedBuffers
      <4>3. QED BY <2>2, <2>4, <4>1, <4>2 DEF AllArrived
    <3>5. /\ flag[l][v] = "waiting" => flag'[l][v] = "arrived"
          /\ flag[l][v] # "waiting" => flag'[l][v] = flag[l][v]
      BY <1>1, <1>4, <2>2, <2>4 DEF TypedBuffers
    <3>6. GhostRight(l, v)'
      BY <1>1, <1>2, <2>1, <2>4, <3>1, <3>3, GhostStays DEF LinkRight
    <3>7. Local(l)' <=> Local(l) BY <1>3 DEF Local
    <3>8. CASE Local(l)
      <4>1. LocalRight(l, v) BY <2>1, <2>4, <3>8 DEF LinkRight
      <4>2. flag'[l][v] = flag[l][v] /\ flag[l][v] # "waiting"
        BY <3>4, <3>5, <3>8 DEF Remote
      <4>3. First(v) \in done[l[1]] BY <4>1, <4>2 DEF LocalRight
      <4>4. First(v) \in done'[l[1]] BY <1>2, <3>1, <3>3, <4>3
      <4>5. "CLEAR_ALLBND" \notin done'[b] BY <3>2, <3>3
      <4>6. LocalRight(l, v)'
        BY <1>1, <1>2, <1>5, <2>4, <4>1, <4>2, <4>3, <4>4, <4>5 DEF LocalRight
      <4>7. QED BY <2>4, <3>6, <3>7, <3>8, <4>6 DEF LinkRight, Remote
    <3>9. CASE Remote(l)
      <4>1. ChannelRight(l, v) /\ FlagRight(l, v) BY <2>1, <2>4, <3>9 DEF LinkRight
      <4>2. Sent(l[1], v)' = Sent(l[1], v) BY <1>2, <3>1, <3>3, SentStays2
      <4>3. Got(l, v)' = Got(l, v) BY <1>1, <1>2, <3>1, <3>3, GotStays
      <4>4. ChannelRight(l, v)' BY <1>1, <1>2, <1>5, <4>1, <4>2, <4>3, ChannelStays
      <4>5. flag[l][v] = "waiting" BY <2>4, <3>2, <4>1 DEF FlagRight
      <4>6. active'[l][v] = FALSE BY <1>1, <3>4, <4>5
      <4>7. FlagRight(l, v)' BY <1>3, <2>4, <3>2, <3>3, <4>6 DEF FlagRight
      <4>8. QED BY <2>4, <3>6, <3>7, <3>9, <4>4, <4>7 DEF LinkRight, Remote
    <3>10. QED BY <3>8, <3>9 DEF Remote
  <2>5. QED BY <2>3, <2>4
<1>11. QED BY <1>3, <1>6, <1>9, <1>10 DEF XInv

-----------------------------------------------------------------------------
(* Filling the ghost cells.                                                 *)

\* How far a block is that is about to fill its ghost cells.
LEMMA AboutToSet ==
  ASSUME IInv, NEW b \in Block, NEW v \in Var, NEW t, t \in SetTask(v), Ready(b, t),
         Finish(b, t)
  PROVE  /\ t \notin done[b] /\ done'[b] = done[b] \cup {t}
         /\ "CLEAR_ALLBND" \notin done[b] /\ RecvFirst(v) \in done[b]
         /\ \/ t = SetFirst(v) /\ ~ (CubedSphere /\ "CLEAR_ALLBND2" \in done[b])
               /\ ~ (CubedSphere /\ "RESTART_RECV" \in done[b])
               /\ ~ (CubedSphere /\ SetSecond(v) \in done[b])
            \/ /\ t = SetSecond(v) /\ CubedSphere /\ "RESTART_RECV" \in done[b]
               /\ RecvSecond(v) \in done[b]
<1>1. /\ t \in Task /\ t \notin done[b] /\ Dep(t) \subseteq done[b]
      /\ done'[b] = done[b] \cup {t}
  BY Taken
<1>2. t = SetFirst(v) \/ t = SetSecond(v) BY TasksOf
<1>3. t = SetSecond(v) => CubedSphere BY <1>1, SecondOfSphere DEF IInv, TypedState
<1>4. /\ t = SetFirst(v) => RecvFirst(v) \in done[b]
      /\ t = SetSecond(v) => RecvSecond(v) \in done[b]
  <2>1. RecvFirst(v) \in Dep(SetFirst(v)) /\ RecvSecond(v) \in Dep(SetSecond(v))
    BY VarIs DEF RecvFirst, SetFirst, RecvSecond, SetSecond, Dep, CanoeDep, AthenaDep
  <2>2. QED BY <1>1, <2>1
<1>5. QED BY <1>1, <1>2, <1>3, <1>4, ExchangeChain

\* What is in the buffer then.
LEMMA BufferFilled ==
  ASSUME IInv, XInv, NEW b \in Block, NEW v \in Var, NEW t, t \in SetTask(v),
         Ready(b, t), Finish(b, t), NEW l \in Link, l[2] = b
  PROVE  /\ recvbuf[l][v].value = Whole(v, stage[b])
         /\ ~ CubedSphere \/ t = SetSecond(v) => recvbuf[l][v].fresh = TRUE
         /\ Local(l) => First(v) \in done[l[1]]
<1> DEFINE D == done[b]
           s == stage[b]
<1>1. /\ RecvFirst(v) \in D
      /\ \/ t = SetFirst(v) /\ ~ (CubedSphere /\ "RESTART_RECV" \in D)
         \/ /\ t = SetSecond(v) /\ CubedSphere /\ "RESTART_RECV" \in D
            /\ RecvSecond(v) \in D
  BY AboutToSet
<1>2. SetFirst(v) # SetSecond(v) BY RecvNames
<1>3. s \in Nat BY DEF IInv, TypedState
<1>4. LinkRight(l, v) BY DEF XInv
<1>5. CASE Local(l)
  <2>1. LocalRight(l, v) BY <1>4, <1>5 DEF LinkRight
  <2>2. First(v) \in done[l[1]] /\ stage[l[1]] = s BY <1>1, <2>1 DEF LocalRight
  <2>3. QED BY <2>1, <2>2 DEF LocalRight
<1>6. CASE Remote(l)
  <2>1. ChannelRight(l, v) /\ FlagRight(l, v) BY <1>4, <1>6 DEF LinkRight
  <2>2. active[l][v] = FALSE BY <1>1, <2>1 DEF FlagRight
  <2>3. Got(l, v) = IF CubedSphere THEN (IF t = SetFirst(v) THEN 2 * s - 1 ELSE 2 * s)
                    ELSE s
    <3>1. Got(l, v) = StartNo(CubedSphere, s, D) BY <1>3, <2>2 DEF Got, StartNo, In
    <3>2. QED BY <1>1, <1>2, <1>3, <3>1 DEF StartNo, In
  <2>4. Right(CubedSphere, v, Got(l, v), recvbuf[l][v]) BY <2>1 DEF ChannelRight
  <2>5. CASE CubedSphere /\ t = SetFirst(v)
    <3>1. ((2 * s - 1) + 1) \div 2 = s BY <1>3
    <3>2. QED BY <1>2, <1>6, <2>3, <2>4, <2>5, <3>1 DEF Right, StageOf, Remote
  <2>6. CASE CubedSphere /\ t = SetSecond(v)
    <3>1. (2 * s + 1) \div 2 = s /\ (2 * s) % 2 = 0 BY <1>3
    <3>2. QED BY <1>2, <1>6, <2>3, <2>4, <2>6, <3>1 DEF Right, StageOf, Remote
  <2>7. CASE ~ CubedSphere
    BY <1>6, <2>3, <2>4, <2>7 DEF Right, StageOf, Remote
  <2>8. QED BY <1>1, <2>5, <2>6, <2>7
<1>7. QED BY <1>5, <1>6 DEF Remote

LEMMA SetStep ==
  ASSUME IInv, XInv, NEW b \in Block, NEW t, NEW v \in Var, SetBoundaries(b, t, v)
  PROVE  XInv'
<1>1. /\ Ready(b, t) /\ Finish(b, t) /\ t \in SetTask(v)
      /\ UNCHANGED <<sends, active, recvbuf>>
      /\ ghost' = [l \in Link |->
           IF l \in LinksTo(b) THEN [ghost[l] EXCEPT ![v] = recvbuf[l][v]] ELSE ghost[l]]
      /\ flag' = [l \in Link |->
           IF l \in LinksTo(b) THEN [flag[l] EXCEPT ![v] = "completed"] ELSE flag[l]]
  BY DEF SetBoundaries
<1>2. /\ setup' = setup /\ eager' = eager /\ stage' = stage
      /\ \A a \in Block \ {b} : done'[a] = done[a]
      /\ \A a \in Block : \A x : x # t => (x \in done'[a] <=> x \in done[a])
  BY <1>1, OneMore
<1>3. /\ Block' = Block /\ Var' = Var /\ Link' = Link /\ CubedSphere' = CubedSphere
      /\ RankOf' = RankOf
  BY <1>2, Fixed
<1>4. TypedBuffers BY DEF XInv
<1>5. UNCHANGED <<sflag, sendbuf, chan>> BY <1>1 DEF sends
<1>6. TypedBuffers'
  <2>1. flag' \in [Link -> [Var -> {"waiting", "arrived", "completed"}]]
    BY <1>1, <1>4 DEF TypedBuffers
  <2>2. ghost' \in [Link -> [Var -> Message]] BY <1>1, <1>4 DEF TypedBuffers
  <2>3. QED BY <1>1, <1>2, <1>3, <1>4, <1>5, <2>1, <2>2 DEF TypedBuffers
<1>7. t \in {SetFirst(v), SetSecond(v)} BY <1>1, TasksOf
<1>8. /\ \A w \in Var : t \notin Sends(w) \cup {"CLEAR_ALLBND2"}
      /\ \A w \in Var \ {v} : t \notin Receives(w)
  BY <1>7, RecvNames
<1>9. \A a \in Block : BlockRight(a)' BY <1>1, <1>8, SendersStay
<1>10. ASSUME NEW l \in Link, NEW w \in Var PROVE LinkRight(l, w)'
  <2>1. LinkRight(l, w) BY DEF XInv
  <2>2. l \in LinksTo(b) <=> l[2] = b BY DEF LinksTo
  <2>3. CASE w # v \/ l[2] # b
    <3>1. flag'[l][w] = flag[l][w] /\ ghost'[l][w] = ghost[l][w]
      BY <1>1, <1>4, <2>2, <2>3 DEF TypedBuffers
    <3>2. QED BY <1>1, <1>8, <2>3, <3>1, OtherLinksStay
  <2>4. CASE w = v /\ l[2] = b
    <3>1. l[1] \in Block /\ l[2] \in Block BY LinkMesh DEF IInv, TypedState
    <3> DEFINE D == done[b]
    <3>2. /\ t \notin D /\ done'[b] = D \cup {t}
          /\ "CLEAR_ALLBND" \notin D /\ RecvFirst(v) \in D
          /\ \/ t = SetFirst(v) /\ ~ (CubedSphere /\ "CLEAR_ALLBND2" \in D)
                /\ ~ (CubedSphere /\ "RESTART_RECV" \in D)
                /\ ~ (CubedSphere /\ SetSecond(v) \in D)
             \/ /\ t = SetSecond(v) /\ CubedSphere /\ "RESTART_RECV" \in D
                /\ RecvSecond(v) \in D
      BY <1>1, AboutToSet
    <3>3. /\ t # "CLEAR_ALLBND" /\ t # "CLEAR_ALLBND2" /\ t # "RESTART_RECV"
          /\ t # RecvFirst(v) /\ t # RecvSecond(v) /\ t # First(v) /\ t # Second(v)
          /\ SetFirst(v) # SetSecond(v)
      BY <1>7, RecvNames DEF Sends
    <3>4. flag'[l][v] = "completed" /\ ghost'[l][v] = recvbuf[l][v]
      BY <1>1, <1>4, <2>2, <2>4 DEF TypedBuffers
    <3>5. /\ recvbuf[l][v].value = Whole(v, stage[b])
          /\ ~ CubedSphere \/ t = SetSecond(v) => recvbuf[l][v].fresh = TRUE
          /\ Local(l) => First(v) \in done[l[1]]
      BY <1>1, <2>4, BufferFilled
    <3>6. GhostRight(l, v)'
      <4>1. CubedSphere /\ SetSecond(v) \in done'[b] => t = SetSecond(v)
        BY <3>2, <3>3
      <4>2. QED BY <1>2, <1>3, <2>4, <3>4, <3>5, <4>1 DEF GhostRight
    <3>7. Local(l)' <=> Local(l) BY <1>3 DEF Local
    <3>8. CASE Local(l)
      <4>1. LocalRight(l, v) BY <2>1, <2>4, <3>8 DEF LinkRight
      <4>2. First(v) \in done[l[1]] BY <3>5, <3>8
      <4>3. First(v) \in done'[l[1]] BY <1>2, <3>1, <3>3, <4>2
      <4>4. "CLEAR_ALLBND" \notin done'[b] BY <3>2, <3>3
      <4>5. LocalRight(l, v)'
        BY <1>1, <1>2, <1>5, <2>4, <4>1, <4>2, <4>3, <4>4 DEF LocalRight
      <4>6. QED BY <2>4, <3>6, <3>7, <3>8, <4>5 DEF LinkRight, Remote
    <3>9. CASE Remote(l)
      <4>1. ChannelRight(l, v) /\ FlagRight(l, v) BY <2>1, <2>4, <3>9 DEF LinkRight
      <4>2. Sent(l[1], v)' = Sent(l[1], v) BY <1>2, <3>1, <3>3, SentStays2
      <4>3. Got(l, v)' = Got(l, v) BY <1>1, <1>2, <3>1, <3>3, GotStays
      <4>4. ChannelRight(l, v)' BY <1>1, <1>2, <1>5, <4>1, <4>2, <4>3, ChannelStays
      <4>5. FlagRight(l, v)'
        BY <1>1, <1>3, <2>4, <3>2, <3>3, <4>1 DEF FlagRight
      <4>6. QED BY <2>4, <3>6, <3>7, <3>9, <4>4, <4>5 DEF LinkRight, Remote
    <3>10. QED BY <3>8, <3>9 DEF Remote
  <2>5. QED BY <2>3, <2>4
<1>11. QED BY <1>3, <1>6, <1>9, <1>10 DEF XInv

-----------------------------------------------------------------------------
(* Clearing flags, and starting requests once more.                         *)
LEMMA ClearStep ==
  ASSUME IInv, XInv, NEW b \in Block, NEW t, ClearAllBoundary(b, t)
  PROVE  XInv'
<1>1. /\ Ready(b, t) /\ Finish(b, t) /\ t \in {"CLEAR_ALLBND", "CLEAR_ALLBND2"}
      /\ SendsComplete(b)
      /\ sflag' = [sflag EXCEPT ![b] = {}]
      /\ flag' = [l \in Link |->
           IF l \in LinksTo(b) THEN [v \in Var |-> "waiting"] ELSE flag[l]]
      /\ UNCHANGED <<ghost, sendbuf, chan, active, recvbuf>>
  BY DEF ClearAllBoundary, fields
<1>2. /\ setup' = setup /\ eager' = eager /\ stage' = stage
      /\ done'[b] = done[b] \cup {t}
      /\ \A a \in Block \ {b} : done'[a] = done[a]
      /\ \A a \in Block : \A x : x # t => (x \in done'[a] <=> x \in done[a])
  BY <1>1, OneMore
<1>3. InStage(b) BY <1>1, Taken
<1>4. /\ Block' = Block /\ Var' = Var /\ Link' = Link /\ CubedSphere' = CubedSphere
      /\ RankOf' = RankOf
  BY <1>2, Fixed
<1>5. TypedBuffers /\ TypedFields BY DEF XInv, IInv
<1>6. TypedBuffers'
  <2>1. flag' \in [Link -> [Var -> {"waiting", "arrived", "completed"}]]
    BY <1>1, <1>5 DEF TypedBuffers
  <2>2. QED BY <1>1, <1>2, <1>4, <1>5, <2>1 DEF TypedBuffers
<1>7. sflag'[b] = {} /\ \A a \in Block \ {b} : sflag'[a] = sflag[a]
  BY <1>1, <1>5 DEF TypedFields
<1>8. \A v : /\ t \notin {First(v), Second(v), RecvFirst(v), RecvSecond(v), SetFirst(v),
                         SetSecond(v), "RESTART_RECV"}
  BY <1>1 DEF First, Second, RecvFirst, RecvSecond, SetFirst, SetSecond
<1>9. ASSUME NEW a \in Block PROVE BlockRight(a)'
  <2>1. BlockRight(a) BY DEF XInv
  <2>2. CASE a # b
    <3>1. sflag[a] \subseteq Var BY <1>5 DEF TypedFields
    <3>2. done'[a] = done[a] BY <1>2, <2>2
    <3>3. QED BY <1>1, <1>2, <1>7, <2>1, <2>2, <3>1, <3>2, BlockStays
  <2>3. CASE a = b
    <3>1. \A v \in Var : Sent(b, v)' = Sent(b, v) BY <1>2, <1>8, SentStays2
    <3>2. CubedSphere /\ "CLEAR_ALLBND2" \in done'[b] => \A v \in Var : First(v) \in done'[b]
      <4>1. CASE t = "CLEAR_ALLBND2" BY <1>1, <1>2, <1>3, <4>1, FirstSent
      <4>2. CASE t = "CLEAR_ALLBND" BY <1>2, <2>1, <2>3, <4>2 DEF BlockRight
      <4>3. QED BY <1>1, <4>1, <4>2
    <3>3. QED BY <1>1, <1>4, <1>7, <2>1, <2>3, <3>1, <3>2 DEF BlockRight
  <2>4. QED BY <2>2, <2>3
<1>10. ASSUME NEW l \in Link, NEW v \in Var PROVE LinkRight(l, v)'
  <2>1. LinkRight(l, v) BY DEF XInv
  <2>2. l[1] \in Block /\ l[2] \in Block BY LinkMesh DEF IInv, TypedState
  <2>3. flag'[l][v] = IF l[2] = b THEN "waiting" ELSE flag[l][v]
    BY <1>1 DEF LinksTo
  <2>4. GhostRight(l, v)' BY <1>1, <1>2, <1>8, <2>1, <2>2, GhostStays DEF LinkRight
  <2>5. Local(l)' <=> Local(l) BY <1>4 DEF Local
  <2>6. "CLEAR_ALLBND" \in done'[l[2]] /\ l[2] # b => "CLEAR_ALLBND" \in done[l[2]]
    BY <1>2, <2>2
  <2>7. /\ First(v) \in done'[l[1]] <=> First(v) \in done[l[1]]
        /\ Second(v) \in done'[l[1]] <=> Second(v) \in done[l[1]]
        /\ RecvFirst(v) \in done'[l[2]] <=> RecvFirst(v) \in done[l[2]]
        /\ RecvSecond(v) \in done'[l[2]] <=> RecvSecond(v) \in done[l[2]]
        /\ "RESTART_RECV" \in done'[l[2]] <=> "RESTART_RECV" \in done[l[2]]
    BY <1>2, <1>8, <2>2
  <2>8. CASE Local(l)
    <3>1. LocalRight(l, v) BY <2>1, <2>8 DEF LinkRight
    <3>2. LocalRight(l, v)'
      BY <1>1, <1>2, <2>3, <2>6, <2>7, <3>1 DEF LocalRight
    <3>3. QED BY <2>4, <2>5, <2>8, <3>2 DEF LinkRight, Remote
  <2>9. CASE Remote(l)
    <3>1. ChannelRight(l, v) /\ FlagRight(l, v) BY <2>1, <2>9 DEF LinkRight
    <3>2. Sent(l[1], v)' = Sent(l[1], v) BY <1>2, <2>7, SentStays2
    <3>3. Got(l, v)' = Got(l, v) BY <1>1, <1>2, <2>7, GotStays
    <3>4. ChannelRight(l, v)'
      <4>1. CASE eager = FALSE /\ l[1] = b
        <5>1. chan[l][v] = <<>> BY <1>1, <4>1 DEF SendsComplete, LinksFrom
        <5>2. QED BY <1>1, <1>2, <1>4, <3>1, <3>2, <3>3, <5>1 DEF ChannelRight
      <4>2. CASE eager # FALSE
        BY <1>1, <1>2, <1>4, <3>1, <3>2, <3>3, <4>2 DEF ChannelRight
      <4>3. CASE l[1] # b
        <5>1. sflag'[l[1]] = sflag[l[1]] BY <1>7, <2>2, <4>3
        <5>2. QED BY <1>1, <1>2, <3>1, <3>2, <3>3, <5>1, ChannelStays
      <4>4. QED BY <4>1, <4>2, <4>3
    <3>5. FlagRight(l, v)'
      <4>1. CASE l[2] = b
        <5>1. flag'[l][v] = "waiting" BY <2>3, <4>1
        <5>2. QED BY <1>1, <1>4, <2>7, <3>1, <5>1 DEF FlagRight
      <4>2. CASE l[2] # b
        <5>1. done'[l[2]] = done[l[2]] BY <1>2, <2>2, <4>2
        <5>2. QED BY <1>1, <1>2, <2>3, <3>1, <4>2, <5>1, FlagStays
      <4>3. QED BY <4>1, <4>2
    <3>6. QED BY <2>4, <2>5, <2>9, <3>4, <3>5 DEF LinkRight, Remote
  <2>10. QED BY <2>8, <2>9 DEF Remote
<1>11. QED BY <1>4, <1>6, <1>9, <1>10 DEF XInv

LEMMA RestartStep ==
  ASSUME IInv, XInv, NEW b \in Block, RestartReceiving(b)
  PROVE  XInv'
<1> DEFINE t == "RESTART_RECV"
           D == done[b]
<1>1. /\ Ready(b, t) /\ Finish(b, t) /\ active' = Started({b})
      /\ UNCHANGED <<ghost, sends, flag, recvbuf>>
  BY DEF RestartReceiving, fields
<1>2. /\ setup' = setup /\ eager' = eager /\ stage' = stage
      /\ \A a \in Block \ {b} : done'[a] = done[a]
      /\ \A a \in Block : \A x : x # t => (x \in done'[a] <=> x \in done[a])
  BY <1>1, OneMore
<1>3. /\ Block' = Block /\ Var' = Var /\ Link' = Link /\ CubedSphere' = CubedSphere
      /\ RankOf' = RankOf
  BY <1>2, Fixed
<1>4. TypedBuffers /\ setup \in Setup BY DEF XInv, IInv, TypedState
<1>5. \A l \in Link, v \in Var :
        active'[l][v] = IF l[2] = b /\ Remote(l) THEN TRUE ELSE active[l][v]
  BY <1>1, <1>4 DEF Started, TypedBuffers
<1>6. TypedBuffers'
  <2>1. active' \in [Link -> [Var -> BOOLEAN]] BY <1>1 DEF Started
  <2>2. UNCHANGED chan BY <1>1 DEF sends
  <2>3. QED BY <1>1, <1>2, <1>3, <1>4, <2>1, <2>2 DEF TypedBuffers
<1>7. /\ t \in Task /\ t \notin D /\ Dep(t) \subseteq D /\ done'[b] = D \cup {t}
  BY <1>1, Taken
<1>8. CubedSphere /\ "CLEAR_ALLBND2" \in D BY <1>4, <1>7, SecondOfSphere, Waits
<1>9. \A v : t \notin Sends(v) \cup {"CLEAR_ALLBND2"} BY DEF Sends, First, Second
<1>10. \A a \in Block : BlockRight(a)' BY <1>1, <1>9, SendersStay
<1>11. ASSUME NEW l \in Link, NEW v \in Var PROVE LinkRight(l, v)'
  <2>1. LinkRight(l, v) BY DEF XInv
  <2>2. CASE l[2] # b BY <1>1, <1>5, <1>9, <2>2, OtherLinksStay
  <2>3. CASE l[2] = b
    <3>1. l[1] \in Block /\ l[2] \in Block /\ Remote(l)
      BY <1>4, <1>8, LinkMesh DEF Remote
    <3>2. ChannelRight(l, v) /\ FlagRight(l, v) BY <2>1, <3>1 DEF LinkRight
    <3>3. RecvFirst(v) \in D /\ RecvSecond(v) \notin D
      BY <1>7, <1>8, ExchangeChain
    <3>4. active[l][v] = FALSE /\ active'[l][v] = TRUE
      BY <1>5, <1>7, <2>3, <3>1, <3>2, <3>3 DEF FlagRight
    <3>5. t \notin {First(v), Second(v), RecvFirst(v), RecvSecond(v), SetFirst(v),
                    SetSecond(v), "CLEAR_ALLBND", "CLEAR_ALLBND2"}
      BY DEF First, Second, RecvFirst, RecvSecond, SetFirst, SetSecond
    <3>6. GhostRight(l, v)' BY <1>1, <1>2, <2>1, <3>1, <3>5, GhostStays DEF LinkRight
    <3>7. Sent(l[1], v)' = Sent(l[1], v) BY <1>2, <3>1, <3>5, SentStays2
    <3>8. Got(l, v)' = Got(l, v)
      <4>1. stage[b] \in Nat BY DEF IInv, TypedState
      <4>2. QED
        BY <1>2, <1>3, <1>7, <1>8, <2>3, <3>4, <4>1 DEF Got, StartNo, In
    <3>9. ChannelRight(l, v)'
      <4>1. sflag' = sflag /\ chan' = chan BY <1>1 DEF sends
      <4>2. QED BY <1>1, <1>2, <3>2, <3>7, <3>8, <4>1, ChannelStays
    <3>10. FlagRight(l, v)'
      <4>1. \A x \in {RecvFirst(v), RecvSecond(v), "CLEAR_ALLBND", "CLEAR_ALLBND2"} :
              x \in done'[b] <=> x \in D
        BY <1>2, <3>5
      <4>2. t \in done'[b] BY <1>7
      <4>3. QED BY <1>1, <1>3, <1>8, <2>3, <3>2, <3>3, <4>1, <4>2 DEF FlagRight
    <3>11. Remote(l)' BY <1>3, <3>1 DEF Remote, Local
    <3>12. QED BY <3>6, <3>9, <3>10, <3>11 DEF LinkRight, Remote
  <2>4. QED BY <2>2, <2>3
<1>12. QED BY <1>3, <1>6, <1>10, <1>11 DEF XInv

-----------------------------------------------------------------------------
(* Delivering, and starting a stage.                                        *)
LEMMA DeliverStep ==
  ASSUME IInv, XInv, NEW m \in Link, NEW w \in Var, Deliver(m, w)
  PROVE  XInv'
<1>1. /\ active[m][w] = TRUE /\ chan[m][w] # <<>>
      /\ recvbuf' = [recvbuf EXCEPT ![m][w] =
           IF eager THEN Head(chan[m][w]) ELSE sendbuf[m[1]][w]]
      /\ chan' = [chan EXCEPT ![m][w] = Tail(chan[m][w])]
      /\ active' = [active EXCEPT ![m][w] = FALSE]
      /\ UNCHANGED <<setup, eager, stage, done, ghost, sflag, sendbuf, flag>>
  <2>1. active[m][w] \in BOOLEAN BY DEF XInv, TypedBuffers
  <2>2. QED BY <2>1 DEF Deliver, state, fields
<1>2. TypedBuffers /\ TypedFields /\ setup \in Setup BY DEF XInv, IInv, TypedState
<1>3. /\ Block' = Block /\ Var' = Var /\ Link' = Link /\ CubedSphere' = CubedSphere
      /\ RankOf' = RankOf
  BY <1>1, Fixed
<1>4. m[1] \in Block BY <1>2, LinkMesh
<1> DEFINE c == chan[m][w]
           n == Len(c)
<1>5. c \in Seq(Message) /\ c # <<>> BY <1>1, <1>2 DEF TypedBuffers
<1>6. /\ n \in Nat /\ n >= 1 /\ Head(c) = c[1] /\ Head(c) \in Message
      /\ Tail(c) \in Seq(Message) /\ Len(Tail(c)) = n - 1
      /\ \A i \in 1 .. n - 1 : Tail(c)[i] = c[i + 1]
  <2> HIDE DEF c
  <2>1. n \in Nat BY <1>5, LenProperties
  <2>2. /\ Head(c) \in Message /\ Tail(c) \in Seq(Message) /\ Len(Tail(c)) = n - 1
        /\ \A i \in 1 .. Len(Tail(c)) : Tail(c)[i] = c[i + 1]
    BY <1>5, HeadTailProperties
  <2>3. n >= 1
    <3>1. n # 0 BY <1>5, EmptySeq
    <3>2. QED BY <2>1, <3>1
  <2>4. Head(c) = c[1] BY <1>5
  <2>5. QED BY <2>1, <2>2, <2>3, <2>4
<1>7. /\ chan'[m][w] = Tail(c) /\ active'[m][w] = FALSE
      /\ recvbuf'[m][w] = IF eager THEN Head(c) ELSE sendbuf[m[1]][w]
      /\ \A l \in Link, v \in Var : l # m \/ v # w =>
           /\ chan'[l][v] = chan[l][v] /\ active'[l][v] = active[l][v]
           /\ recvbuf'[l][v] = recvbuf[l][v]
  BY <1>1, <1>2 DEF TypedBuffers
<1>8. TypedBuffers'
  <2>1. sendbuf[m[1]][w] \in Message BY <1>2, <1>4 DEF TypedFields
  <2>2. recvbuf' \in [Link -> [Var -> Message]]
    BY <1>1, <1>2, <1>6, <2>1 DEF TypedBuffers
  <2>3. chan' \in [Link -> [Var -> Seq(Message)]] BY <1>1, <1>2, <1>6 DEF TypedBuffers
  <2>4. active' \in [Link -> [Var -> BOOLEAN]] BY <1>1, <1>2 DEF TypedBuffers
  <2>5. QED BY <1>1, <1>2, <1>3, <2>2, <2>3, <2>4 DEF TypedBuffers
<1>9. ASSUME NEW a \in Block PROVE BlockRight(a)'
  <2>1. BlockRight(a) /\ sflag[a] \subseteq Var BY <1>2 DEF XInv, TypedFields
  <2>2. QED BY <1>1, <2>1, BlockStays
<1>10. LinkRight(m, w)'
  <2>1. LinkRight(m, w) BY DEF XInv
  <2>2. Remote(m) BY <1>1, <2>1 DEF LinkRight, LocalRight, Remote
  <2>3. ChannelRight(m, w) /\ FlagRight(m, w) BY <2>1, <2>2 DEF LinkRight
  <2>4. GhostRight(m, w)' BY <1>1, <2>1, GhostStays DEF LinkRight
  <2>5. FlagRight(m, w)' BY <1>1, <1>3, <1>7, <2>3 DEF FlagRight
  <2>6. Sent(m[1], w)' = Sent(m[1], w) BY <1>1, SentStays2
  <2>7. /\ Sent(m[1], w) \in Int /\ Got(m, w) \in Int /\ n = Sent(m[1], w) - Got(m, w)
    BY <2>3, NumbersTyped DEF ChannelRight
  <2>8. Got(m, w)' = Got(m, w) + 1
    <3>1. StartNo(CubedSphere, stage[m[2]], done[m[2]])' =
            StartNo(CubedSphere, stage[m[2]], done[m[2]])
      BY <1>1, <1>3 DEF StartNo, In
    <3>2. Got(m, w) = StartNo(CubedSphere, stage[m[2]], done[m[2]]) - 1 BY <1>1 DEF Got
    <3>3. Got(m, w)' = StartNo(CubedSphere, stage[m[2]], done[m[2]])' - 0
      BY <1>7 DEF Got
    <3>4. stage[m[2]] \in Nat BY NumbersTyped
    <3>5. StartNo(CubedSphere, stage[m[2]], done[m[2]]) \in Int
      BY <3>4 DEF StartNo, In
    <3>6. QED BY <3>1, <3>2, <3>3, <3>5
  <2>9. ChannelRight(m, w)'
    <3>1. \A i \in 1 .. n : Right(CubedSphere, w, Got(m, w) + i, c[i])
      BY <2>3 DEF ChannelRight
    <3>2. eager = FALSE => w \in sflag[m[1]] /\ n = 1
      BY <1>5, <2>3 DEF ChannelRight
    <3> HIDE DEF c, n
    <3>3. Len(chan'[m][w]) = Sent(m[1], w)' - Got(m, w)'
      BY <1>6, <1>7, <2>6, <2>7, <2>8
    <3>4. ASSUME NEW i \in 1 .. n - 1
          PROVE  Right(CubedSphere, w, Got(m, w)' + i, chan'[m][w][i])
      <4>1. i + 1 \in 1 .. n /\ Got(m, w) + (i + 1) = Got(m, w)' + i
        <5>1. n \in Nat /\ i \in Nat /\ Got(m, w) \in Int BY <1>6, <2>7
        <5>2. i + 1 \in 1 .. n BY <5>1
        <5>3. Got(m, w) + (i + 1) = (Got(m, w) + 1) + i BY <5>1
        <5>4. QED BY <2>8, <5>2, <5>3
      <4>2. chan'[m][w][i] = c[i + 1] BY <1>6, <1>7
      <4>3. Right(CubedSphere, w, Got(m, w) + (i + 1), c[i + 1]) BY <3>1, <4>1
      <4>4. QED BY <4>1, <4>2, <4>3
    <3>5. Right(CubedSphere, w, Got(m, w)', recvbuf'[m][w])
      <4>1. CASE eager = TRUE
        <5>1. 1 \in 1 .. n BY <1>6
        <5>2. Right(CubedSphere, w, Got(m, w) + 1, c[1]) BY <3>1, <5>1
        <5>3. QED BY <1>6, <1>7, <2>8, <4>1, <5>2
      <4>2. CASE eager = FALSE
        <5>1. Got(m, w)' = Sent(m[1], w) BY <2>7, <2>8, <3>2, <4>2
        <5>2. BlockRight(m[1]) BY <1>4 DEF XInv
        <5>3. Right(CubedSphere, w, Sent(m[1], w), sendbuf[m[1]][w])
          BY <5>2 DEF BlockRight
        <5>4. QED BY <1>7, <4>2, <5>1, <5>3
      <4>3. QED BY <1>2, <4>1, <4>2 DEF TypedBuffers
    <3>6. eager = FALSE => chan'[m][w] = <<>>
      <4>1. eager = FALSE => Len(chan'[m][w]) = 0 BY <1>6, <1>7, <3>2
      <4>2. chan'[m][w] \in Seq(Message) BY <1>6, <1>7
      <4>3. QED BY <4>1, <4>2, EmptySeq
    <3>7. Len(chan'[m][w]) = n - 1 BY <1>6, <1>7
    <3>8. QED BY <1>1, <1>3, <3>3, <3>4, <3>5, <3>6, <3>7 DEF ChannelRight
  <2>10. Remote(m)' BY <1>3, <2>2 DEF Remote, Local
  <2>11. QED BY <2>4, <2>5, <2>9, <2>10 DEF LinkRight, Remote
<1>11. ASSUME NEW l \in Link, NEW v \in Var, l # m \/ v # w PROVE LinkRight(l, v)'
  <2>1. LinkRight(l, v) BY DEF XInv
  <2>2. QED BY <1>1, <1>7, <1>11, <2>1, LinkStays
<1>12. QED BY <1>3, <1>8, <1>9, <1>10, <1>11 DEF XInv

\* At the end of its stage a block has sent and received all messages of it.
LEMMA StageOver ==
  ASSUME IInv, XInv, NEW b \in Block, done[b] = Task, NEW v \in Var
  PROVE  /\ sflag[b] = {}
         /\ SentNo(CubedSphere, stage[b], done[b], v) =
              SentNo(CubedSphere, stage[b] + 1, {}, v)
         /\ \A l \in Link : l[2] = b =>
              /\ Remote(l) => active[l][v] = FALSE
              /\ flag[l][v] = "waiting"
              /\ StartNo(CubedSphere, stage[b], done[b]) =
                   StartNo(CubedSphere, stage[b] + 1, {}) - 1
<1>1. /\ First(v) \in done[b] /\ RecvFirst(v) \in done[b] /\ SetFirst(v) \in done[b]
      /\ "CLEAR_ALLBND" \in done[b]
      /\ CubedSphere => {"RESTART_RECV", Second(v), RecvSecond(v)} \subseteq done[b]
  BY ExchangesDone
<1>2. stage[b] \in Nat BY DEF IInv, TypedState
<1>3. sflag[b] = {} BY <1>1 DEF IInv, Idle, InStage, ClearedRight
<1>4. SentNo(CubedSphere, stage[b], done[b], v) = SentNo(CubedSphere, stage[b] + 1, {}, v)
  BY <1>1, <1>2 DEF SentNo, In
<1>5. ASSUME NEW l \in Link, l[2] = b
      PROVE  /\ Remote(l) => active[l][v] = FALSE
             /\ flag[l][v] = "waiting"
             /\ StartNo(CubedSphere, stage[b], done[b]) =
                  StartNo(CubedSphere, stage[b] + 1, {}) - 1
  <2>1. LinkRight(l, v) BY DEF XInv
  <2>2. StartNo(CubedSphere, stage[b], done[b]) = StartNo(CubedSphere, stage[b] + 1, {}) - 1
    BY <1>1, <1>2 DEF StartNo, In
  <2>3. CASE Local(l)
    BY <1>1, <1>5, <2>1, <2>2, <2>3 DEF LinkRight, LocalRight, Remote
  <2>4. CASE Remote(l) BY <1>1, <1>5, <2>1, <2>2, <2>4 DEF LinkRight, FlagRight
  <2>5. QED BY <2>3, <2>4 DEF Remote
<1>6. QED BY <1>3, <1>4, <1>5

LEMMA StartupStep ==
  ASSUME IInv, XInv, NEW r \in Rank, Startup(r)
  PROVE  XInv'
<1>1. /\ \A b \in Blocks(r) : done[b] = Task
      /\ stage' = [b \in Block |-> IF b \in Blocks(r) THEN stage[b] + 1 ELSE stage[b]]
      /\ done' = [b \in Block |-> IF b \in Blocks(r) THEN {} ELSE done[b]]
      /\ active' = Started(Blocks(r))
      /\ UNCHANGED <<setup, eager, ghost, sflag, sendbuf, chan, flag, recvbuf>>
  BY DEF Startup, fields, sends
<1>2. /\ Block' = Block /\ Var' = Var /\ Link' = Link /\ CubedSphere' = CubedSphere
      /\ RankOf' = RankOf
  BY <1>1, Fixed
<1>3. TypedBuffers /\ setup \in Setup BY DEF XInv, IInv, TypedState
<1>4. TypedBuffers'
  <2>1. active' \in [Link -> [Var -> BOOLEAN]] BY <1>1 DEF Started
  <2>2. QED BY <1>1, <1>2, <1>3, <2>1 DEF TypedBuffers
<1>5. \A l \in Link, v \in Var :
        active'[l][v] = IF l[2] \in Blocks(r) /\ Remote(l) THEN TRUE ELSE active[l][v]
  BY <1>1, <1>3 DEF Started, TypedBuffers
<1>6. \A b \in Block : /\ b \in Blocks(r) => stage'[b] = stage[b] + 1 /\ done'[b] = {}
                       /\ b \notin Blocks(r) => stage'[b] = stage[b] /\ done'[b] = done[b]
  BY <1>1
<1>7. ASSUME NEW b \in Block, NEW v \in Var PROVE Sent(b, v)' = Sent(b, v)
  <2>1. CASE b \in Blocks(r)
    <3>1. done[b] = Task BY <1>1, <2>1
    <3>2. SentNo(CubedSphere, stage[b], done[b], v) =
            SentNo(CubedSphere, stage[b] + 1, {}, v)
      BY <3>1, StageOver
    <3>3. QED BY <1>2, <1>6, <2>1, <3>2 DEF Sent, SentNo, In
  <2>2. CASE b \notin Blocks(r) BY <1>1, <1>6, <2>2, SentStays2
  <2>3. QED BY <2>1, <2>2
<1>8. ASSUME NEW b \in Block PROVE BlockRight(b)'
  <2>1. BlockRight(b) BY DEF XInv
  <2>2. \A v \in Var : Right(CubedSphere, v, Sent(b, v), sendbuf[b][v])'
    BY <1>1, <1>2, <1>7, <2>1 DEF BlockRight
  <2>3. CASE b \in Blocks(r)
    <3>1. sflag[b] = {} /\ "hyd" \in Var BY <1>1, <2>3, StageOver DEF Var
    <3>2. sflag'[b] = {} /\ done'[b] = {} BY <1>1, <1>6, <2>3, <3>1
    <3>3. QED BY <1>2, <2>2, <3>2 DEF BlockRight
  <2>4. CASE b \notin Blocks(r)
    <3>1. sflag[b] \subseteq Var BY DEF IInv, TypedFields
    <3>2. QED BY <1>1, <1>6, <2>1, <2>4, <3>1, BlockStays
  <2>5. QED BY <2>3, <2>4
<1>9. ASSUME NEW l \in Link, NEW v \in Var PROVE LinkRight(l, v)'
  <2>1. LinkRight(l, v) BY DEF XInv
  <2>2. /\ l[1] \in Block /\ l[2] \in Block
        /\ Local(l) <=> RankOf[l[1]] = RankOf[l[2]]
    BY <1>3, LinkMesh
  <2>3. GhostRight(l, v)'
    <3>1. CASE l[2] \in Blocks(r) BY <1>6, <2>2, <3>1 DEF GhostRight
    <3>2. CASE l[2] \notin Blocks(r)
      <4>1. stage'[l[2]] = stage[l[2]] /\ done'[l[2]] = done[l[2]] BY <1>6, <2>2, <3>2
      <4>2. QED BY <1>1, <2>1, <4>1, GhostStays DEF LinkRight
    <3>3. QED BY <3>1, <3>2
  <2>4. Local(l)' <=> Local(l) BY <1>2 DEF Local
  <2>5. CASE Local(l)
    <3>1. LocalRight(l, v) BY <2>1, <2>5 DEF LinkRight
    <3>2. active'[l][v] = active[l][v] BY <1>5, <2>5 DEF Remote
    <3>3. l[1] \in Blocks(r) <=> l[2] \in Blocks(r) BY <2>2, <2>5 DEF Blocks
    <3>4. CASE l[2] \in Blocks(r)
      <4>1. flag[l][v] = "waiting" BY <1>1, <2>2, <3>4, StageOver
      <4>2. stage'[l[1]] = stage'[l[2]] /\ done'[l[1]] = {} /\ done'[l[2]] = {}
        BY <1>6, <2>2, <3>1, <3>3, <3>4 DEF LocalRight
      <4>3. LocalRight(l, v)' BY <1>1, <3>1, <3>2, <4>1, <4>2 DEF LocalRight
      <4>4. QED BY <2>3, <2>4, <2>5, <4>3 DEF LinkRight, Remote
    <3>5. CASE l[2] \notin Blocks(r)
      <4>1. /\ stage'[l[2]] = stage[l[2]] /\ done'[l[2]] = done[l[2]]
            /\ stage'[l[1]] = stage[l[1]] /\ done'[l[1]] = done[l[1]]
        BY <1>6, <2>2, <3>3, <3>5
      <4>2. LocalRight(l, v)' BY <1>1, <3>1, <3>2, <4>1, LocalStays
      <4>3. QED BY <2>3, <2>4, <2>5, <4>2 DEF LinkRight, Remote
    <3>6. QED BY <3>4, <3>5
  <2>6. CASE Remote(l)
    <3>1. ChannelRight(l, v) /\ FlagRight(l, v) BY <2>1, <2>6 DEF LinkRight
    <3>2. Sent(l[1], v)' = Sent(l[1], v) BY <1>7, <2>2
    <3>3. CASE l[2] \in Blocks(r)
      <4>1. /\ active[l][v] = FALSE /\ flag[l][v] = "waiting"
            /\ StartNo(CubedSphere, stage[l[2]], done[l[2]]) =
                 StartNo(CubedSphere, stage[l[2]] + 1, {}) - 1
        BY <1>1, <2>2, <2>6, <3>3, StageOver
      <4>2. active'[l][v] = TRUE /\ stage'[l[2]] = stage[l[2]] + 1 /\ done'[l[2]] = {}
        BY <1>5, <1>6, <2>2, <2>6, <3>3
      <4>3. Got(l, v)' = Got(l, v)
        <5>1. stage[l[2]] \in Nat BY NumbersTyped
        <5>2. StartNo(CubedSphere, stage[l[2]] + 1, {}) \in Int BY <5>1 DEF StartNo, In
        <5>3. Got(l, v) = StartNo(CubedSphere, stage[l[2]] + 1, {}) - 1
          BY <4>1, <5>2 DEF Got
        <5>4. Got(l, v)' = StartNo(CubedSphere, stage[l[2]] + 1, {}) - 1
          BY <1>2, <4>2 DEF Got
        <5>5. QED BY <5>3, <5>4
      <4>4. ChannelRight(l, v)' BY <1>1, <3>1, <3>2, <4>3, ChannelStays
      <4>5. FlagRight(l, v)' BY <1>1, <4>1, <4>2 DEF FlagRight
      <4>6. QED BY <2>3, <2>4, <2>6, <4>4, <4>5 DEF LinkRight, Remote
    <3>4. CASE l[2] \notin Blocks(r)
      <4>1. /\ stage'[l[2]] = stage[l[2]] /\ done'[l[2]] = done[l[2]]
            /\ active'[l][v] = active[l][v]
        BY <1>5, <1>6, <2>2, <3>4
      <4>2. Got(l, v)' = Got(l, v) BY <1>1, <4>1, GotStays
      <4>3. ChannelRight(l, v)' BY <1>1, <3>1, <3>2, <4>2, ChannelStays
      <4>4. FlagRight(l, v)' BY <1>1, <3>1, <4>1, FlagStays
      <4>5. QED BY <2>3, <2>4, <2>6, <4>3, <4>4 DEF LinkRight, Remote
    <3>5. QED BY <3>3, <3>4
  <2>7. QED BY <2>5, <2>6 DEF Remote
<1>10. QED BY <1>2, <1>4, <1>8, <1>9 DEF XInv

-----------------------------------------------------------------------------
(* The invariant holds, and what follows from it.                           *)
LEMMA NothingStep ==
  ASSUME IInv, XInv,
         UNCHANGED <<setup, eager, stage, done, ghost, sflag, sendbuf, chan, receives>>
  PROVE  XInv'
<1>1. /\ Block' = Block /\ Var' = Var /\ Link' = Link BY Fixed
<1>2. UNCHANGED <<active, flag, recvbuf>> BY DEF receives
<1>3. TypedBuffers' BY <1>1, <1>2 DEF XInv, TypedBuffers
<1>4. ASSUME NEW a \in Block PROVE BlockRight(a)'
  <2>1. BlockRight(a) /\ sflag[a] \subseteq Var BY DEF XInv, IInv, TypedFields
  <2>2. QED BY <2>1, BlockStays
<1>5. ASSUME NEW l \in Link, NEW v \in Var PROVE LinkRight(l, v)'
  <2>1. LinkRight(l, v) BY DEF XInv
  <2>2. QED BY <1>2, <2>1, LinkStays
<1>6. QED BY <1>1, <1>3, <1>4, <1>5 DEF XInv

LEMMA XInit == Init => XInv
<1> SUFFICES ASSUME Init PROVE XInv
  OBVIOUS
<1>1. IInv BY InitInvariant
<1>2. \A b \in Block : done[b] = Task /\ stage[b] = 0 BY DEF Init
<1>3. setup \in Setup BY DEF Init
<1>4. \A v \in Var : WholePacked(v, 0) \in Message
  <2>1. \A v : Part(v) \subseteq Part("hyd") BY DEF Part
  <2>2. \A v : Whole(v, 0) \subseteq Part("hyd") \X Nat BY <2>1 DEF Whole
  <2>3. \A v : Whole(v, 0) \in Content BY <2>2 DEF Content
  <2>4. QED BY <2>3, MessageTyped DEF WholePacked
<1>5. TypedBuffers
  <2>1. ghost \in [Link -> [Var -> Message]] BY <1>4 DEF Init
  <2>2. recvbuf \in [Link -> [Var -> Message]] BY <1>4 DEF Init
  <2>3. chan \in [Link -> [Var -> Seq(Message)]] BY EmptySeq DEF Init
  <2>4. QED BY <2>1, <2>2, <2>3 DEF Init, TypedBuffers
<1>6. \A v \in Var : Right(CubedSphere, v, 0, WholePacked(v, 0))
  BY DEF Right, StageOf, WholePacked
<1>7. ASSUME NEW b \in Block, NEW v \in Var PROVE Sent(b, v) = 0
  <2>1. First(v) \in done[b] /\ (CubedSphere => Second(v) \in done[b])
    BY <1>1, <1>2, ExchangesDone
  <2>2. QED BY <1>2, <2>1 DEF Sent, SentNo, In
<1>8. ASSUME NEW b \in Block PROVE BlockRight(b)
  <2>1. sflag[b] = {} /\ \A v \in Var : sendbuf[b][v] = WholePacked(v, 0) BY DEF Init
  <2>2. \A v \in Var : First(v) \in done[b] BY <1>1, <1>2, ExchangesDone
  <2>3. QED BY <1>6, <1>7, <2>1, <2>2 DEF BlockRight
<1>9. ASSUME NEW l \in Link, NEW v \in Var PROVE LinkRight(l, v)
  <2>1. l[1] \in Block /\ l[2] \in Block BY <1>3, LinkMesh
  <2>2. /\ ghost[l][v] = WholePacked(v, 0) /\ recvbuf[l][v] = WholePacked(v, 0)
        /\ chan[l][v] = <<>> /\ active[l][v] = FALSE /\ flag[l][v] = "waiting"
    BY DEF Init
  <2>3. First(v) \in done[l[1]] /\ (CubedSphere => "RESTART_RECV" \in done[l[2]])
    BY <1>1, <1>2, <2>1, ExchangesDone
  <2>4. Got(l, v) = 0 BY <1>2, <2>1, <2>2, <2>3 DEF Got, StartNo, In
  <2>5. Sent(l[1], v) = 0 BY <1>7, <2>1
  <2>6. GhostRight(l, v) BY <1>2, <2>1, <2>2 DEF GhostRight, WholePacked
  <2>7. LocalRight(l, v) BY <1>2, <2>1, <2>2, <2>3 DEF LocalRight, WholePacked
  <2>8. FlagRight(l, v) BY <2>2 DEF FlagRight
  <2>9. ChannelRight(l, v)
    <3>1. Len(chan[l][v]) = 0 BY <2>2
    <3>2. QED BY <1>6, <2>2, <2>4, <2>5, <3>1 DEF ChannelRight
  <2>10. QED BY <2>6, <2>7, <2>8, <2>9 DEF LinkRight
<1>10. QED BY <1>5, <1>8, <1>9 DEF XInv

LEMMA XNext == IInv /\ XInv /\ [Next]_vars => XInv'
<1> SUFFICES ASSUME IInv, XInv, [Next]_vars PROVE XInv'
  OBVIOUS
<1>1. ASSUME NEW r \in Rank, Startup(r) PROVE XInv' BY <1>1, StartupStep
<1>2. ASSUME NEW b \in Block, Compute(b) PROVE XInv' BY <1>2, ComputeStep
<1>3. ASSUME NEW b \in Block, Exchange(b) PROVE XInv'
  <2>1. ASSUME NEW t, NEW v \in Var, Send(b, t, v) PROVE XInv' BY <2>1, SendStep
  <2>2. ASSUME NEW t, NEW v \in Var, Receive(b, t, v) PROVE XInv' BY <2>2, ReceiveStep
  <2>3. ASSUME NEW t, NEW v \in Var, SetBoundaries(b, t, v) PROVE XInv' BY <2>3, SetStep
  <2>4. ASSUME NEW t, ClearAllBoundary(b, t) PROVE XInv' BY <2>4, ClearStep
  <2>5. CASE RestartReceiving(b) BY <2>5, RestartStep
  <2>6. QED BY <1>3, <2>1, <2>2, <2>3, <2>4, <2>5 DEF Exchange
<1>4. ASSUME NEW b \in Block, EndVisit(b) PROVE XInv'
  BY <1>4, NothingStep DEF EndVisit, fields, sends
<1>5. ASSUME NEW l \in Link, NEW v \in Var, Deliver(l, v) PROVE XInv'
  BY <1>5, DeliverStep
<1>6. ASSUME Finished \/ UNCHANGED vars PROVE XInv'
  <2>1. UNCHANGED <<setup, eager, stage, done, ghost, sflag, sendbuf, chan, receives>>
    BY <1>6 DEF Finished, vars, state, fields, sends
  <2>2. QED BY <2>1, NothingStep
<1>7. QED BY <1>1, <1>2, <1>3, <1>4, <1>5, <1>6 DEF Next, BlockStep

(* Every message, buffer, request and flag is the one its number says.      *)
THEOREM ExchangeInvariant == Spec => [](IInv /\ XInv)
<1>1. Init => IInv /\ XInv BY InitInvariant, XInit
<1>2. IInv /\ XInv /\ [Next]_vars => (IInv /\ XInv)' BY NextInvariant, XNext
<1>3. QED BY <1>1, <1>2, PTL DEF Spec

(* The primitive variables are made of the whole conserved variables of one *)
(* stage, in the cells of a block and in its ghost cells; on the cubed      *)
(* sphere those of the second exchange.                                     *)
THEOREM PrimitivesAreOfStage == Spec => []PrimitivesOfStage
<1>1. ASSUME IInv, XInv, NEW b \in Block, NEW v \in Var, "CONS2PRIM" \in done[b]
      PROVE  /\ u[b][v] = Whole(v, stage[b])
             /\ \A l \in LinksTo(b) : ghost[l][v] = WholePacked(v, stage[b])
  <2>1. u[b][v] = Whole(v, stage[b])
    <3>1. CASE Idle(b) BY <3>1 DEF Idle
    <3>2. CASE InStage(b)
      <4>1. "UPDATE_ALLCONS" \in done[b] BY <1>1, <3>2, Chain DEF InStage
      <4>2. "SRC_TERM" \in done[b] BY <3>2, <4>1, Chain DEF InStage
      <4>3. QED BY <3>2, <4>1, <4>2, VarIs DEF InStage, ConservedRight
    <3>3. QED BY <1>1, <3>1, <3>2 DEF IInv
  <2>2. ASSUME NEW l \in LinksTo(b) PROVE ghost[l][v] = WholePacked(v, stage[b])
    <3>1. l \in Link /\ l[2] = b BY DEF LinksTo
    <3>2. SetFirst(v) \in done[b] /\ (CubedSphere => SetSecond(v) \in done[b])
      BY <1>1, ExchangeChain
    <3>3. GhostRight(l, v) BY <1>1, <3>1 DEF XInv, LinkRight
    <3>4. ghost[l][v].value = Whole(v, stage[b]) /\ ghost[l][v].fresh = TRUE
      BY <3>1, <3>2, <3>3 DEF GhostRight
    <3>5. ghost[l][v] \in Message BY <1>1, <3>1 DEF XInv, TypedBuffers
    <3>6. QED BY <3>4, <3>5 DEF Message, WholePacked
  <2>3. QED BY <2>1, <2>2
<1>2. IInv /\ XInv => PrimitivesOfStage BY <1>1 DEF PrimitivesOfStage
<1>3. QED BY <1>2, ExchangeInvariant, PTL

(* A block has sent at most one message more than it has received from any  *)
(* neighbour.                                                               *)
LEMMA OneAhead ==
  ASSUME IInv, XInv, NEW l \in Link, Remote(l), NEW v \in Var
  PROVE  /\ Sent(l[2], v) <= Got(l, v) + 1
         /\ IF CubedSphere THEN Got(l, v) >= 2 * (stage[l[2]] - 1)
            ELSE Got(l, v) >= stage[l[2]] - 1
<1> DEFINE b == l[2]
           D == done[b]
           s == stage[b]
<1>1. b \in Block /\ s \in Nat BY NumbersTyped, LinkMesh DEF IInv, TypedState
<1>2. ChannelRight(l, v) /\ FlagRight(l, v) BY DEF XInv, LinkRight
<1>3. CASE CubedSphere
  <2>1. Second(v) \in D => RecvFirst(v) \in D
    BY <1>1, <1>3, ExchangeChain
  <2>2. Second(v) \in D /\ "RESTART_RECV" \notin D => active[l][v] = FALSE
    BY <1>2, <2>1 DEF FlagRight
  <2>3. QED BY <1>1, <1>3, <2>2 DEF Sent, SentNo, Got, StartNo, In
<1>4. CASE ~ CubedSphere BY <1>1, <1>4 DEF Sent, SentNo, Got, StartNo, In
<1>5. QED BY <1>3, <1>4

(* Adjacent blocks are at most a stage apart, and at most two messages of a *)
(* variable are on the way between them, one where MPI does not copy it.    *)
THEOREM FewMessages == Spec => []MessagesBounded
<1>1. ASSUME IInv, XInv, NEW l \in Link
      PROVE  /\ stage[l[1]] - stage[l[2]] \in -1 .. 1
             /\ \A v \in Var : Len(chan[l][v]) <= IF eager THEN 2 ELSE 1
  <2> DEFINE k == <<l[2], l[1]>>
  <2>1. /\ k \in Link /\ k[1] = l[2] /\ k[2] = l[1]
        /\ Local(l) <=> RankOf[l[1]] = RankOf[l[2]]
        /\ Local(k) <=> RankOf[l[2]] = RankOf[l[1]]
    BY <1>1, LinkMesh DEF IInv, TypedState, Local
  <2>2. "hyd" \in Var BY DEF Var
  <2>3. CASE Local(l)
    <3>1. \A v \in Var : LocalRight(l, v) BY <1>1, <2>3 DEF XInv, LinkRight
    <3>2. stage[l[1]] = stage[l[2]] /\ stage[l[1]] \in Nat
      BY <1>1, <2>2, <3>1, NumbersTyped DEF LocalRight
    <3>3. \A v \in Var : Len(chan[l][v]) = 0 BY <3>1 DEF LocalRight
    <3>4. QED BY <1>1, <3>2, <3>3 DEF XInv, TypedBuffers
  <2>4. CASE Remote(l)
    <3> HIDE DEF k
    <3>1. Remote(k) BY <2>1, <2>4 DEF Remote
    <3>2. ASSUME NEW v \in Var
          PROVE  /\ stage[l[1]] - stage[l[2]] \in -1 .. 1
                 /\ Len(chan[l][v]) <= IF eager THEN 2 ELSE 1
      <4>1. /\ Sent(l[1], v) \in Int /\ Got(l, v) \in Int
            /\ Sent(l[2], v) \in Int /\ Got(k, v) \in Int
            /\ stage[l[1]] \in Nat /\ stage[l[2]] \in Nat
        BY <1>1, <2>1, NumbersTyped
      <4>2. ChannelRight(l, v) /\ ChannelRight(k, v)
        BY <1>1, <2>1, <2>4, <3>1 DEF XInv, LinkRight
      <4>3. /\ Sent(l[2], v) <= Got(l, v) + 1
            /\ IF CubedSphere THEN Got(l, v) >= 2 * (stage[l[2]] - 1)
               ELSE Got(l, v) >= stage[l[2]] - 1
        BY <1>1, <2>4, OneAhead
      <4>4. /\ Sent(l[1], v) <= Got(k, v) + 1
            /\ IF CubedSphere THEN Got(k, v) >= 2 * (stage[l[1]] - 1)
               ELSE Got(k, v) >= stage[l[1]] - 1
        BY <1>1, <2>1, <3>1, OneAhead
      <4>5. /\ chan[l][v] \in Seq(Message) /\ chan[k][v] \in Seq(Message)
            /\ eager \in BOOLEAN
        BY <1>1, <2>1 DEF XInv, TypedBuffers
      <4>6. Len(chan[l][v]) \in Nat /\ Len(chan[k][v]) \in Nat BY <4>5, LenProperties
      <4>7. /\ Len(chan[l][v]) = Sent(l[1], v) - Got(l, v)
            /\ Len(chan[k][v]) = Sent(l[2], v) - Got(k, v)
        BY <2>1, <4>2 DEF ChannelRight
      <4>8. Got(l, v) <= Sent(l[1], v) /\ Got(k, v) <= Sent(l[2], v)
        BY <4>1, <4>6, <4>7
      <4>9. /\ IF CubedSphere THEN Sent(l[1], v) <= 2 * stage[l[1]]
               ELSE Sent(l[1], v) <= stage[l[1]]
            /\ IF CubedSphere THEN Sent(l[2], v) <= 2 * stage[l[2]]
               ELSE Sent(l[2], v) <= stage[l[2]]
        BY <4>1 DEF Sent, SentNo, In
      <4>10. stage[l[1]] <= stage[l[2]] + 1 /\ stage[l[2]] <= stage[l[1]] + 1
        BY <4>1, <4>3, <4>4, <4>8, <4>9
      <4>11. stage[l[1]] - stage[l[2]] \in -1 .. 1 BY <4>1, <4>10
      <4>12. Len(chan[l][v]) <= 2 BY <4>1, <4>3, <4>4, <4>7, <4>8
      <4>13. eager = FALSE => Len(chan[l][v]) <= 1
        <5>1. CASE chan[l][v] = <<>> BY <5>1
        <5>2. CASE chan[l][v] # <<>> BY <4>2, <5>2 DEF ChannelRight
        <5>3. QED BY <5>1, <5>2
      <4>14. QED BY <4>5, <4>11, <4>12, <4>13
    <3>3. QED BY <2>2, <3>2
  <2>5. QED BY <2>3, <2>4 DEF Remote
<1>2. IInv /\ XInv => MessagesBounded BY <1>1 DEF MessagesBounded
<1>3. QED BY <1>2, ExchangeInvariant, PTL

-----------------------------------------------------------------------------
(* What the fields and buffers hold.                                        *)

\* The blocks of a rank have a first, and each a next.
LEMMA LeastIn ==
  ASSUME NEW S, S \subseteq Nat, S # {}
  PROVE  Least(S) \in S
<1> DEFINE R == OpToRel(<, Nat)
<1>1. IsWellFoundedOn(R, Nat) BY NatLessThanWellFounded
<1>2. \A x, y \in Nat : y < x => <<y, x>> \in R BY DEF OpToRel
<1> HIDE DEF R
<1>3. PICK x \in S : \A y \in S : ~ (<<y, x>> \in R) BY <1>1, WFMin, Zenon
<1>4. \A y \in S : x <= y
  <2>1. \A y \in S : y \in Nat /\ x \in Nat OBVIOUS
  <2>2. \A y \in S : ~ (y < x) BY <1>2, <1>3, <2>1, Zenon
  <2>3. QED BY <2>1, <2>2
<1>5. \E b \in S : \A a \in S : b <= a BY <1>4, Zenon
<1>6. QED BY <1>5, Zenon DEF Least

LEMMA AfterIn ==
  ASSUME setup \in Setup, NEW b \in Block
  PROVE  After(b) \in Block
<1> DEFINE all == Blocks(RankOf[b])
           later == {a \in all : a > b}
<1>1. Block \subseteq Nat BY Meshes
<1>2. all \subseteq Block /\ b \in all BY DEF Blocks
<1>3. later \subseteq Block
  <2>1. later \subseteq all OBVIOUS
  <2> HIDE DEF all, later
  <2>2. QED BY <1>2, <2>1
<1>4. Least(all) \in Block BY <1>1, <1>2, LeastIn
<1>5. later # {} => Least(later) \in Block BY <1>1, <1>3, LeastIn
<1>6. After(b) = IF later = {} THEN Least(all) ELSE Least(later) BY DEF After
<1>7. QED BY <1>4, <1>5, <1>6

\* The part of the invariant that does not follow from IInv and XInv.
Scanned ==
  /\ stage \in [Block -> 0 .. MaxStage]
  /\ visit \in [Rank -> [block : Block, passed : 0 .. Len(List)]]

FieldTyped(b, v) ==
  /\ flux[b][v] \in Value("hyd") /\ u[b][v] \in Value(v) /\ sendbuf[b][v] \in Packed(v)

LinkTyped(l, v) ==
  /\ ghost[l][v] \in Packed(v) /\ recvbuf[l][v] \in Packed(v)
  /\ chan[l][v] \in Seq(Packed(v))

Contents ==
  /\ \A b \in Block, v \in Var : FieldTyped(b, v)
  /\ \A b \in Block : du[b] \in Value("hyd")
  /\ \A l \in Link, v \in Var : LinkTyped(l, v)

LEMMA TypeParts == IInv /\ XInv => (TypeOK <=> Scanned /\ Contents)
<1> SUFFICES ASSUME IInv, XInv PROVE TypeOK <=> Scanned /\ Contents
  OBVIOUS
<1>1. /\ setup \in Setup /\ eager \in BOOLEAN /\ done \in [Block -> SUBSET Task]
      /\ \A b \in Block : sflag[b] \subseteq Var
      /\ \A l \in Link, v \in Var :
           /\ active[l][v] \in BOOLEAN
           /\ flag[l][v] \in {"waiting", "arrived", "completed"}
  BY DEF IInv, XInv, TypedState, TypedFields, TypedBuffers
<1>2. QED BY <1>1, Zenon DEF TypeOK, Scanned, Contents, FieldTyped, LinkTyped

-----------------------------------------------------------------------------
LEMMA StartScanned ==
  ASSUME IInv, Scanned, NEW r \in Rank, Startup(r)
  PROVE  Scanned'
<1>1. /\ \A b \in Blocks(r) : stage[b] < MaxStage
      /\ stage' = [b \in Block |-> IF b \in Blocks(r) THEN stage[b] + 1 ELSE stage[b]]
      /\ visit' = [visit EXCEPT ![r] = Visit(Least(Blocks(r)), 0)]
      /\ setup' = setup
  BY DEF Startup
<1>2. Block' = Block /\ Rank' = Rank /\ List' = List BY <1>1, Fixed
<1>3. setup \in Setup BY DEF IInv, TypedState
<1>4. Block \subseteq Nat /\ Len(List) \in Nat BY <1>3, Meshes, Places
<1>5. stage' \in [Block -> 0 .. MaxStage]
  <2>1. MaxStage \in Nat BY StageAssumption
  <2>2. QED BY <1>1, <2>1 DEF Scanned
<1>6. Visit(Least(Blocks(r)), 0) \in [block : Block, passed : 0 .. Len(List)]
  <2>1. Blocks(r) \subseteq Block /\ Blocks(r) # {} BY DEF Blocks, Rank
  <2>2. Least(Blocks(r)) \in Block BY <1>4, <2>1, LeastIn
  <2>3. QED BY <1>4, <2>2 DEF Visit
<1>7. visit' \in [Rank -> [block : Block, passed : 0 .. Len(List)]]
  BY <1>1, <1>6 DEF Scanned
<1>8. QED BY <1>2, <1>5, <1>7 DEF Scanned

LEMMA MovesOn ==
  ASSUME IInv, Scanned, NEW b \in Block, NEW at \in [block : Block, passed : 0 .. Len(List)],
         visit' = [visit EXCEPT ![RankOf[b]] = at], stage' = stage, setup' = setup
  PROVE  Scanned'
<1>1. Block' = Block /\ Rank' = Rank /\ List' = List BY Fixed
<1>2. visit' \in [Rank -> [block : Block, passed : 0 .. Len(List)]] BY DEF Scanned
<1>3. QED BY <1>1, <1>2 DEF Scanned

LEMMA FinishScanned ==
  ASSUME IInv, Scanned, NEW b \in Block, NEW t, Ready(b, t), Finish(b, t)
  PROVE  Scanned'
<1>1. setup \in Setup BY DEF IInv, TypedState
<1> DEFINE at == IF Goes(b, t) THEN Visit(b, Position(t)) ELSE Visit(After(b), 0)
<1>2. at \in [block : Block, passed : 0 .. Len(List)]
  <2>1. t \in Task BY DEF Ready
  <2>2. Position(t) \in 0 .. Len(List) /\ 0 \in 0 .. Len(List) BY <1>1, <2>1, Places
  <2>3. After(b) \in Block BY <1>1, AfterIn
  <2>4. QED BY <2>2, <2>3 DEF Visit
<1>3. visit' = [visit EXCEPT ![RankOf[b]] = at] /\ stage' = stage /\ setup' = setup
  BY DEF Finish
<1> HIDE DEF at
<1>4. QED BY <1>2, <1>3, MovesOn

LEMMA EndScanned ==
  ASSUME IInv, Scanned, NEW b \in Block, EndVisit(b)
  PROVE  Scanned'
<1>1. setup \in Setup BY DEF IInv, TypedState
<1> DEFINE at == Visit(After(b), 0)
<1>2. at \in [block : Block, passed : 0 .. Len(List)]
  <2>1. 0 \in 0 .. Len(List) BY <1>1, Places
  <2>2. After(b) \in Block BY <1>1, AfterIn
  <2>3. QED BY <2>1, <2>2 DEF Visit
<1>3. visit' = [visit EXCEPT ![RankOf[b]] = at] /\ stage' = stage /\ setup' = setup
  BY DEF EndVisit
<1> HIDE DEF at
<1>4. QED BY <1>2, <1>3, MovesOn

LEMMA NothingScanned ==
  ASSUME Scanned, setup' = setup, UNCHANGED state
  PROVE  Scanned'
BY Fixed DEF Scanned, state

LEMMA BlockScanned ==
  ASSUME IInv, Scanned, NEW b \in Block, Compute(b) \/ Exchange(b)
  PROVE  Scanned'
<1>1. \E t : Ready(b, t) /\ Finish(b, t)
  <2>1. CASE Compute(b)
    BY <2>1 DEF Compute, CalculateHydroFlux, CalculateScalarFlux, AddFluxToConserved,
       IntegrateHydro, IntegrateScalars, AddSourceTerms, ImplicitCorrection,
       UpdateAllConserved, Primitives
  <2>2. CASE Exchange(b)
    <3>1. ASSUME NEW t, NEW v, Send(b, t, v) PROVE Ready(b, t) /\ Finish(b, t)
      BY <3>1 DEF Send
    <3>2. ASSUME NEW t, NEW v, Receive(b, t, v) PROVE Ready(b, t) /\ Finish(b, t)
      BY <3>2 DEF Receive
    <3>3. ASSUME NEW t, NEW v, SetBoundaries(b, t, v) PROVE Ready(b, t) /\ Finish(b, t)
      BY <3>3 DEF SetBoundaries
    <3>4. ASSUME NEW t, ClearAllBoundary(b, t) PROVE Ready(b, t) /\ Finish(b, t)
      BY <3>4 DEF ClearAllBoundary
    <3>5. ASSUME RestartReceiving(b)
          PROVE  Ready(b, "RESTART_RECV") /\ Finish(b, "RESTART_RECV")
      BY <3>5 DEF RestartReceiving
    <3>6. QED BY <2>2, <3>1, <3>2, <3>3, <3>4, <3>5 DEF Exchange
  <2>3. QED BY <2>1, <2>2
<1>2. QED BY <1>1, FinishScanned

-----------------------------------------------------------------------------
(* Values are of the parts of their variable, in the stages there are.      *)
LEMMA ValueUnion ==
  ASSUME NEW v, NEW x \in Value(v), NEW y \in Value(v)
  PROVE  x \cup y \in Value(v)
BY DEF Value

LEMMA ComputedTyped ==
  ASSUME Scanned, NEW b \in Block, NEW v, NEW part \in Part(v)
  PROVE  Computed(part, b) \in Value(v)
<1>1. stage[b] \in 0 .. MaxStage BY DEF Scanned
<1>2. QED BY <1>1 DEF Computed, Value

LEMMA ScalarFluxTyped ==
  ASSUME IInv, Scanned, NEW b \in Block, Scalars, InStage(b), "CALC_SCLRFLX" \in done[b]
  PROVE  flux[b]["sclr"] \in Value("sclr")
<1>1. flux[b]["sclr"] = Of({"flux"}, b) BY DEF InStage, FluxesRight
<1>2. "flux" \in Part("sclr") BY DEF Part
<1>3. QED BY <1>1, <1>2, ComputedIs, ComputedTyped

LEMMA WholeTyped ==
  ASSUME NEW v, NEW s \in 0 .. MaxStage
  PROVE  Whole(v, s) \in Value(v) /\ WholePacked(v, s) \in Packed(v)
<1>1. Whole(v, s) \in Value(v) BY DEF Whole, Value
<1>2. QED BY <1>1 DEF WholePacked, Packed

LEMMA PackContent ==
  ASSUME NEW b, NEW v, u[b][v] \in Value(v)
  PROVE  Pack(b, v) \in Packed(v)
<1> DEFINE fresh == CubedSphere =>
             \A l \in LinksTo(b) : ghost[l][v].value = Whole(v, stage[b])
<1>1. fresh \in BOOLEAN OBVIOUS
<1>2. Pack(b, v) = [value |-> u[b][v], fresh |-> fresh] BY Zenon DEF Pack
<1> HIDE DEF fresh
<1>3. [value |-> u[b][v], fresh |-> fresh] \in Packed(v) BY <1>1 DEF Packed
<1>4. QED BY <1>2, <1>3

\* One entry of an array of fields is written.
LEMMA Written ==
  ASSUME NEW B, NEW V, NEW X, NEW f \in [B -> [V -> X]], NEW b, NEW v, NEW x,
         NEW a \in B, NEW w \in V
  PROVE  [f EXCEPT ![b][v] = x][a][w] = IF a = b /\ w = v THEN x ELSE f[a][w]
<1>1. CASE a = b /\ b \in B BY <1>1
<1>2. CASE a # b BY <1>2
<1>3. QED BY <1>1, <1>2

\* A task that computes: fields of one block change, and the average.
LEMMA ComputeContents ==
  ASSUME IInv, XInv, Contents, NEW b \in Block, NEW t, Finish(b, t), UNCHANGED <<sends, receives>>,
         \A a \in Block, v \in Var : flux'[a][v] \in Value("hyd") /\ u'[a][v] \in Value(v),
         \A a \in Block : du'[a] \in Value("hyd"),
         \A l \in Link, v \in Var : ghost'[l][v] \in Packed(v)
  PROVE  Contents'
<1>1. setup' = setup BY DEF Finish
<1>2. Block' = Block /\ Var' = Var /\ Link' = Link BY <1>1, Fixed
<1>3. UNCHANGED <<sendbuf, chan, recvbuf>> BY DEF sends, receives
<1>4. \A a \in Block, v \in Var : FieldTyped(a, v)' BY <1>3 DEF Contents, FieldTyped
<1>5. \A l \in Link, v \in Var : LinkTyped(l, v)' BY <1>3 DEF Contents, LinkTyped
<1>6. QED BY <1>2, <1>4, <1>5 DEF Contents

LEMMA AveragedTyped ==
  ASSUME XInv, Contents, NEW b, NEW v, Averaged(b, v)
  PROVE  \A l \in Link, w \in Var : ghost'[l][w] \in Packed(w)
<1>1. \A l \in Link, w \in Var : ghost[l][w] \in Packed(w) BY DEF Contents, LinkTyped
<1>2. CASE UNCHANGED ghost BY <1>1, <1>2
<1>3. CASE ghost' = [l \in Link |->
             IF l[2] = b THEN [ghost[l] EXCEPT ![v] = [value |-> {}, fresh |-> FALSE]]
             ELSE ghost[l]]
  <2>1. \A w : [value |-> {}, fresh |-> FALSE] \in Packed(w) BY DEF Packed, Value
  <2>2. ghost \in [Link -> [Var -> Message]] BY DEF XInv, TypedBuffers
  <2>3. ASSUME NEW l \in Link, NEW w \in Var
        PROVE  ghost'[l][w] \in {ghost[l][w], [value |-> {}, fresh |-> FALSE]}
    BY <1>3, <2>2
  <2>4. QED BY <1>1, <2>1, <2>3
<1>4. QED BY <1>2, <1>3 DEF Averaged

LEMMA ComputeTyped ==
  ASSUME IInv, XInv, Scanned, Contents, NEW b \in Block, Compute(b)
  PROVE  Contents'
<1>1. /\ flux \in [Block -> [Var -> Content]] /\ u \in [Block -> [Var -> Content]]
      /\ du \in [Block -> Content]
  BY DEF IInv, TypedFields
<1>2. /\ \A a \in Block, v \in Var : flux[a][v] \in Value("hyd") /\ u[a][v] \in Value(v)
      /\ \A a \in Block : du[a] \in Value("hyd")
      /\ \A l \in Link, v \in Var : ghost[l][v] \in Packed(v)
  BY DEF Contents, FieldTyped, LinkTyped
<1>3. /\ \A p \in {"flux", "radiation", "source", "implicit", "update"} :
           Computed(p, b) \in Value("hyd")
      /\ Computed("source", b) \in Value("sclr")
  BY ComputedTyped DEF Part
<1>4. "hyd" \in Var BY DEF Var
<1>5. \A v : {} \in Value(v) BY DEF Value
<1>6. ASSUME NEW v, NEW x \in Value("hyd"), flux' = [flux EXCEPT ![b][v] = x]
      PROVE  \A a \in Block, w \in Var : flux'[a][w] \in Value("hyd")
  <2>1. TAKE a \in Block, w \in Var
  <2>2. flux'[a][w] = IF a = b /\ w = v THEN x ELSE flux[a][w]
    <3>1. [flux EXCEPT ![b][v] = x][a][w] = IF a = b /\ w = v THEN x ELSE flux[a][w]
      BY <1>1, Written
    <3>2. QED BY <1>6, <3>1
  <2>3. QED BY <1>2, <1>6, <2>2
<1>7. ASSUME NEW v, NEW x, v \in Var => x \in Value(v), u' = [u EXCEPT ![b][v] = x]
      PROVE  \A a \in Block, w \in Var : u'[a][w] \in Value(w)
  <2>1. TAKE a \in Block, w \in Var
  <2>2. u'[a][w] = IF a = b /\ w = v THEN x ELSE u[a][w]
    <3>1. [u EXCEPT ![b][v] = x][a][w] = IF a = b /\ w = v THEN x ELSE u[a][w]
      BY <1>1, Written
    <3>2. QED BY <1>7, <3>1
  <2>3. QED BY <1>2, <1>7, <2>2
<1>8. ASSUME NEW x \in Value("hyd"), du' = [du EXCEPT ![b] = x]
      PROVE  du'[b] = x /\ \A a \in Block : du'[a] \in Value("hyd")
  BY <1>1, <1>2, <1>8
<1>9. CASE CalculateHydroFlux(b)
  <2>1. /\ Finish(b, "CALC_HYDFLX") /\ UNCHANGED <<du, u, ghost, sends, receives>>
        /\ flux' = [flux EXCEPT ![b]["hyd"] = Computed("flux", b)]
    BY <1>9 DEF CalculateHydroFlux
  <2>2. \A a \in Block, w \in Var : flux'[a][w] \in Value("hyd") BY <1>3, <1>6, <2>1
  <2>3. QED BY <1>2, <2>1, <2>2, ComputeContents
<1>10. CASE CalculateScalarFlux(b)
  <2>1. /\ Finish(b, "CALC_SCLRFLX") /\ UNCHANGED <<du, u, ghost, sends, receives>>
        /\ flux' = [flux EXCEPT ![b]["sclr"] = Computed("flux", b)]
    BY <1>10 DEF CalculateScalarFlux
  <2>2. \A a \in Block, w \in Var : flux'[a][w] \in Value("hyd") BY <1>3, <1>6, <2>1
  <2>3. QED BY <1>2, <2>1, <2>2, ComputeContents
<1>11. CASE AddFluxToConserved(b)
  <2>1. /\ Finish(b, "ADD_FLX_CONS") /\ UNCHANGED <<du, u, ghost, sends, receives>>
        /\ flux' = [flux EXCEPT ![b]["hyd"] = flux[b]["hyd"] \cup Computed("radiation", b)]
    BY <1>11 DEF AddFluxToConserved
  <2>2. flux[b]["hyd"] \cup Computed("radiation", b) \in Value("hyd")
    BY <1>2, <1>3, <1>4, ValueUnion
  <2>3. \A a \in Block, w \in Var : flux'[a][w] \in Value("hyd") BY <1>6, <2>1, <2>2
  <2>4. QED BY <1>2, <2>1, <2>3, ComputeContents
<1>12. CASE IntegrateHydro(b)
  <2>1. /\ Finish(b, "INT_HYD") /\ UNCHANGED <<flux, sends, receives>>
        /\ Averaged(b, "hyd")
        /\ u' = [u EXCEPT ![b]["hyd"] = {}] /\ du' = [du EXCEPT ![b] = flux[b]["hyd"]]
    BY <1>12 DEF IntegrateHydro
  <2>2. \A a \in Block, w \in Var : u'[a][w] \in Value(w) BY <1>5, <1>7, <2>1
  <2>3. \A a \in Block : du'[a] \in Value("hyd") BY <1>2, <1>4, <1>8, <2>1
  <2>4. \A l \in Link, w \in Var : ghost'[l][w] \in Packed(w) BY <2>1, AveragedTyped
  <2>5. QED BY <1>2, <2>1, <2>2, <2>3, <2>4, ComputeContents
<1>13. CASE IntegrateScalars(b)
  <2>1. /\ Finish(b, "INT_SCLR") /\ UNCHANGED <<flux, du, sends, receives>>
        /\ Ready(b, "INT_SCLR") /\ Averaged(b, "sclr")
        /\ u' = [u EXCEPT ![b]["sclr"] = flux[b]["sclr"]]
    BY <1>13 DEF IntegrateScalars
  <2>2. "sclr" \in Var => flux[b]["sclr"] \in Value("sclr")
    <3>1. SUFFICES ASSUME Scalars PROVE flux[b]["sclr"] \in Value("sclr")
      BY DEF Var
    <3>2. InStage(b) /\ "CALC_SCLRFLX" \in done[b] BY <2>1, Taken, Waits
    <3>3. QED BY <3>1, <3>2, ScalarFluxTyped
  <2>3. \A a \in Block, w \in Var : u'[a][w] \in Value(w) BY <1>7, <2>1, <2>2
  <2>4. \A l \in Link, w \in Var : ghost'[l][w] \in Packed(w) BY <2>1, AveragedTyped
  <2>5. QED BY <1>2, <2>1, <2>3, <2>4, ComputeContents
<1>14. CASE AddSourceTerms(b)
  <2>1. /\ Finish(b, "SRC_TERM") /\ UNCHANGED <<flux, ghost, sends, receives>>
        /\ du' = [du EXCEPT ![b] = du[b] \cup Computed("source", b)]
        /\ u' = IF Scalars THEN [u EXCEPT ![b]["sclr"] = u[b]["sclr"] \cup Computed("source", b)]
                ELSE u
    BY <1>14 DEF AddSourceTerms
  <2>2. du[b] \cup Computed("source", b) \in Value("hyd") BY <1>2, <1>3, ValueUnion
  <2>3. \A a \in Block : du'[a] \in Value("hyd") BY <1>8, <2>1, <2>2
  <2>4. "sclr" \in Var => u[b]["sclr"] \cup Computed("source", b) \in Value("sclr")
    BY <1>2, <1>3, ValueUnion
  <2>5. \A a \in Block, w \in Var : u'[a][w] \in Value(w)
    <3>1. CASE Scalars BY <1>7, <2>1, <2>4, <3>1
    <3>2. CASE ~ Scalars BY <1>2, <2>1, <3>2
    <3>3. QED BY <3>1, <3>2
  <2>6. QED BY <1>2, <2>1, <2>3, <2>5, ComputeContents
<1>15. CASE ImplicitCorrection(b)
  <2>1. /\ Finish(b, "IMPLICIT_CORR") /\ UNCHANGED <<flux, ghost, sends, receives>>
        /\ du' = [du EXCEPT ![b] = du[b] \cup Computed("implicit", b)]
        /\ u' = [u EXCEPT ![b]["hyd"] = u[b]["hyd"] \cup du'[b]]
    BY <1>15 DEF ImplicitCorrection
  <2>2. du[b] \cup Computed("implicit", b) \in Value("hyd") BY <1>2, <1>3, ValueUnion
  <2>3. \A a \in Block : du'[a] \in Value("hyd") BY <1>8, <2>1, <2>2
  <2>4. u[b]["hyd"] \cup du'[b] \in Value("hyd") BY <1>2, <1>4, <2>3, ValueUnion
  <2>5. \A a \in Block, w \in Var : u'[a][w] \in Value(w) BY <1>7, <2>1, <2>4
  <2>6. QED BY <1>2, <2>1, <2>3, <2>5, ComputeContents
<1>16. CASE UpdateAllConserved(b)
  <2>1. /\ Finish(b, "UPDATE_ALLCONS") /\ UNCHANGED <<flux, du, ghost, sends, receives>>
        /\ u' = IF LastStage(stage[b])
                THEN [u EXCEPT ![b]["hyd"] = u[b]["hyd"] \cup Computed("update", b)] ELSE u
    BY <1>16 DEF UpdateAllConserved
  <2>2. u[b]["hyd"] \cup Computed("update", b) \in Value("hyd")
    BY <1>2, <1>3, <1>4, ValueUnion
  <2>3. \A a \in Block, w \in Var : u'[a][w] \in Value(w)
    <3>1. CASE LastStage(stage[b]) BY <1>7, <2>1, <2>2, <3>1
    <3>2. CASE ~ LastStage(stage[b]) BY <1>2, <2>1, <3>2
    <3>3. QED BY <3>1, <3>2
  <2>4. QED BY <1>2, <2>1, <2>3, ComputeContents
<1>17. CASE Primitives(b)
  <2>1. Finish(b, "CONS2PRIM") /\ UNCHANGED <<flux, du, u, ghost, sends, receives>>
    BY <1>17 DEF Primitives, fields
  <2>2. QED BY <1>2, <2>1, ComputeContents
<1>18. QED
  BY <1>9, <1>10, <1>11, <1>12, <1>13, <1>14, <1>15, <1>16, <1>17 DEF Compute

-----------------------------------------------------------------------------
\* What is sent, received and set is packed.
LEMMA LinkContents ==
  ASSUME Contents, setup' = setup, UNCHANGED <<flux, du, u>>,
         \A b \in Block, v \in Var : sendbuf'[b][v] \in Packed(v),
         \A l \in Link, v \in Var : LinkTyped(l, v)'
  PROVE  Contents'
<1>1. Block' = Block /\ Var' = Var /\ Link' = Link BY Fixed
<1>2. \A b \in Block, v \in Var : FieldTyped(b, v)' BY DEF Contents, FieldTyped
<1>3. QED BY <1>1, <1>2 DEF Contents

LEMMA NothingContents ==
  ASSUME Contents, setup' = setup, UNCHANGED <<fields, sendbuf, chan, recvbuf>>
  PROVE  Contents'
BY LinkContents DEF Contents, FieldTyped, LinkTyped, fields

LEMMA SendContents ==
  ASSUME IInv, XInv, Contents, NEW b \in Block, NEW t, NEW v \in Var, Send(b, t, v)
  PROVE  Contents'
<1>1. UNCHANGED fields /\ setup' = setup BY DEF Send, Finish
<1>2. CASE v \in sflag[b]
  BY <1>1, <1>2, NothingContents DEF Send, sends, receives
<1>3. CASE v \notin sflag[b]
  <2>1. /\ UNCHANGED ghost
        /\ sendbuf'[b][v] = Pack(b, v)
        /\ \A w \in Var \ {v} : sendbuf'[b][w] = sendbuf[b][w]
        /\ \A a \in Block \ {b} : sendbuf'[a] = sendbuf[a]
        /\ \A l \in Link, w \in Var : w # v \/ l[1] # b =>
             chan'[l][w] = chan[l][w] /\ recvbuf'[l][w] = recvbuf[l][w]
        /\ \A l \in Link : l[1] = b =>
             IF Remote(l)
             THEN /\ chan'[l][v] = Append(chan[l][v], Pack(b, v))
                  /\ recvbuf'[l][v] = recvbuf[l][v]
             ELSE chan'[l][v] = chan[l][v] /\ recvbuf'[l][v] = Pack(b, v)
    BY <1>3, SentOver
  <2>2. /\ \A a \in Block, w \in Var : sendbuf[a][w] \in Packed(w) /\ u[a][w] \in Value(w)
        /\ \A l \in Link, w \in Var : LinkTyped(l, w)
    BY DEF Contents, FieldTyped
  <2>3. Pack(b, v) \in Packed(v) BY <2>2, PackContent
  <2>4. ASSUME NEW a \in Block, NEW w \in Var PROVE sendbuf'[a][w] \in Packed(w)
    BY <2>1, <2>2, <2>3
  <2>5. ASSUME NEW l \in Link, NEW w \in Var PROVE LinkTyped(l, w)'
    <3>1. ghost[l][w] \in Packed(w) /\ recvbuf[l][w] \in Packed(w)
          /\ chan[l][w] \in Seq(Packed(w))
      BY <2>2 DEF LinkTyped
    <3>2. CASE w # v \/ l[1] # b BY <2>1, <3>1, <3>2 DEF LinkTyped
    <3>3. CASE w = v /\ l[1] = b
      <4>1. Append(chan[l][v], Pack(b, v)) \in Seq(Packed(v))
        BY <2>3, <3>1, <3>3, AppendProperties
      <4>2. QED BY <2>1, <2>3, <3>1, <3>3, <4>1 DEF LinkTyped
    <3>4. QED BY <3>2, <3>3
  <2>6. QED BY <1>1, <2>4, <2>5, LinkContents DEF fields
<1>4. QED BY <1>2, <1>3

LEMMA SetContents ==
  ASSUME XInv, Contents, NEW b \in Block, NEW t, NEW v \in Var, SetBoundaries(b, t, v)
  PROVE  Contents'
<1>1. /\ UNCHANGED <<flux, du, u, sendbuf, chan, recvbuf>> /\ setup' = setup
      /\ ghost' = [l \in Link |->
           IF l \in LinksTo(b) THEN [ghost[l] EXCEPT ![v] = recvbuf[l][v]] ELSE ghost[l]]
  BY DEF SetBoundaries, Finish, sends
<1>2. ghost \in [Link -> [Var -> Message]] BY DEF XInv, TypedBuffers
<1>3. \A a \in Block, w \in Var : sendbuf'[a][w] \in Packed(w)
  BY <1>1 DEF Contents, FieldTyped
<1>4. ASSUME NEW l \in Link, NEW w \in Var PROVE LinkTyped(l, w)'
  <2>1. LinkTyped(l, w) BY DEF Contents
  <2>2. ghost'[l][w] \in {ghost[l][w], recvbuf[l][w]} BY <1>1, <1>2
  <2>3. QED BY <1>1, <2>1, <2>2 DEF LinkTyped
<1>5. QED BY <1>1, <1>3, <1>4, LinkContents

LEMMA ExchangeTyped ==
  ASSUME IInv, XInv, Contents, NEW b \in Block, Exchange(b)
  PROVE  Contents'
<1>1. ASSUME NEW t, NEW v \in Var, Send(b, t, v) PROVE Contents' BY <1>1, SendContents
<1>2. ASSUME NEW t, NEW v \in Var, Receive(b, t, v) PROVE Contents'
  BY <1>2, NothingContents DEF Receive, Finish, sends
<1>3. ASSUME NEW t, NEW v \in Var, SetBoundaries(b, t, v) PROVE Contents'
  BY <1>3, SetContents
<1>4. ASSUME NEW t, ClearAllBoundary(b, t) PROVE Contents'
  BY <1>4, NothingContents DEF ClearAllBoundary, Finish
<1>5. CASE RestartReceiving(b)
  BY <1>5, NothingContents DEF RestartReceiving, Finish, sends
<1>6. QED BY <1>1, <1>2, <1>3, <1>4, <1>5 DEF Exchange

LEMMA DeliverContents ==
  ASSUME IInv, XInv, Contents, NEW m \in Link, NEW v \in Var, Deliver(m, v)
  PROVE  Contents'
<1>1. /\ chan[m][v] # <<>> /\ UNCHANGED <<setup, fields, sendbuf>>
      /\ recvbuf' = [recvbuf EXCEPT ![m][v] =
           IF eager THEN Head(chan[m][v]) ELSE sendbuf[m[1]][v]]
      /\ chan' = [chan EXCEPT ![m][v] = Tail(chan[m][v])]
  BY DEF Deliver
<1>2. /\ recvbuf \in [Link -> [Var -> Message]]
      /\ chan \in [Link -> [Var -> Seq(Message)]]
  BY DEF XInv, TypedBuffers
<1>3. setup \in Setup BY DEF IInv, TypedState
<1>4. /\ \A a \in Block, w \in Var : sendbuf[a][w] \in Packed(w)
      /\ \A l \in Link, w \in Var : LinkTyped(l, w)
  BY DEF Contents, FieldTyped
<1>5. ASSUME NEW l \in Link, NEW w \in Var PROVE LinkTyped(l, w)'
  <2>1. LinkTyped(l, w) BY <1>4
  <2>2. CASE l # m \/ w # v
    <3>1. recvbuf'[l][w] = recvbuf[l][w] /\ chan'[l][w] = chan[l][w]
      BY <1>1, <1>2, <2>2
    <3>2. QED BY <1>1, <2>1, <3>1 DEF LinkTyped, fields
  <2>3. CASE l = m /\ w = v
    <3>1. /\ recvbuf'[m][v] = IF eager THEN Head(chan[m][v]) ELSE sendbuf[m[1]][v]
          /\ chan'[m][v] = Tail(chan[m][v])
      BY <1>1, <1>2
    <3>2. chan[m][v] \in Seq(Packed(v)) BY <2>1, <2>3 DEF LinkTyped
    <3>3. Head(chan[m][v]) \in Packed(v) /\ Tail(chan[m][v]) \in Seq(Packed(v))
      BY <1>1, <3>2, HeadTailProperties
    <3>4. sendbuf[m[1]][v] \in Packed(v) BY <1>3, <1>4, LinkMesh
    <3>5. QED BY <1>1, <2>1, <2>3, <3>1, <3>3, <3>4 DEF LinkTyped, fields
  <2>4. QED BY <2>2, <2>3
<1>6. QED BY <1>1, <1>4, <1>5, LinkContents DEF fields

-----------------------------------------------------------------------------
LEMMA TypedInit == Init => Scanned /\ Contents
<1> SUFFICES ASSUME Init PROVE Scanned /\ Contents
  OBVIOUS
<1>1. setup \in Setup /\ MaxStage \in Nat BY StageAssumption DEF Init
<1>2. Block \subseteq Nat /\ Len(List) \in Nat BY <1>1, Meshes, Places
<1>3. Scanned
  <2>1. stage \in [Block -> 0 .. MaxStage] BY <1>1 DEF Init
  <2>2. \A r \in Rank : Least(Blocks(r)) \in Block
    <3>1. \A r \in Rank : Blocks(r) \subseteq Block /\ Blocks(r) # {} BY DEF Blocks, Rank
    <3>2. \A r \in Rank : Blocks(r) \subseteq Nat BY <1>2, <3>1
    <3>3. \A r \in Rank : Least(Blocks(r)) \in Blocks(r) BY <3>1, <3>2, LeastIn
    <3>4. QED BY <3>1, <3>3
  <2>3. \A r \in Rank :
          Visit(Least(Blocks(r)), 0) \in [block : Block, passed : 0 .. Len(List)]
    BY <1>2, <2>2 DEF Visit
  <2>4. visit = [r \in Rank |-> Visit(Least(Blocks(r)), 0)] BY DEF Init
  <2>5. visit \in [Rank -> [block : Block, passed : 0 .. Len(List)]]
    BY <2>3, <2>4
  <2>6. QED BY <2>1, <2>5 DEF Scanned
<1>4. \A v : Whole(v, 0) \in Value(v) /\ WholePacked(v, 0) \in Packed(v)
  BY <1>1, WholeTyped
<1>5. {} \in Value("hyd") BY DEF Value
<1>6. \A b \in Block, v \in Var : FieldTyped(b, v) BY <1>4, <1>5 DEF Init, FieldTyped
<1>7. \A b \in Block : du[b] \in Value("hyd") BY <1>5 DEF Init
<1>8. \A l \in Link, v \in Var : LinkTyped(l, v) BY <1>4, EmptySeq DEF Init, LinkTyped
<1>9. QED BY <1>3, <1>6, <1>7, <1>8 DEF Contents

LEMMA TypedNext ==
  IInv /\ XInv /\ Scanned /\ Contents /\ [Next]_vars => Scanned' /\ Contents'
<1> SUFFICES ASSUME IInv, XInv, Scanned, Contents, [Next]_vars PROVE Scanned' /\ Contents'
  OBVIOUS
<1>1. ASSUME NEW r \in Rank, Startup(r) PROVE Scanned' /\ Contents'
  <2>1. setup' = setup /\ UNCHANGED <<fields, sendbuf, chan, recvbuf>>
    BY <1>1 DEF Startup, sends
  <2>2. QED BY <1>1, <2>1, StartScanned, NothingContents
<1>2. ASSUME NEW b \in Block, Compute(b) PROVE Scanned' /\ Contents'
  BY <1>2, BlockScanned, ComputeTyped
<1>3. ASSUME NEW b \in Block, Exchange(b) PROVE Scanned' /\ Contents'
  BY <1>3, BlockScanned, ExchangeTyped
<1>4. ASSUME NEW b \in Block, EndVisit(b) PROVE Scanned' /\ Contents'
  <2>1. setup' = setup /\ UNCHANGED <<fields, sendbuf, chan, recvbuf>>
    BY <1>4 DEF EndVisit, sends, receives
  <2>2. QED BY <1>4, <2>1, EndScanned, NothingContents
<1>5. ASSUME NEW l \in Link, NEW v \in Var, Deliver(l, v) PROVE Scanned' /\ Contents'
  BY <1>5, DeliverContents, NothingScanned DEF Deliver
<1>6. ASSUME Finished \/ UNCHANGED vars PROVE Scanned' /\ Contents'
  <2>1. setup' = setup /\ UNCHANGED <<state, fields, sendbuf, chan, recvbuf>>
    BY <1>6 DEF Finished, vars, sends, receives
  <2>2. QED BY <2>1, NothingScanned, NothingContents
<1>7. QED BY <1>1, <1>2, <1>3, <1>4, <1>5, <1>6 DEF Next, BlockStep

(* Fields and buffers never hold a part of another variable or of a stage   *)
(* that is not run, and a rank visits blocks that there are.                *)
THEOREM StagesTyped == Spec => []TypeOK
<1>1. Init => IInv /\ XInv BY InitInvariant, XInit
<1>2. IInv /\ XInv /\ [Next]_vars => IInv' /\ XInv' BY NextInvariant, XNext
<1>3. IInv /\ XInv /\ Scanned /\ Contents => TypeOK BY TypeParts
<1>4. QED BY <1>1, <1>2, <1>3, TypedInit, TypedNext, PTL DEF Spec
=============================================================================
