--------------------------- MODULE CmdlineProofs ---------------------------
(***************************************************************************)
(* Which argument counts, for command lines of any length and any words.   *)
(***************************************************************************)
EXTENDS Cmdline, SequenceTheorems, Induction

-----------------------------------------------------------------------------
(* The elements of a sequence that are chosen.                             *)

(* What Chosen computes, element by element. *)
Choosing(c, s, I, m) ==
  /\ c[0] = <<>>
  /\ \A n \in 1..m : c[n] = IF n \in I THEN Append(c[n - 1], s[n]) ELSE c[n - 1]

LEMMA ChosenDef ==
  ASSUME NEW X, NEW s \in Seq(X), NEW I
  PROVE  \E c \in [0..Len(s) -> Seq(X)] :
           Choosing(c, s, I, Len(s)) /\ Chosen(s, I) = c[Len(s)]
<1>. DEFINE l == Len(s)
            Y == Seq(X)
            none == <<>>
            step == [z \in (1..l) \X Y |->
                       IF z[1] \in I THEN Append(z[2], s[z[1]]) ELSE z[2]]
            Equation(c) == c = [n \in 0..l |->
                                  IF n = 0 THEN none
                                  ELSE IF n \in I THEN Append(c[n - 1], s[n]) ELSE c[n - 1]]
<1>1. l \in Nat /\ none \in Y
  OBVIOUS
<1>2. ASSUME NEW k \in 1..l, NEW x \in Y
      PROVE  /\ step[<<k, x>>] = IF k \in I THEN Append(x, s[k]) ELSE x
             /\ step[<<k, x>>] \in Y
  <2>1. s[k] \in X /\ <<k, x>> \in (1..l) \X Y
    OBVIOUS
  <2>2. Append(x, s[k]) \in Y
    BY <2>1
  <2>3. step[<<k, x>>] = IF k \in I THEN Append(x, s[k]) ELSE x
    BY <2>1
  <2>. QED  BY <2>2, <2>3
<1>. HIDE DEF step, Y, none, l
<1>3. PICK c : Follows(c, l, Y, none, step)
  BY <1>1, <1>2, RecursionExists
<1>4. Equation(c)
  <2>1. c \in [0..l -> Y] /\ c[0] = none
    BY <1>3 DEF Follows
  <2>2. ASSUME NEW n \in 0..l, n # 0
        PROVE  c[n] = IF n \in I THEN Append(c[n - 1], s[n]) ELSE c[n - 1]
    <3>1. n \in 1..l /\ n - 1 \in 0..l
      BY <1>1, <2>2
    <3>. QED  BY <1>2, <1>3, <2>1, <3>1 DEF Follows
  <2>. QED  BY <2>1, <2>2
<1>5. PICK d : d = CHOOSE x : Equation(x)
  OBVIOUS
<1>6. Equation(d)
  <2>. HIDE DEF Equation
  <2>. QED  BY <1>4, <1>5
<1>7. Chosen(s, I) = d[l]
  BY <1>5 DEF Chosen, l, none
<1>8. d = [n \in 0..l |-> d[n]] /\ d[0] = none
  BY <1>1, <1>6
<1>9. ASSUME NEW n \in 1..l
      PROVE  d[n] = IF n \in I THEN Append(d[n - 1], s[n]) ELSE d[n - 1]
  <2>1. n \in 0..l /\ n # 0
    BY <1>1
  <2>. QED  BY <1>6, <2>1
<1>10. \A n \in 1..l : d[n - 1] \in Y => d[n] = step[<<n, d[n - 1]>>]
  BY <1>2, <1>9
<1>11. Follows(d, l, Y, none, step)
  BY <1>1, <1>2, <1>8, <1>10, RecursionFollows
<1>12. d \in [0..l -> Y] /\ Choosing(d, s, I, l)
  BY <1>8, <1>9, <1>11 DEF Choosing, Follows, none
<1>. QED
  BY <1>7, <1>12 DEF l, Y

(* The first m elements determine what is chosen of them. *)
LEMMA ChosenAgree ==
  ASSUME NEW m \in Nat, NEW c, NEW s, NEW I, NEW d, NEW t, NEW J,
         Choosing(c, s, I, m), Choosing(d, t, J, m),
         \A n \in 1..m : (n \in I <=> n \in J) /\ (n \in I => s[n] = t[n])
  PROVE  c[m] = d[m]
<1>. DEFINE T == {n \in 0..m : c[n] = d[n]}
<1>1. 0 \in T
  BY DEF Choosing
<1>2. ASSUME NEW n \in 0..(m - 1), n \in T PROVE n + 1 \in T
  <2>1. n + 1 \in 1..m /\ (n + 1) - 1 = n
    OBVIOUS
  <2>2. c[n + 1] = IF n + 1 \in I THEN Append(c[n], s[n + 1]) ELSE c[n]
    BY <2>1 DEF Choosing
  <2>3. d[n + 1] = IF n + 1 \in J THEN Append(d[n], t[n + 1]) ELSE d[n]
    BY <2>1 DEF Choosing
  <2>. QED  BY <1>2, <2>1, <2>2, <2>3
<1>3. 0..m \subseteq T
  <2>. HIDE DEF T
  <2>. QED  BY <1>1, <1>2, IntervalInduction
<1>. QED
  BY <1>3

LEMMA ChosenType ==
  ASSUME NEW X, NEW s \in Seq(X), NEW I
  PROVE  Chosen(s, I) \in Seq(X)
<1>1. PICK c \in [0..Len(s) -> Seq(X)] : Chosen(s, I) = c[Len(s)]
  BY ChosenDef
<1>2. Len(s) \in 0..Len(s)
  OBVIOUS
<1>. QED
  BY <1>1, <1>2

(* Of a sequence with one more element. *)
LEMMA ChosenAppend ==
  ASSUME NEW X, NEW s \in Seq(X), NEW e \in X, NEW I, NEW J,
         \A n \in 1..Len(s) : n \in I <=> n \in J
  PROVE  Chosen(Append(s, e), J) =
           IF Len(s) + 1 \in J THEN Append(Chosen(s, I), e) ELSE Chosen(s, I)
<1>. DEFINE t == Append(s, e)
            m == Len(s)
<1>1. t \in Seq(X) /\ m \in Nat /\ Len(t) = m + 1 /\ t[m + 1] = e
      /\ \A n \in 1..m : t[n] = s[n]
  OBVIOUS
<1>2. PICK c \in [0..m -> Seq(X)] : Choosing(c, s, I, m) /\ Chosen(s, I) = c[m]
  BY ChosenDef
<1>3. PICK d \in [0..(m + 1) -> Seq(X)] :
        Choosing(d, t, J, m + 1) /\ Chosen(t, J) = d[m + 1]
  <2>1. Len(t) = m + 1 /\ t \in Seq(X)
    BY <1>1
  <2>. HIDE DEF t, m
  <2>2. \E d \in [0..Len(t) -> Seq(X)] :
          Choosing(d, t, J, Len(t)) /\ Chosen(t, J) = d[Len(t)]
    BY <2>1, ChosenDef
  <2>. QED  BY <2>1, <2>2
<1>. HIDE DEF t, m
<1>4. Choosing(d, t, J, m)
  <2>1. \A n \in 1..m : n \in 1..(m + 1)
    BY <1>1
  <2>. QED  BY <1>3, <2>1 DEF Choosing
<1>5. c[m] = d[m]
  <2>1. \A n \in 1..m : (n \in I <=> n \in J) /\ (n \in I => s[n] = t[n])
    BY <1>1 DEF m
  <2>. QED  BY <1>1, <1>2, <1>4, <2>1, ChosenAgree
<1>6. d[m + 1] = IF m + 1 \in J THEN Append(d[m], t[m + 1]) ELSE d[m]
  <2>1. m + 1 \in 1..(m + 1) /\ (m + 1) - 1 = m
    BY <1>1
  <2>. QED  BY <1>3, <2>1 DEF Choosing
<1>. QED
  BY <1>1, <1>2, <1>3, <1>5, <1>6 DEF t, m

(* What is chosen beyond the first m elements. *)
LEMMA ChosenStops ==
  ASSUME NEW X, NEW s \in Seq(X), NEW I, NEW c, Choosing(c, s, I, Len(s)),
         NEW m \in 0..Len(s), \A n \in I : n <= m
  PROVE  c[Len(s)] = c[m]
<1>. DEFINE l == Len(s) - m
            T == {k \in 0..l : c[m + k] = c[m]}
<1>1. l \in Nat /\ Len(s) \in Nat /\ m + l = Len(s) /\ m + 0 = m
  OBVIOUS
<1>2. 0 \in T
  BY <1>1
<1>3. ASSUME NEW k \in 0..(l - 1), k \in T PROVE k + 1 \in T
  <2>1. m + k + 1 \in 1..Len(s) /\ (m + k + 1) - 1 = m + k /\ m + (k + 1) = m + k + 1
        /\ ~ (m + k + 1 <= m) /\ k + 1 \in 0..l
    BY <1>1
  <2>2. m + k + 1 \notin I
    BY <2>1
  <2>3. c[m + k + 1] = c[m + k]
    BY <2>1, <2>2 DEF Choosing
  <2>. QED  BY <1>3, <2>1, <2>3
<1>4. 0..l \subseteq T
  <2>. HIDE DEF T, l
  <2>. QED  BY <1>1, <1>2, <1>3, IntervalInduction
<1>5. c[m + l] = c[m]
  <2>1. l \in 0..l
    BY <1>1
  <2>2. l \in T
    BY <1>4, <2>1
  <2>. HIDE DEF l
  <2>. QED  BY <2>2
<1>. QED
  BY <1>1, <1>5

(* One more index, after all of the others. *)
LEMMA ChosenNext ==
  ASSUME NEW X, NEW s \in Seq(X), NEW p \in 1..Len(s), NEW I \in SUBSET (1..(p - 1))
  PROVE  Chosen(s, I \cup {p}) = Append(Chosen(s, I), s[p])
<1>. DEFINE J == I \cup {p}
<1>1. PICK c \in [0..Len(s) -> Seq(X)] :
        Choosing(c, s, I, Len(s)) /\ Chosen(s, I) = c[Len(s)]
  BY ChosenDef
<1>2. PICK d \in [0..Len(s) -> Seq(X)] :
        Choosing(d, s, J, Len(s)) /\ Chosen(s, J) = d[Len(s)]
  <2>. HIDE DEF J
  <2>. QED  BY ChosenDef
<1>3. p - 1 \in Nat /\ p - 1 \in 0..Len(s) /\ p \in 0..Len(s) /\ Len(s) \in Nat
  OBVIOUS
<1>4. c[Len(s)] = c[p - 1]
  <2>1. \A n \in I : n <= p - 1
    BY <1>3
  <2>. QED  BY <1>1, <1>3, <2>1, ChosenStops
<1>5. d[Len(s)] = d[p]
  <2>1. \A n \in J : n <= p
    BY <1>3
  <2>. HIDE DEF J
  <2>. QED  BY <1>2, <1>3, <2>1, ChosenStops
<1>6. d[p - 1] = c[p - 1]
  <2>1. \A n \in 1..(p - 1) : n \in I <=> n \in J
    BY <1>3
  <2>2. Choosing(c, s, I, p - 1) /\ Choosing(d, s, J, p - 1)
    BY <1>1, <1>2, <1>3 DEF Choosing
  <2>. HIDE DEF J
  <2>. QED  BY <1>3, <2>1, <2>2, ChosenAgree
<1>7. d[p] = Append(d[p - 1], s[p])
  BY <1>2 DEF Choosing
<1>. QED
  BY <1>1, <1>2, <1>4, <1>5, <1>6, <1>7

(* Which elements of s the sequence c consists of: those of I up to m. *)
Places(at, c, s, I, m) ==
  /\ at \in [1..Len(c) -> I \cap (1..m)]
  /\ \A k \in 1..Len(c) : c[k] = s[at[k]]
  /\ \A j, k \in 1..Len(c) : j < k => at[j] < at[k]
  /\ \A i \in I \cap (1..m) : \E k \in 1..Len(c) : at[k] = i

LEMMA ChosenPlaces ==
  ASSUME NEW X, NEW s \in Seq(X), NEW I
  PROVE  \E at : Places(at, Chosen(s, I), s, I, Len(s))
<1>1. PICK c \in [0..Len(s) -> Seq(X)] :
        Choosing(c, s, I, Len(s)) /\ Chosen(s, I) = c[Len(s)]
  BY ChosenDef
<1>. DEFINE T == {m \in 0..Len(s) : \E at : Places(at, c[m], s, I, m)}
<1>2. Len(s) \in Nat
  OBVIOUS
<1>3. 0 \in T
  <2>1. c[0] = <<>> /\ Len(c[0]) = 0
    BY <1>1 DEF Choosing
  <2>2. Places([k \in 1..0 |-> 0], c[0], s, I, 0)
    BY <2>1 DEF Places
  <2>3. 0 \in 0..Len(s)
    BY <1>2
  <2>. QED  BY <2>2, <2>3
<1>4. ASSUME NEW m \in 0..(Len(s) - 1), m \in T
      PROVE  m + 1 \in T
  <2>1. PICK at : Places(at, c[m], s, I, m)
    BY <1>4
  <2>2. m + 1 \in 1..Len(s) /\ m + 1 \in 0..Len(s) /\ (m + 1) - 1 = m /\ m \in Nat
        /\ m \in 0..Len(s)
    BY <1>2
  <2>3. c[m] \in Seq(X) /\ s[m + 1] \in X
    BY <2>2
  <2>4. CASE m + 1 \notin I
    <3>1. c[m + 1] = c[m]
      BY <1>1, <2>2, <2>4 DEF Choosing
    <3>2. I \cap (1..(m + 1)) = I \cap (1..m)
      BY <2>2, <2>4
    <3>3. Places(at, c[m + 1], s, I, m + 1)
      BY <2>1, <3>1, <3>2 DEF Places
    <3>. QED  BY <2>2, <3>3
  <2>5. CASE m + 1 \in I
    <3>. DEFINE l == Len(c[m])
                next == [k \in 1..(l + 1) |-> IF k = l + 1 THEN m + 1 ELSE at[k]]
    <3>1. c[m + 1] = Append(c[m], s[m + 1])
      BY <1>1, <2>2, <2>5 DEF Choosing
    <3>2. /\ l \in Nat /\ Len(c[m + 1]) = l + 1 /\ c[m + 1][l + 1] = s[m + 1]
          /\ \A k \in 1..l : c[m + 1][k] = c[m][k]
      BY <2>3, <3>1
    <3>. HIDE DEF l
    <3>3. \A k \in 1..(l + 1) : k = l + 1 \/ k \in 1..l
      BY <3>2
    <3>4. \A k \in 1..l : k # l + 1 /\ k \in 1..(l + 1)
      BY <3>2
    <3>5. l + 1 \in 1..(l + 1)
      BY <3>2
    <3>6. \A k \in 1..l : at[k] \in I \cap (1..m)
      BY <2>1 DEF Places, l
    <3>7. next[l + 1] = m + 1 /\ \A k \in 1..l : next[k] = at[k]
      BY <3>4, <3>5
    <3>8. next \in [1..(l + 1) -> I \cap (1..(m + 1))]
      BY <2>2, <2>5, <3>3, <3>6
    <3>. HIDE DEF next
    <3>9. \A k \in 1..(l + 1) : c[m + 1][k] = s[next[k]]
      BY <2>1, <3>2, <3>3, <3>7 DEF Places, l
    <3>10. ASSUME NEW j \in 1..(l + 1), NEW k \in 1..(l + 1), j < k
           PROVE  next[j] < next[k]
      <4>1. j \in 1..l
        BY <3>2, <3>10
      <4>2. CASE k = l + 1
        <5>1. next[j] \in 1..m
          BY <3>6, <3>7, <4>1
        <5>. QED  BY <2>2, <3>7, <4>2, <5>1
      <4>3. CASE k \in 1..l
        BY <2>1, <3>7, <3>10, <4>1, <4>3 DEF Places, l
      <4>. QED  BY <3>3, <4>2, <4>3
    <3>11. ASSUME NEW i \in I \cap (1..(m + 1))
           PROVE  \E k \in 1..(l + 1) : next[k] = i
      <4>1. CASE i = m + 1
        BY <3>5, <3>7, <4>1
      <4>2. CASE i # m + 1
        <5>1. i \in I \cap (1..m)
          BY <2>2, <4>2
        <5>2. PICK k \in 1..l : at[k] = i
          BY <2>1, <5>1 DEF Places, l
        <5>. QED  BY <3>4, <3>7, <5>2
      <4>. QED  BY <4>1, <4>2
    <3>12. Places(next, c[m + 1], s, I, m + 1)
      BY <3>2, <3>8, <3>9, <3>10, <3>11 DEF Places
    <3>. QED  BY <2>2, <3>12
  <2>. QED  BY <2>4, <2>5
<1>5. 0..Len(s) \subseteq T
  <2>. HIDE DEF T
  <2>. QED  BY <1>2, <1>3, <1>4, IntervalInduction
<1>6. Len(s) \in T
  BY <1>2, <1>5
<1>. QED
  BY <1>1, <1>6

-----------------------------------------------------------------------------
(* The level.                                                              *)

LEMMA LevelsAreLevels ==
  /\ \A w \in DOMAIN LevelOf : LevelOf[w] \in Levels
  /\ Unset \notin Levels /\ {Err, Debug, Info, Warn} \subseteq Levels
  BY DEF LevelOf, Levels, Unset, Err, Debug, Info, Warn

LEMMA MinIs ==
  ASSUME NEW T \in SUBSET Nat, NEW n \in T, \A m \in T : n <= m
  PROVE  Min(T) = n
<1>1. \A x \in T : (\A y \in T : x <= y) => x = n
  BY SMT
<1>. QED
  BY <1>1 DEF Min

LEMMA MinExists ==
  ASSUME NEW T \in SUBSET Nat, T # {}
  PROVE  Min(T) \in T /\ \A m \in T : Min(T) <= m
<1>1. PICK n \in T : \A m \in T : n <= m
  BY LeastNumber
<1>. QED
  BY <1>1, MinIs

(* The words that name a level. *)
Naming(words) == {k \in DOMAIN words : words[k] \in DOMAIN LevelOf}

(* parse_ignited_log: the first word that names a level sets it, if none is *)
(* set already.                                                            *)
LEMMA LevelAfterFirst ==
  ASSUME NEW old \in Levels \cup {Unset}, NEW words \in Seq(Word)
  PROVE  LevelAfter(old, words) =
           IF old # Unset \/ Naming(words) = {} THEN old
           ELSE LevelOf[words[Min(Naming(words))]]
<1>. DEFINE N == Naming(words)
            l == Len(words)
            Equation(f) == f = [n \in 0..l |->
                                  IF n = 0 THEN old
                                  ELSE IF f[n - 1] = Unset /\ words[n] \in DOMAIN LevelOf
                                         THEN LevelOf[words[n]] ELSE f[n - 1]]
            g == [n \in 0..l |-> IF old # Unset \/ N \cap (1..n) = {} THEN old
                                 ELSE LevelOf[words[Min(N)]]]
<1>1. /\ l \in Nat /\ N \in SUBSET Nat /\ N \subseteq 1..l
      /\ \A n \in 1..l : n \in N <=> words[n] \in DOMAIN LevelOf
  BY DEF Naming
<1>2. N # {} => Min(N) \in N /\ \A m \in N : Min(N) <= m
  <2>. HIDE DEF N
  <2>. QED  BY <1>1, MinExists
<1>. HIDE DEF N, l
<1>3. ASSUME NEW n \in 1..l
      PROVE  g[n] = IF g[n - 1] = Unset /\ words[n] \in DOMAIN LevelOf
                      THEN LevelOf[words[n]] ELSE g[n - 1]
  <2>1. n \in 0..l /\ n - 1 \in 0..l /\ \A m \in 1..n : m = n \/ m \in 1..(n - 1)
    BY <1>1
  <2>2. g[n] = (IF old # Unset \/ N \cap (1..n) = {} THEN old ELSE LevelOf[words[Min(N)]])
        /\ g[n - 1] = (IF old # Unset \/ N \cap (1..(n - 1)) = {} THEN old
                       ELSE LevelOf[words[Min(N)]])
    BY <2>1
  <2>. HIDE DEF g
  <2>3. CASE old # Unset
    BY <2>2, <2>3
  <2>4. CASE old = Unset /\ N \cap (1..(n - 1)) # {}
    <3>1. N \cap (1..n) # {}
      BY <1>1, <2>4
    <3>2. LevelOf[words[Min(N)]] # Unset
      BY <1>1, <1>2, <2>4, LevelsAreLevels
    <3>. QED  BY <2>2, <2>4, <3>1, <3>2
  <2>5. CASE old = Unset /\ N \cap (1..(n - 1)) = {} /\ n \in N
    <3>1. \A m \in N : n <= m
      BY <1>1, <2>1, <2>5
    <3>2. Min(N) = n
      BY <1>1, <2>5, <3>1, MinIs
    <3>3. N \cap (1..n) # {}
      BY <1>1, <2>5
    <3>. QED  BY <1>1, <2>2, <2>5, <3>2, <3>3
  <2>6. CASE old = Unset /\ N \cap (1..(n - 1)) = {} /\ n \notin N
    <3>1. N \cap (1..n) = {}
      BY <2>1, <2>6
    <3>. QED  BY <1>1, <2>2, <2>6, <3>1
  <2>. QED  BY <2>3, <2>4, <2>5, <2>6
<1>4. g[0] = old
  BY <1>1
<1>5. Equation(g)
  <2>1. ASSUME NEW n \in 0..l, n # 0
        PROVE  g[n] = IF g[n - 1] = Unset /\ words[n] \in DOMAIN LevelOf
                        THEN LevelOf[words[n]] ELSE g[n - 1]
    <3>1. n \in 1..l
      BY <1>1, <2>1
    <3>. HIDE DEF g
    <3>. QED  BY <1>3, <3>1
  <2>2. g = [n \in 0..l |-> g[n]]
    OBVIOUS
  <2>. HIDE DEF g
  <2>. QED  BY <1>4, <2>1, <2>2
<1>6. PICK f : f = CHOOSE x : Equation(x)
  OBVIOUS
<1>7. Equation(f)
  <2>. HIDE DEF Equation, g
  <2>. QED  BY <1>5, <1>6
<1>8. LevelAfter(old, words) = f[l]
  BY <1>6 DEF LevelAfter, l
<1>9. f[l] = g[l]
  <2>. DEFINE T == {n \in 0..l : f[n] = g[n]}
  <2>1. 0 \in T
    BY <1>1, <1>4, <1>7
  <2>2. ASSUME NEW n \in 0..(l - 1), n \in T PROVE n + 1 \in T
    <3>1. n + 1 \in 1..l /\ n + 1 \in 0..l /\ (n + 1) - 1 = n /\ n + 1 # 0
      BY <1>1
    <3>2. f[n + 1] = IF f[n] = Unset /\ words[n + 1] \in DOMAIN LevelOf
                       THEN LevelOf[words[n + 1]] ELSE f[n]
      BY <1>7, <3>1
    <3>3. g[n + 1] = IF g[n] = Unset /\ words[n + 1] \in DOMAIN LevelOf
                       THEN LevelOf[words[n + 1]] ELSE g[n]
      <4>. HIDE DEF g
      <4>. QED  BY <1>3, <3>1
    <3>. HIDE DEF g
    <3>. QED  BY <2>2, <3>1, <3>2, <3>3
  <2>3. 0..l \subseteq T
    <3>. HIDE DEF T
    <3>. QED  BY <1>1, <2>1, <2>2, IntervalInduction
  <2>. QED  BY <1>1, <2>3
<1>10. g[l] = IF old # Unset \/ N = {} THEN old ELSE LevelOf[words[Min(N)]]
  <2>1. N \cap (1..l) = N /\ l \in 0..l
    BY <1>1
  <2>. QED  BY <2>1
<1>. QED
  BY <1>8, <1>9, <1>10 DEF N

-----------------------------------------------------------------------------

(* Option::get_or_insert, argument by argument: an argument with another    *)
(* key, or without a value, leaves the first value what it was ...         *)
LEMMA FirstKept ==
  ASSUME NEW l, NEW n \in Nat, NEW v, NEW key,
         IsFirst(v, key, l, n), ~ Names(l[n + 1], key)
  PROVE  IsFirst(v, key, l, n + 1)
<1>1. CASE v = None /\ \A i \in 1..n : ~ Names(l[i], key)
  <2>1. \A i \in 1..(n + 1) : i \in 1..n \/ i = n + 1
    OBVIOUS
  <2>. QED  BY <1>1, <2>1 DEF IsFirst
<1>2. ASSUME NEW i \in 1..n, Names(l[i], key), v = l[i].words[1],
             \A j \in 1..(i - 1) : ~ Names(l[j], key)
      PROVE  IsFirst(v, key, l, n + 1)
  <2>1. i \in 1..(n + 1)
    OBVIOUS
  <2>. QED  BY <1>2, <2>1 DEF IsFirst
<1>. QED
  BY <1>1, <1>2 DEF IsFirst

(* ... and one with the key and a value becomes it only if there is none.   *)
LEMMA FirstTaken ==
  ASSUME NEW l, NEW n \in Nat, NEW v, NEW key,
         IsFirst(v, key, l, n), Names(l[n + 1], key),
         \A i \in 1..n : Names(l[i], key) => l[i].words[1] # None
  PROVE  IsFirst(GetOrInsert(v, l[n + 1].words[1]), key, l, n + 1)
<1>1. CASE v = None
  <2>1. \A i \in 1..n : ~ Names(l[i], key)
    BY <1>1 DEF IsFirst
  <2>2. n + 1 \in 1..(n + 1) /\ \A j \in 1..((n + 1) - 1) : j \in 1..n
    OBVIOUS
  <2>. QED  BY <1>1, <2>1, <2>2 DEF IsFirst, GetOrInsert
<1>2. CASE v # None
  <2>1. PICK i \in 1..n : /\ Names(l[i], key) /\ v = l[i].words[1]
                          /\ \A j \in 1..(i - 1) : ~ Names(l[j], key)
    BY <1>2 DEF IsFirst
  <2>2. i \in 1..(n + 1)
    OBVIOUS
  <2>. QED  BY <1>2, <2>1, <2>2 DEF IsFirst, GetOrInsert
<1>. QED
  BY <1>1, <1>2

(* The value of an argument with a single word is one of the words. *)
LEMMA SingleWord ==
  ASSUME NEW l \in Lines, NEW i \in 1..Len(l), NEW key \in Single,
         Names(l[i], key)
  PROVE  l[i].words[1] \in Word /\ l[i].words[1] \notin {None, Autodiscovered}
<1>1. l \in Seq(Argument)
  BY CmdlineAssumption
<1>2. i \in DOMAIN l /\ l[i] \in Argument
  BY <1>1
<1>3. l[i].words \in Seq(Word) /\ Len(l[i].words) = 1
  BY <1>2, CmdlineAssumption DEF Names, Argument
<1>4. l[i].words[1] \in Word
  BY <1>3
<1>. QED
  BY <1>4, CmdlineAssumption

Fields == {"init", "resume", "source", "fstype", "rw", "flags", "options", "params"}

WellFormed(a) ==
  Names(a, "root") \/ Names(a, "resume") => a.words[1] \in Sources

(* FirstWins together with what makes it inductive: the loop reads the line *)
(* once, and ends only at its end.                                         *)
CmdlineInv ==
  /\ line \in Lines
  /\ pos \in 1..(Len(line) + 1)
  /\ DOMAIN args = Fields
  /\ stage = "args" => args.source # Autodiscovered
  /\ Parsed => pos = Len(line) + 1
  /\ \A i \in Read : WellFormed(line[i])
  /\ FirstWins

LEMMA LineIsSeq ==
  ASSUME NEW l \in Lines
  PROVE  Len(l) \in Nat /\ DOMAIN l = 1..Len(l) /\ Len(l) # 0
<1>1. l \in Seq(Argument) /\ l # <<>>
  BY CmdlineAssumption
<1>. QED
  BY <1>1

LEMMA CmdlineInit == Init => CmdlineInv
<1>. SUFFICES ASSUME Init PROVE CmdlineInv
  OBVIOUS
<1>1. line \in Lines /\ pos = 1 /\ stage = "args" /\ Len(line) \in Nat
  BY LineIsSeq DEF Init
<1>2. /\ args.init = None /\ args.resume = None /\ args.source = None
      /\ args.fstype = None /\ DOMAIN args = Fields
  BY DEF Init, Fields
<1>3. FirstWins
  BY <1>1, <1>2 DEF FirstWins, IsFirst, GivenSource, None, Autodiscovered
<1>. QED
  BY <1>1, <1>2, <1>3 DEF CmdlineInv, Parsed, Read, None, Autodiscovered

(* A turn of the loop that changes none of the four fields. *)
LEMMA FieldsKept ==
  ASSUME CmdlineInv, At(Keys \ Single) \/ (At(Keys) /\ ~ Arg.given),
         pos' = pos + 1, UNCHANGED <<line, stage>>,
         DOMAIN args' = Fields,
         args'.init = args.init, args'.resume = args.resume,
         args'.source = args.source, args'.fstype = args.fstype
  PROVE  CmdlineInv'
<1>1. /\ line \in Lines /\ pos \in 1..Len(line) /\ stage = "args"
      /\ Len(line) \in Nat /\ line' = line /\ stage' = stage
  BY LineIsSeq DEF CmdlineInv, At
<1>2. \A key \in Single : ~ Names(line[pos], key)
  BY DEF At, Arg, Names
<1>3. \A v : \A key \in Single :
        IsFirst(v, key, line, pos - 1) => IsFirst(v, key, line, pos)
  <2>. SUFFICES ASSUME NEW v, NEW key \in Single, IsFirst(v, key, line, pos - 1)
                PROVE  IsFirst(v, key, line, pos)
    OBVIOUS
  <2>1. pos - 1 \in Nat /\ (pos - 1) + 1 = pos
    BY <1>1
  <2>. QED  BY <1>2, <2>1, FirstKept
<1>4. {"init", "resume", "rootfstype", "root"} = Single
  BY DEF Single
<1>5. FirstWins'
  <2>1. GivenSource' = GivenSource /\ pos' - 1 = pos
    BY <1>1 DEF GivenSource
  <2>. QED  BY <1>1, <1>3, <1>4, <2>1 DEF CmdlineInv, FirstWins
<1>6. \A i \in Read' : WellFormed(line[i])
  <2>1. \A i \in Read' : i \in Read \/ i = pos
    BY <1>1 DEF Read
  <2>2. WellFormed(line[pos])
    BY <1>2, <1>4 DEF WellFormed
  <2>. QED  BY <2>1, <2>2 DEF CmdlineInv
<1>. QED
  BY <1>1, <1>5, <1>6 DEF CmdlineInv, Parsed, WellFormed, Names

(* Abort, and every step outside of the loop that leaves `args` alone. *)
LEMMA ArgsKept ==
  ASSUME CmdlineInv, UNCHANGED <<line, pos, args>>,
         stage' # "args" \/ stage' = stage,
         Parsed' => pos = Len(line) + 1
  PROVE  CmdlineInv'
<1>1. GivenSource' = GivenSource
  BY DEF GivenSource
<1>2. FirstWins'
  BY <1>1 DEF CmdlineInv, FirstWins
<1>. QED
  BY <1>2 DEF CmdlineInv, Read, WellFormed, Names

(* A turn of the loop at an argument that has one of the four fields, seen  *)
(* for any field and any other.                                            *)
LEMMA TurnAtField ==
  ASSUME CmdlineInv, NEW key \in Single, NEW field \in Fields, NEW valid,
         Keep(key, field, valid)
  PROVE  /\ line \in Lines /\ line' = line /\ stage = "args" /\ stage' = "args"
         /\ pos \in 1..Len(line) /\ Len(line) \in Nat /\ pos' = pos + 1
         /\ Names(line[pos], key) /\ line[pos].words[1] \in valid
         /\ line[pos].words[1] \in Word \ {None, Autodiscovered}
         /\ DOMAIN args' = Fields
         /\ \A f \in Fields \ {field} : args'[f] = args[f]
         /\ args'[field] = GetOrInsert(args[field], line[pos].words[1])
         /\ \A v : IsFirst(v, key, line, pos - 1) =>
              IsFirst(GetOrInsert(v, line[pos].words[1]), key, line, pos)
         /\ \A v : \A other \in Single \ {key} :
              IsFirst(v, other, line, pos - 1) => IsFirst(v, other, line, pos)
<1>1. /\ line \in Lines /\ pos \in 1..Len(line) /\ stage = "args"
      /\ Len(line) \in Nat /\ line' = line /\ stage' = stage /\ pos' = pos + 1
  BY LineIsSeq DEF CmdlineInv, Keep, At, Advance
<1>2. Names(line[pos], key) /\ line[pos].words[1] \in valid
  BY DEF Keep, At, Arg, Names
<1>3. line[pos].words[1] \in Word \ {None, Autodiscovered}
  BY <1>1, <1>2, SingleWord
<1>4. /\ DOMAIN args' = Fields
      /\ \A f \in Fields \ {field} : args'[f] = args[f]
      /\ args'[field] = GetOrInsert(args[field], line[pos].words[1])
  <2>1. args' = [args EXCEPT ![field] = GetOrInsert(@, line[pos].words[1])]
    BY DEF Keep, Arg
  <2>. QED  BY <2>1 DEF CmdlineInv
<1>5. pos - 1 \in Nat /\ (pos - 1) + 1 = pos
  BY <1>1
<1>6. \A i \in 1..(pos - 1) : Names(line[i], key) => line[i].words[1] # None
  <2>1. \A i \in 1..(pos - 1) : i \in 1..Len(line)
    BY <1>1
  <2>. QED  BY <1>1, <2>1, SingleWord
<1>7. ASSUME NEW v, IsFirst(v, key, line, pos - 1)
      PROVE  IsFirst(GetOrInsert(v, line[pos].words[1]), key, line, pos)
  BY <1>2, <1>5, <1>6, <1>7, FirstTaken
<1>8. ASSUME NEW v, NEW other \in Single \ {key}, IsFirst(v, other, line, pos - 1)
      PROVE  IsFirst(v, other, line, pos)
  <2>1. ~ Names(line[pos], other)
    BY <1>2 DEF Names
  <2>. QED  BY <1>5, <1>8, <2>1, FirstKept
<1>. QED
  BY <1>1, <1>2, <1>3, <1>4, <1>7, <1>8

(* The word is a source when the key is root or resume. *)
LEMMA StillWellFormed ==
  ASSUME CmdlineInv, line \in Lines, pos \in 1..Len(line), Len(line) \in Nat,
         WellFormed(line[pos]), pos' = pos + 1
  PROVE  \A i \in Read' : WellFormed(line[i])
<1>1. \A i \in Read' : i \in Read \/ i = pos
  BY DEF Read
<1>. QED
  BY <1>1 DEF CmdlineInv

(* What a turn leaves to be shown when it has kept a value.                *)
LEMMA AfterTurn ==
  ASSUME CmdlineInv, line' = line, stage' = "args", pos \in 1..Len(line),
         Len(line) \in Nat, pos' = pos + 1, DOMAIN args' = Fields,
         args'.source # Autodiscovered,
         IsFirst(args'.init, "init", line, pos),
         IsFirst(args'.resume, "resume", line, pos),
         IsFirst(args'.fstype, "rootfstype", line, pos),
         IsFirst(args'.source, "root", line, pos),
         WellFormed(line[pos])
  PROVE  CmdlineInv'
<1>1. pos' - 1 = pos /\ pos' \in 1..(Len(line) + 1)
  OBVIOUS
<1>2. FirstWins'
  BY <1>1 DEF FirstWins, GivenSource
<1>3. \A i \in Read' : WellFormed(line[i])
  BY StillWellFormed DEF CmdlineInv
<1>4. ~ Parsed'
  BY DEF Parsed
<1>5. \A i \in Read' : WellFormed(line[i])'
  BY <1>3 DEF WellFormed, Names
<1>. QED
  BY <1>1, <1>2, <1>4, <1>5 DEF CmdlineInv

LEMMA KeepStep ==
  ASSUME CmdlineInv, ParseRoot \/ ParseResume \/ ParseInit \/ ParseRootfstype
  PROVE  CmdlineInv'
<1>. USE DEF Single, Fields
<1>0. /\ IsFirst(args.init, "init", line, pos - 1)
      /\ IsFirst(args.resume, "resume", line, pos - 1)
      /\ IsFirst(args.fstype, "rootfstype", line, pos - 1)
      /\ stage = "args" => IsFirst(args.source, "root", line, pos - 1)
  BY DEF CmdlineInv, FirstWins, GivenSource
<1>1. CASE ParseRoot
  <2>. USE DEF ParseRoot
  <2>1. /\ line \in Lines /\ line' = line /\ stage = "args" /\ stage' = "args"
        /\ pos \in 1..Len(line) /\ Len(line) \in Nat /\ pos' = pos + 1
        /\ Names(line[pos], "root") /\ line[pos].words[1] \in Sources
        /\ line[pos].words[1] \in Word \ {None, Autodiscovered}
        /\ DOMAIN args' = Fields
        /\ args'.init = args.init /\ args'.resume = args.resume
        /\ args'.fstype = args.fstype
        /\ args'.source = GetOrInsert(args.source, line[pos].words[1])
    BY <1>1, TurnAtField
  <2>2. IsFirst(args'.source, "root", line, pos)
    BY <1>0, <1>1, <2>1, TurnAtField
  <2>3. /\ IsFirst(args'.init, "init", line, pos)
        /\ IsFirst(args'.resume, "resume", line, pos)
        /\ IsFirst(args'.fstype, "rootfstype", line, pos)
    BY <1>0, <1>1, <2>1, TurnAtField
  <2>4. args'.source # Autodiscovered
    BY <2>1 DEF CmdlineInv, GetOrInsert
  <2>5. WellFormed(line[pos])
    BY <2>1 DEF WellFormed, Names
  <2>. QED  BY <2>1, <2>2, <2>3, <2>4, <2>5, AfterTurn
<1>2. CASE ParseResume
  <2>. USE DEF ParseResume
  <2>1. /\ line \in Lines /\ line' = line /\ stage = "args" /\ stage' = "args"
        /\ pos \in 1..Len(line) /\ Len(line) \in Nat /\ pos' = pos + 1
        /\ Names(line[pos], "resume") /\ line[pos].words[1] \in Sources
        /\ DOMAIN args' = Fields
        /\ args'.init = args.init /\ args'.source = args.source
        /\ args'.fstype = args.fstype
        /\ args'.resume = GetOrInsert(args.resume, line[pos].words[1])
    BY <1>2, TurnAtField
  <2>2. IsFirst(args'.resume, "resume", line, pos)
    <3>1. IsFirst(GetOrInsert(args.resume, line[pos].words[1]), "resume", line, pos)
      BY <1>0, <1>2, TurnAtField
    <3>. QED  BY <2>1, <3>1
  <2>3. /\ IsFirst(args'.init, "init", line, pos)
        /\ IsFirst(args'.source, "root", line, pos)
        /\ IsFirst(args'.fstype, "rootfstype", line, pos)
    BY <1>0, <1>2, <2>1, TurnAtField
  <2>4. args'.source # Autodiscovered
    BY <2>1 DEF CmdlineInv
  <2>5. WellFormed(line[pos])
    BY <2>1 DEF WellFormed, Names
  <2>. QED  BY <2>1, <2>2, <2>3, <2>4, <2>5, AfterTurn
<1>3. CASE ParseInit
  <2>. USE DEF ParseInit
  <2>1. /\ line \in Lines /\ line' = line /\ stage = "args" /\ stage' = "args"
        /\ pos \in 1..Len(line) /\ Len(line) \in Nat /\ pos' = pos + 1
        /\ Names(line[pos], "init")
        /\ DOMAIN args' = Fields
        /\ args'.resume = args.resume /\ args'.source = args.source
        /\ args'.fstype = args.fstype
        /\ args'.init = GetOrInsert(args.init, line[pos].words[1])
    BY <1>3, TurnAtField
  <2>2. IsFirst(args'.init, "init", line, pos)
    <3>1. IsFirst(GetOrInsert(args.init, line[pos].words[1]), "init", line, pos)
      BY <1>0, <1>3, TurnAtField
    <3>. QED  BY <2>1, <3>1
  <2>3. /\ IsFirst(args'.resume, "resume", line, pos)
        /\ IsFirst(args'.source, "root", line, pos)
        /\ IsFirst(args'.fstype, "rootfstype", line, pos)
    BY <1>0, <1>3, <2>1, TurnAtField
  <2>4. args'.source # Autodiscovered
    BY <2>1 DEF CmdlineInv
  <2>5. WellFormed(line[pos])
    BY <2>1 DEF WellFormed, Names
  <2>. QED  BY <2>1, <2>2, <2>3, <2>4, <2>5, AfterTurn
<1>4. CASE ParseRootfstype
  <2>. USE DEF ParseRootfstype
  <2>1. /\ line \in Lines /\ line' = line /\ stage = "args" /\ stage' = "args"
        /\ pos \in 1..Len(line) /\ Len(line) \in Nat /\ pos' = pos + 1
        /\ Names(line[pos], "rootfstype")
        /\ DOMAIN args' = Fields
        /\ args'.resume = args.resume /\ args'.source = args.source
        /\ args'.init = args.init
        /\ args'.fstype = GetOrInsert(args.fstype, line[pos].words[1])
    BY <1>4, TurnAtField
  <2>2. IsFirst(args'.fstype, "rootfstype", line, pos)
    <3>1. IsFirst(GetOrInsert(args.fstype, line[pos].words[1]), "rootfstype", line, pos)
      BY <1>0, <1>4, TurnAtField
    <3>. QED  BY <2>1, <3>1
  <2>3. /\ IsFirst(args'.resume, "resume", line, pos)
        /\ IsFirst(args'.source, "root", line, pos)
        /\ IsFirst(args'.init, "init", line, pos)
    BY <1>0, <1>4, <2>1, TurnAtField
  <2>4. args'.source # Autodiscovered
    BY <2>1 DEF CmdlineInv
  <2>5. WellFormed(line[pos])
    BY <2>1 DEF WellFormed, Names
  <2>. QED  BY <2>1, <2>2, <2>3, <2>4, <2>5, AfterTurn
<1>. QED
  BY <1>1, <1>2, <1>3, <1>4

LEMMA CmdlineStep == CmdlineInv /\ [Next]_vars => CmdlineInv'
<1>. SUFFICES ASSUME CmdlineInv, [Next]_vars PROVE CmdlineInv'
  OBVIOUS
<1>. USE DEF At, Keys, Single
<1>1. CASE ParseLog
  BY <1>1, FieldsKept DEF ParseLog, Advance, CmdlineInv
<1>2. CASE ParseBoosterDebug
  BY <1>2, FieldsKept DEF ParseBoosterDebug, Advance, CmdlineInv
<1>3. CASE ParseQuiet
  BY <1>3, FieldsKept DEF ParseQuiet, Advance, CmdlineInv
<1>4. CASE ParseRoot \/ ParseResume \/ ParseInit \/ ParseRootfstype
  BY <1>4, KeepStep
<1>5. CASE ParseFails
  BY <1>5, ArgsKept DEF ParseFails, Abort, Parsed
<1>6. CASE KeyIsEmpty
  BY <1>6, FieldsKept DEF KeyIsEmpty, Advance, CmdlineInv
<1>7. CASE ParseRootflags
  <2>1. PICK root : args' = [args EXCEPT !.flags = root.flags, !.options = root.options]
    BY <1>7 DEF ParseRootflags
  <2>2. /\ DOMAIN args' = Fields
        /\ args'.init = args.init /\ args'.resume = args.resume
        /\ args'.source = args.source /\ args'.fstype = args.fstype
    BY <2>1 DEF CmdlineInv, Fields
  <2>3. At({"rootflags"}) /\ pos' = pos + 1 /\ UNCHANGED <<line, stage>>
    BY <1>7 DEF ParseRootflags, Advance
  <2>. QED  BY <2>2, <2>3, FieldsKept
<1>8. CASE ParseRootmode
  <2>1. /\ DOMAIN args' = Fields
        /\ args'.init = args.init /\ args'.resume = args.resume
        /\ args'.source = args.source /\ args'.fstype = args.fstype
    BY <1>8 DEF ParseRootmode, CmdlineInv, Fields
  <2>. QED  BY <1>8, <2>1, FieldsKept DEF ParseRootmode, Advance
<1>9. CASE ParseLuks
  BY <1>9, ArgsKept DEF ParseLuks, Abort, Parsed
<1>10. CASE ParseModParam
  <2>1. PICK m, text : args' = [args EXCEPT !.params[m] = text]
    BY <1>10 DEF ParseModParam
  <2>2. /\ DOMAIN args' = Fields
        /\ args'.init = args.init /\ args'.resume = args.resume
        /\ args'.source = args.source /\ args'.fstype = args.fstype
    BY <2>1 DEF CmdlineInv, Fields
  <2>. QED  BY <1>10, <2>2, FieldsKept DEF ParseModParam, Advance
<1>11. CASE InvalidKey
  BY <1>11, FieldsKept DEF InvalidKey, Advance, CmdlineInv
<1>12. CASE FlushWithLevel
  <2>1. pos = Len(line) + 1
    BY <1>12, LineIsSeq DEF FlushWithLevel, CmdlineInv
  <2>. QED  BY <1>12, <2>1, ArgsKept DEF FlushWithLevel
<1>13. CASE HasRoot
  BY <1>13, ArgsKept DEF HasRoot, Go, CmdlineInv, Parsed
<1>14. CASE AutodiscoverRoot
  <2>1. CASE stage' \in {"failed", "panicked"} /\ UNCHANGED <<line, pos, args>>
    BY <2>1, ArgsKept DEF Parsed
  <2>2. CASE /\ stage' = "throttle" /\ UNCHANGED <<line, pos>>
             /\ args' = [args EXCEPT !.source = Autodiscovered]
    <3>1. /\ DOMAIN args' = Fields /\ args'.source = Autodiscovered
          /\ args'.init = args.init /\ args'.resume = args.resume
          /\ args'.fstype = args.fstype
      BY <2>2 DEF CmdlineInv, Fields
    <3>2. args.source = None /\ stage = "flushed"
      BY <1>14 DEF AutodiscoverRoot
    <3>3. FirstWins'
      BY <2>2, <3>1, <3>2 DEF CmdlineInv, FirstWins, GivenSource, None, Autodiscovered
    <3>. QED
      BY <2>2, <3>1, <3>2, <3>3 DEF CmdlineInv, Parsed, Read, WellFormed, Names
  <2>3. \A var : GetCurrent(var) \in {"found", "failed", "panicked"}
    BY DEF GetCurrent
  <2>4. PICK var \in EfiVars :
          \/ /\ GetCurrent(var) = "found" /\ Go("throttle")
             /\ args' = [args EXCEPT !.source = Autodiscovered]
          \/ GetCurrent(var) # "found" /\ Go(GetCurrent(var)) /\ UNCHANGED args
    BY <1>14 DEF AutodiscoverRoot
  <2>. QED  BY <2>1, <2>2, <2>3, <2>4 DEF Go
<1>15. CASE DisableThrottling
  BY <1>15, ArgsKept DEF DisableThrottling, Go, CmdlineInv, Parsed
<1>16. CASE UNCHANGED vars
  BY <1>16, ArgsKept DEF vars, CmdlineInv, Parsed
<1>. QED
  BY <1>1, <1>2, <1>3, <1>4, <1>5, <1>6, <1>7, <1>8, <1>9, <1>10, <1>11,
     <1>12, <1>13, <1>14, <1>15, <1>16 DEF Next, ParseInner

LEMMA CmdlineInvariant == Spec => []CmdlineInv
  BY CmdlineInit, CmdlineStep, PTL DEF Spec

(***************************************************************************)
(* The first init=, root=, resume= and rootfstype= count (get_or_insert).  *)
(***************************************************************************)
THEOREM FirstArgumentWins == Spec => []FirstWins
<1>1. CmdlineInv => FirstWins
  BY DEF CmdlineInv
<1>. QED
  BY <1>1, CmdlineInvariant, PTL

(***************************************************************************)
(* A command line is accepted only if every root= and resume= in it can be *)
(* parsed, those that do not count included (parse_root, parse_resume).    *)
(***************************************************************************)
THEOREM AcceptedIsWellFormed == Spec => []MalformedFails
<1>1. CmdlineInv => MalformedFails
  <2>. SUFFICES ASSUME CmdlineInv, Parsed
                PROVE  \A i \in DOMAIN line : WellFormed(line[i])
    BY DEF MalformedFails, WellFormed
  <2>1. Read = DOMAIN line
    BY LineIsSeq DEF CmdlineInv, Read
  <2>. QED  BY <2>1 DEF CmdlineInv
<1>. QED
  BY <1>1, CmdlineInvariant, PTL

-----------------------------------------------------------------------------
(* The turns of the loop, and the steps that are none.                     *)

Turn ==
  /\ ParseInner
  /\ stage = "args" /\ stage' = "args"
  /\ line \in Lines /\ Len(line) \in Nat
  /\ pos \in 1..Len(line) /\ line[pos] \in Argument
  /\ pos' = pos + 1
  /\ UNCHANGED <<line, threshold, devkmsg, kmsg>>

NoTurn ==
  /\ UNCHANGED <<line, pos, level>>
  /\ DOMAIN args' = DOMAIN args
  /\ \A f \in Fields \ {"source"} : args'[f] = args[f]

LEMMA TurnOrNot ==
  ASSUME CmdlineInv, [Next]_vars
  PROVE  Turn \/ NoTurn
<1>1. ASSUME ParseInner, stage = "args", pos <= Len(line), pos' = pos + 1,
             UNCHANGED <<line, stage, threshold, devkmsg, kmsg>>
      PROVE  Turn
  <2>1. line \in Lines /\ Len(line) \in Nat /\ pos \in 1..Len(line)
    BY <1>1, LineIsSeq DEF CmdlineInv
  <2>2. line \in Seq(Argument)
    BY <2>1, CmdlineAssumption
  <2>3. line[pos] \in Argument
    BY <2>1, <2>2
  <2>. QED  BY <1>1, <2>1, <2>3 DEF Turn
<1>2. CASE ParseInner
  <2>1. stage = "args" /\ pos <= Len(line)
    BY <1>2 DEF ParseInner, ParseLog, ParseBoosterDebug, ParseQuiet, ParseRoot, ParseResume,
                ParseInit, ParseRootfstype, Keep, ParseFails, KeyIsEmpty, ParseRootflags,
                ParseRootmode, ParseLuks, ParseModParam, InvalidKey, At
  <2>2. CASE ParseFails \/ ParseLuks
    BY <2>2 DEF ParseFails, ParseLuks, Abort, NoTurn
  <2>3. CASE ~ (ParseFails \/ ParseLuks)
    <3>1. \E levels : Advance(levels)
      BY <1>2, <2>3
         DEF ParseInner, ParseLog, ParseBoosterDebug, ParseQuiet, ParseRoot, ParseResume,
             ParseInit, ParseRootfstype, Keep, KeyIsEmpty, ParseRootflags, ParseRootmode,
             ParseModParam, InvalidKey
    <3>2. pos' = pos + 1 /\ UNCHANGED <<line, stage, threshold, devkmsg, kmsg>>
      BY <3>1 DEF Advance
    <3>. QED  BY <1>1, <1>2, <2>1, <3>2
  <2>. QED  BY <2>2, <2>3
<1>3. CASE FlushWithLevel
  BY <1>3 DEF FlushWithLevel, NoTurn
<1>4. CASE HasRoot \/ DisableThrottling
  BY <1>4 DEF HasRoot, DisableThrottling, Go, NoTurn
<1>5. CASE AutodiscoverRoot
  <2>1. \/ args' = [args EXCEPT !.source = Autodiscovered]
        \/ args' = args
    BY <1>5 DEF AutodiscoverRoot
  <2>2. UNCHANGED <<line, pos, level>>
    BY <1>5 DEF AutodiscoverRoot, Go
  <2>. QED  BY <2>1, <2>2 DEF NoTurn, CmdlineInv, Fields
<1>6. CASE UNCHANGED vars
  BY <1>6 DEF vars, NoTurn
<1>. QED
  BY <1>2, <1>3, <1>4, <1>5, <1>6 DEF Next

-----------------------------------------------------------------------------
(* The first argument that sets the level counts.                          *)

LEMMA FirstLevelNext ==
  ASSUME NEW n \in Nat
  PROVE  FirstLevel(n + 1) = IF FirstLevel(n) # Unset THEN FirstLevel(n)
                             ELSE LevelBy(line[n + 1])
<1>. DEFINE By(i) == LevelBy(line[i])
            Setting(k) == {i \in 1..k : By(i) # Unset}
<1>1. /\ \A k \in Nat : FirstLevel(k) = IF Setting(k) = {} THEN Unset ELSE By(Min(Setting(k)))
      /\ \A k \in Nat : Setting(k) \in SUBSET Nat
  BY DEF FirstLevel
<1>2. \A i \in 1..(n + 1) : i = n + 1 \/ i \in 1..n
  OBVIOUS
<1>3. n + 1 \in 1..(n + 1) /\ n + 1 \in Nat /\ \A i \in 1..n : i \in 1..(n + 1) /\ i <= n + 1
  OBVIOUS
<1>. HIDE DEF By
<1>4. CASE Setting(n) # {}
  <2>. DEFINE m == Min(Setting(n))
  <2>1. m \in Setting(n) /\ \A i \in Setting(n) : m <= i
    <3>. HIDE DEF Setting
    <3>. QED  BY <1>1, <1>4, MinExists
  <2>. HIDE DEF m
  <2>2. m \in Setting(n + 1) /\ \A i \in Setting(n + 1) : m <= i
    BY <1>2, <1>3, <2>1
  <2>3. Min(Setting(n + 1)) = m
    <3>. HIDE DEF Setting
    <3>. QED  BY <1>1, <1>3, <2>2, MinIs
  <2>4. By(m) # Unset
    BY <2>1
  <2>. HIDE DEF Setting
  <2>. QED  BY <1>1, <1>3, <1>4, <2>2, <2>3, <2>4 DEF m
<1>5. CASE Setting(n) = {} /\ By(n + 1) # Unset
  <2>1. n + 1 \in Setting(n + 1) /\ \A i \in Setting(n + 1) : n + 1 <= i
    BY <1>2, <1>3, <1>5
  <2>2. Min(Setting(n + 1)) = n + 1
    <3>. HIDE DEF Setting
    <3>. QED  BY <1>1, <1>3, <2>1, MinIs
  <2>3. By(n + 1) = LevelBy(line[n + 1])
    BY DEF By
  <2>. HIDE DEF Setting
  <2>. QED  BY <1>1, <1>3, <1>5, <2>1, <2>2, <2>3
<1>6. CASE Setting(n) = {} /\ By(n + 1) = Unset
  <2>1. Setting(n + 1) = {}
    BY <1>2, <1>6
  <2>2. By(n + 1) = LevelBy(line[n + 1])
    BY DEF By
  <2>. HIDE DEF Setting
  <2>. QED  BY <1>1, <1>3, <1>6, <2>1, <2>2
<1>. QED
  BY <1>4, <1>5, <1>6

LEMMA FirstLevelNone == FirstLevel(0) = Unset
  BY DEF FirstLevel

(* A turn sets the level if it is not set and the argument names one. *)
LEMMA LevelTurn ==
  ASSUME Turn, level \in Levels \cup {Unset}
  PROVE  /\ level' = IF level # Unset THEN level ELSE LevelBy(line[pos])
         /\ LevelBy(line[pos]) \in Levels \cup {Unset}
<1>. DEFINE a == line[pos]
<1>1. a.key \in Keys /\ a.given \in BOOLEAN /\ a.words \in Seq(Word) /\ Arg = a
  BY DEF Turn, Argument, Arg
<1>. DEFINE N == Naming(a.words)
<1>2. N # {} => LevelOf[a.words[Min(N)]] \in Levels
  <2>1. N \in SUBSET Nat
    BY <1>1 DEF Naming
  <2>2. N # {} => Min(N) \in N
    <3>. HIDE DEF N
    <3>. QED  BY <2>1, MinExists
  <2>3. \A k \in N : a.words[k] \in DOMAIN LevelOf
    BY DEF Naming
  <2>. QED  BY <2>2, <2>3, LevelsAreLevels
<1>3. CASE a.key \in {"ignited.log", "booster.log"}
  <2>1. LevelBy(a) = IF a.given /\ N # {} THEN LevelOf[a.words[Min(N)]] ELSE Unset
    BY <1>3 DEF LevelBy, Naming
  <2>2. ParseLog
    BY <1>1, <1>3, <2>1
       DEF Turn, ParseInner, ParseLog, ParseBoosterDebug, ParseQuiet, ParseRoot, ParseResume,
           ParseInit, ParseRootfstype, Keep, ParseFails, KeyIsEmpty, ParseRootflags,
           ParseRootmode, ParseLuks, ParseModParam, InvalidKey, At, Single
  <2>3. level' = IF a.given THEN LevelAfter(level, a.words) ELSE level
    BY <1>1, <2>2 DEF ParseLog
  <2>4. LevelAfter(level, a.words) =
          IF level # Unset \/ N = {} THEN level ELSE LevelOf[a.words[Min(N)]]
    BY <1>1, LevelAfterFirst
  <2>. HIDE DEF N
  <2>. QED  BY <1>1, <1>2, <2>1, <2>3, <2>4
<1>4. CASE a.key = "quiet"
  <2>1. LevelBy(a) = Err
    BY <1>4 DEF LevelBy
  <2>2. ParseQuiet
    BY <1>1, <1>4
       DEF Turn, ParseInner, ParseLog, ParseBoosterDebug, ParseQuiet, ParseRoot, ParseResume,
           ParseInit, ParseRootfstype, Keep, ParseFails, KeyIsEmpty, ParseRootflags,
           ParseRootmode, ParseLuks, ParseModParam, InvalidKey, At, Single
  <2>. QED  BY <2>1, <2>2, LevelsAreLevels DEF ParseQuiet
<1>5. CASE a.key = "booster.debug"
  <2>1. LevelBy(a) = Debug
    BY <1>5 DEF LevelBy
  <2>2. ParseBoosterDebug
    BY <1>1, <1>5
       DEF Turn, ParseInner, ParseLog, ParseBoosterDebug, ParseQuiet, ParseRoot, ParseResume,
           ParseInit, ParseRootfstype, Keep, ParseFails, KeyIsEmpty, ParseRootflags,
           ParseRootmode, ParseLuks, ParseModParam, InvalidKey, At, Single
  <2>. QED  BY <2>1, <2>2, LevelsAreLevels DEF ParseBoosterDebug
<1>6. CASE a.key \notin {"ignited.log", "booster.log", "quiet", "booster.debug"}
  <2>1. LevelBy(a) = Unset
    BY <1>6 DEF LevelBy
  <2>2. level' = level
    BY <1>1, <1>6
       DEF Turn, ParseInner, ParseLog, ParseBoosterDebug, ParseQuiet, ParseRoot, ParseResume,
           ParseInit, ParseRootfstype, Keep, ParseFails, KeyIsEmpty, ParseRootflags,
           ParseRootmode, ParseLuks, Abort, ParseModParam, InvalidKey, At
  <2>. QED  BY <2>1, <2>2
<1>. QED
  BY <1>3, <1>4, <1>5, <1>6

LevelInv == level \in Levels \cup {Unset} /\ FirstLevelWins

LEMMA LevelInvariant == Spec => []LevelInv
<1>1. Init => LevelInv
  BY FirstLevelNone DEF Init, LevelInv, FirstLevelWins
<1>2. ASSUME CmdlineInv, LevelInv, [Next]_vars
      PROVE  LevelInv'
  <2>1. CASE NoTurn
    BY <1>2, <2>1 DEF NoTurn, LevelInv, FirstLevelWins, FirstLevel
  <2>2. CASE Turn
    <3>1. /\ level' = IF level # Unset THEN level ELSE LevelBy(line[pos])
          /\ LevelBy(line[pos]) \in Levels \cup {Unset}
      BY <1>2, <2>2, LevelTurn DEF LevelInv
    <3>2. pos - 1 \in Nat /\ (pos - 1) + 1 = pos /\ pos' - 1 = pos /\ line' = line
      BY <2>2 DEF Turn
    <3>3. FirstLevel(pos) = level'
      BY <1>2, <3>1, <3>2, FirstLevelNext DEF LevelInv, FirstLevelWins
    <3>. QED  BY <1>2, <3>1, <3>2, <3>3 DEF LevelInv, FirstLevelWins, FirstLevel
  <2>. QED  BY <1>2, <2>1, <2>2, TurnOrNot
<1>. QED
  BY <1>1, <1>2, CmdlineInvariant, PTL DEF Spec

(***************************************************************************)
(* Of all that set the verbosity, the first counts (get_or_insert in       *)
(* parse_ignited_log, parse_booster_debug and parse_quiet).                *)
(***************************************************************************)
THEOREM FirstLevelCounts == Spec => []FirstLevelWins
<1>1. LevelInv => FirstLevelWins
  BY DEF LevelInv
<1>. QED
  BY <1>1, LevelInvariant, PTL

-----------------------------------------------------------------------------
(* The last option counts.                                                 *)

Root == [flags : SUBSET MountFlags, options : Seq(Word)]

(* The words of rootflags=, argument by argument. *)
LEMMA OptionsNext ==
  ASSUME line \in Lines
  PROVE  /\ Options(0) = <<>>
         /\ \A n \in 0..Len(line) : Options(n) \in Seq(Word)
         /\ \A n \in 1..Len(line) :
              Options(n) = Options(n - 1) \o (IF Names(line[n], "rootflags") THEN line[n].words
                                              ELSE <<>>)
<1>. DEFINE l == Len(line)
            Y == Seq(Word)
            none == <<>>
            More(n) == IF Names(line[n], "rootflags") THEN line[n].words ELSE <<>>
            step == [z \in (1..l) \X Y |-> z[2] \o More(z[1])]
            Equation(c) == c = [n \in 0..l |-> IF n = 0 THEN none ELSE c[n - 1] \o More(n)]
<1>1. l \in Nat /\ none \in Y
  BY LineIsSeq
<1>2. \A n \in 1..l : More(n) \in Y
  <2>1. line \in Seq(Argument)
    BY CmdlineAssumption
  <2>2. ASSUME NEW n \in 1..l PROVE line[n].words \in Seq(Word)
    <3>1. line[n] \in Argument
      BY <2>1
    <3>. QED  BY <3>1 DEF Argument
  <2>. QED  BY <2>2
<1>. HIDE DEF More
<1>3. ASSUME NEW k \in 1..l, NEW x \in Y
      PROVE  step[<<k, x>>] = x \o More(k) /\ step[<<k, x>>] \in Y
  <2>1. <<k, x>> \in (1..l) \X Y
    OBVIOUS
  <2>2. step[<<k, x>>] = x \o More(k)
    BY <2>1
  <2>3. x \o More(k) \in Y
    BY <1>2
  <2>. QED  BY <2>2, <2>3
<1>. HIDE DEF step, Y, none, l
<1>4. PICK c : Follows(c, l, Y, none, step)
  BY <1>1, <1>3, RecursionExists
<1>5. Equation(c)
  <2>1. c \in [0..l -> Y] /\ c[0] = none
    BY <1>4 DEF Follows
  <2>2. ASSUME NEW n \in 0..l, n # 0
        PROVE  c[n] = c[n - 1] \o More(n)
    <3>1. n \in 1..l /\ n - 1 \in 0..l
      BY <1>1, <2>2
    <3>. QED  BY <1>3, <1>4, <2>1, <3>1 DEF Follows
  <2>. QED  BY <2>1, <2>2
<1>6. PICK d : d = CHOOSE x : Equation(x)
  OBVIOUS
<1>7. Equation(d)
  <2>. HIDE DEF Equation
  <2>. QED  BY <1>5, <1>6
<1>8. d = [n \in 0..l |-> d[n]] /\ d[0] = none
  BY <1>1, <1>7
<1>9. ASSUME NEW n \in 1..l
      PROVE  d[n] = d[n - 1] \o More(n)
  <2>1. n \in 0..l /\ n # 0
    BY <1>1
  <2>. QED  BY <1>7, <2>1
<1>10. \A n \in 1..l : d[n - 1] \in Y => d[n] = step[<<n, d[n - 1]>>]
  BY <1>3, <1>9
<1>11. Follows(d, l, Y, none, step)
  BY <1>1, <1>3, <1>8, <1>10, RecursionFollows
<1>12. d \in [0..l -> Y]
  BY <1>11 DEF Follows
<1>13. \A n : Options(n) = d[n]
  BY <1>6 DEF Options, l, none, More
<1>. QED
  BY <1>8, <1>9, <1>12, <1>13 DEF l, Y, none, More

LEMMA FlagWords ==
  /\ DOMAIN Inserts \cap DOMAIN Removes = {}
  /\ Ignored \cap (DOMAIN Inserts \cup DOMAIN Removes) = {}
  /\ \A w \in DOMAIN Inserts : Inserts[w] \in MountFlags
<1>1. DOMAIN Inserts = {"dirsync", "lazytime", "noatime", "nodev", "nodiratime", "noexec",
                        "nosuid", "relatime", "silent", "strictatime", "sync"}
  BY DEF Inserts
<1>2. DOMAIN Removes = {"nolazytime", "atime", "dev", "diratime", "exec", "suid",
                        "norelatime", "nostrictatime", "async"}
  BY DEF Removes
<1>3. DOMAIN Inserts \cap DOMAIN Removes = {}
  BY <1>1, <1>2
<1>4. Ignored \cap (DOMAIN Inserts \cup DOMAIN Removes) = {}
  BY <1>1, <1>2 DEF Ignored
<1>5. \A w \in DOMAIN Inserts : Inserts[w] \in MountFlags
  BY DEF MountFlags
<1>. QED
  BY <1>3, <1>4, <1>5

(* _add_opts with one more word. *)
LEMMA AddOptCases ==
  ASSUME NEW root \in Root, NEW w \in Word
  PROVE  /\ AddOpt(root, w) \in Root
         /\ AddOpt(root, w).flags =
              IF w \in DOMAIN Inserts THEN root.flags \cup {Inserts[w]}
              ELSE IF w \in DOMAIN Removes THEN root.flags \ {Removes[w]} ELSE root.flags
         /\ AddOpt(root, w).options =
              IF w \in Known THEN root.options ELSE Append(root.options, w)
<1>1. CASE w \in DOMAIN Inserts
  <2>1. AddOpt(root, w) = [root EXCEPT !.flags = root.flags \cup {Inserts[w]}]
    BY <1>1, FlagWords DEF AddOpt
  <2>2. Inserts[w] \in MountFlags
    BY <1>1, FlagWords
  <2>. QED  BY <1>1, <2>1, <2>2 DEF Root, Known
<1>2. CASE w \in DOMAIN Removes
  <2>1. AddOpt(root, w) = [root EXCEPT !.flags = root.flags \ {Removes[w]}]
    BY <1>2, FlagWords DEF AddOpt
  <2>2. w \notin DOMAIN Inserts
    BY <1>2, FlagWords
  <2>. QED  BY <1>2, <2>1, <2>2 DEF Root, Known
<1>3. CASE w \in Ignored
  <2>1. AddOpt(root, w) = root
    BY <1>3, FlagWords DEF AddOpt
  <2>2. w \notin DOMAIN Inserts \cup DOMAIN Removes
    BY <1>3, FlagWords
  <2>. QED  BY <1>3, <2>1, <2>2 DEF Root, Known
<1>4. CASE w \notin Known
  <2>1. AddOpt(root, w) = [root EXCEPT !.options = Append(root.options, w)]
    BY <1>4 DEF AddOpt, Known
  <2>2. Append(root.options, w) \in Seq(Word)
    BY DEF Root
  <2>. QED  BY <1>4, <2>1, <2>2 DEF Root, Known
<1>. QED
  BY <1>1, <1>2, <1>3, <1>4 DEF Known

LEMMA ReflectsNext ==
  ASSUME NEW root \in Root, NEW words \in Seq(Word), NEW w \in Word, Reflects(root, words)
  PROVE  Reflects(AddOpt(root, w), Append(words, w))
<1>. DEFINE l == Len(words)
            more == Append(words, w)
            next == AddOpt(root, w)
            About(ws, f) == {k \in DOMAIN ws : Sets(ws[k], f) \/ Clears(ws[k], f)}
            IsSet(ws, f) == \E k \in About(ws, f) :
                              Sets(ws[k], f) /\ \A j \in About(ws, f) : j <= k
<1>1. /\ l \in Nat /\ more \in Seq(Word) /\ DOMAIN words = 1..l /\ DOMAIN more = 1..(l + 1)
      /\ more[l + 1] = w /\ \A k \in 1..l : more[k] = words[k]
  OBVIOUS
<1>2. \A k \in 1..(l + 1) : k = l + 1 \/ k \in 1..l
  BY <1>1
<1>3. /\ l + 1 \in 1..(l + 1)
      /\ \A k \in 1..l : k \in 1..(l + 1) /\ k <= l + 1 /\ ~ (l + 1 <= k)
  BY <1>1
<1>4. ASSUME NEW f \in MountFlags
      PROVE  f \in next.flags <=> IsSet(more, f)
  <2>1. f \in root.flags <=> IsSet(words, f)
    BY DEF Reflects
  <2>2. ~ (Sets(w, f) /\ Clears(w, f))
    BY FlagWords DEF Sets, Clears
  <2>. HIDE DEF l, more
  <2>3. CASE Sets(w, f)
    <3>1. f \in next.flags
      BY <2>3, AddOptCases DEF Sets
    <3>2. l + 1 \in About(more, f) /\ Sets(more[l + 1], f) /\ \A j \in About(more, f) : j <= l + 1
      BY <1>1, <1>2, <1>3, <2>3
    <3>. QED  BY <3>1, <3>2
  <2>4. CASE Clears(w, f)
    <3>1. f \notin next.flags
      BY <2>4, FlagWords, AddOptCases DEF Clears
    <3>2. l + 1 \in About(more, f) /\ ~ Sets(more[l + 1], f)
      BY <1>1, <1>3, <2>2, <2>4
    <3>3. \A k \in About(more, f) : l + 1 <= k => k = l + 1
      BY <1>1, <1>2, <1>3
    <3>. QED  BY <3>1, <3>2, <3>3
  <2>5. CASE ~ Sets(w, f) /\ ~ Clears(w, f)
    <3>1. f \in next.flags <=> f \in root.flags
      <4>1. w \in DOMAIN Inserts => Inserts[w] # f
        BY <2>5 DEF Sets
      <4>2. w \in DOMAIN Removes => Removes[w] # f
        BY <2>5 DEF Clears
      <4>3. next.flags = IF w \in DOMAIN Inserts THEN root.flags \cup {Inserts[w]}
                         ELSE IF w \in DOMAIN Removes THEN root.flags \ {Removes[w]}
                         ELSE root.flags
        BY AddOptCases
      <4>. HIDE DEF next
      <4>. QED  BY <4>1, <4>2, <4>3
    <3>2. About(more, f) = About(words, f)
      BY <1>1, <1>2, <1>3, <2>5
    <3>3. \A k \in About(words, f) : more[k] = words[k]
      BY <1>1
    <3>. QED  BY <2>1, <3>1, <3>2, <3>3
  <2>. QED  BY <2>3, <2>4, <2>5
<1>5. next.options = Chosen(more, {k \in DOMAIN more : more[k] \notin Known})
  <2>. DEFINE I == {k \in DOMAIN words : words[k] \notin Known}
              J == {k \in DOMAIN more : more[k] \notin Known}
  <2>1. \A k \in 1..l : k \in I <=> k \in J
    BY <1>1, <1>3
  <2>2. l + 1 \in J <=> w \notin Known
    BY <1>1, <1>3
  <2>3. root.options = Chosen(words, I)
    BY DEF Reflects
  <2>4. Chosen(more, J) = IF l + 1 \in J THEN Append(Chosen(words, I), w) ELSE Chosen(words, I)
    <3>. HIDE DEF I, J
    <3>. QED  BY <2>1, ChosenAppend
  <2>. HIDE DEF J, I
  <2>5. next.options = Chosen(more, J)
    BY <2>2, <2>3, <2>4, AddOptCases
  <2>. QED  BY <2>5 DEF J
<1>. QED
  BY <1>4, <1>5 DEF Reflects

LEMMA AddOptsReflects ==
  ASSUME NEW root \in Root, NEW words \in Seq(Word), NEW new \in Seq(Word),
         Reflects(root, words)
  PROVE  AddOpts(root, new) \in Root /\ Reflects(AddOpts(root, new), words \o new)
<1>. DEFINE l == Len(new)
            step == [z \in (1..l) \X Root |-> AddOpt(z[2], new[z[1]])]
            Equation(c) == c = [n \in 0..l |-> IF n = 0 THEN root ELSE AddOpt(c[n - 1], new[n])]
<1>1. l \in Nat /\ \A k \in 1..l : new[k] \in Word
  OBVIOUS
<1>2. ASSUME NEW k \in 1..l, NEW x \in Root
      PROVE  step[<<k, x>>] = AddOpt(x, new[k]) /\ step[<<k, x>>] \in Root
  <2>1. <<k, x>> \in (1..l) \X Root
    OBVIOUS
  <2>2. step[<<k, x>>] = AddOpt(x, new[k])
    BY <2>1
  <2>3. AddOpt(x, new[k]) \in Root
    BY <1>1, AddOptCases
  <2>. QED  BY <2>2, <2>3
<1>. HIDE DEF step, l
<1>3. PICK c : Follows(c, l, Root, root, step)
  BY <1>1, <1>2, RecursionExists
<1>4. Equation(c)
  <2>1. c \in [0..l -> Root] /\ c[0] = root
    BY <1>3 DEF Follows
  <2>2. ASSUME NEW n \in 0..l, n # 0
        PROVE  c[n] = AddOpt(c[n - 1], new[n])
    <3>1. n \in 1..l /\ n - 1 \in 0..l
      BY <1>1, <2>2
    <3>. QED  BY <1>2, <1>3, <2>1, <3>1 DEF Follows
  <2>. QED  BY <2>1, <2>2
<1>5. PICK d : d = CHOOSE x : Equation(x)
  OBVIOUS
<1>6. Equation(d)
  <2>. HIDE DEF Equation
  <2>. QED  BY <1>4, <1>5
<1>7. d = [n \in 0..l |-> d[n]] /\ d[0] = root
  BY <1>1, <1>6
<1>8. ASSUME NEW n \in 1..l
      PROVE  d[n] = AddOpt(d[n - 1], new[n])
  <2>1. n \in 0..l /\ n # 0
    BY <1>1
  <2>. QED  BY <1>6, <2>1
<1>9. \A n \in 1..l : d[n - 1] \in Root => d[n] = step[<<n, d[n - 1]>>]
  BY <1>2, <1>8
<1>10. Follows(d, l, Root, root, step)
  BY <1>1, <1>2, <1>7, <1>9, RecursionFollows
<1>11. d \in [0..l -> Root]
  BY <1>10 DEF Follows
<1>. DEFINE So(n) == words \o SubSeq(new, 1, n)
            T == {n \in 0..l : Reflects(d[n], So(n))}
<1>12. 0 \in T
  <2>1. So(0) = words
    OBVIOUS
  <2>. HIDE DEF So
  <2>. QED  BY <1>1, <1>7, <2>1
<1>13. ASSUME NEW n \in 0..(l - 1), n \in T
       PROVE  n + 1 \in T
  <2>1. n + 1 \in 1..l /\ n + 1 \in 0..l /\ n \in 0..l /\ (n + 1) - 1 = n
    BY <1>1
  <2>2. So(n) \in Seq(Word) /\ So(n + 1) = Append(So(n), new[n + 1])
    <3>1. SubSeq(new, 1, n) \in Seq(Word)
      BY <1>1, <2>1 DEF l
    <3>2. SubSeq(new, 1, n + 1) = Append(SubSeq(new, 1, n), new[n + 1])
      BY <1>1, <2>1 DEF l
    <3>3. \A s \in Seq(Word), e \in Word : words \o Append(s, e) = Append(words \o s, e)
      OBVIOUS
    <3>. QED  BY <1>1, <2>1, <3>1, <3>2, <3>3
  <2>3. d[n] \in Root /\ new[n + 1] \in Word
    BY <1>1, <1>11, <2>1
  <2>4. d[n + 1] = AddOpt(d[n], new[n + 1])
    BY <1>8, <2>1
  <2>5. Reflects(d[n], So(n))
    BY <1>13
  <2>. HIDE DEF So
  <2>6. Reflects(d[n + 1], So(n + 1))
    BY <2>2, <2>3, <2>4, <2>5, ReflectsNext
  <2>. QED  BY <2>1, <2>6
<1>14. 0..l \subseteq T
  <2>. HIDE DEF T
  <2>. QED  BY <1>1, <1>12, <1>13, IntervalInduction
<1>15. Reflects(d[l], So(l)) /\ d[l] \in Root
  <2>1. l \in 0..l
    BY <1>1
  <2>2. l \in T
    BY <1>14, <2>1
  <2>. HIDE DEF So
  <2>. QED  BY <1>11, <2>1, <2>2
<1>16. So(l) = words \o new
  BY DEF l
<1>17. AddOpts(root, new) = d[l]
  BY <1>5 DEF AddOpts, l
<1>. HIDE DEF So
<1>. QED
  BY <1>15, <1>16, <1>17

(* What a turn does to the fields of which more than one argument counts. *)
LEMMA TurnFields ==
  ASSUME Turn, DOMAIN args = Fields
  PROVE  /\ IF Names(line[pos], "rootflags")
              THEN /\ args'.flags = AddOpts(RootOpts, line[pos].words).flags
                   /\ args'.options = AddOpts(RootOpts, line[pos].words).options
              ELSE args'.flags = args.flags /\ args'.options = args.options
         /\ args'.rw = IF line[pos].key \in {"ro", "rw"} THEN line[pos].key = "rw" ELSE args.rw
         /\ args'.params =
              IF Names(line[pos], "param")
                THEN [args.params EXCEPT ![Normal[line[pos].words[1]]] =
                                            Append(@, line[pos].words[2])]
                ELSE args.params
<1>. DEFINE a == line[pos]
<1>. USE DEF Turn
<1>1. Arg = a
  BY DEF Arg
<1>2. CASE ParseRootflags
  <2>1. Names(a, "rootflags") /\ a.key = "rootflags"
    BY <1>1, <1>2 DEF ParseRootflags, At, Names
  <2>2. PICK root : root = AddOpts(RootOpts, a.words)
    OBVIOUS
  <2>3. args' = [args EXCEPT !.flags = root.flags, !.options = root.options]
    BY <1>1, <1>2, <2>2 DEF ParseRootflags
  <2>4. /\ args'.flags = root.flags /\ args'.options = root.options
        /\ args'.rw = args.rw /\ args'.params = args.params
    BY <2>3 DEF Fields
  <2>. QED  BY <2>1, <2>2, <2>4 DEF Names
<1>3. CASE ParseRootmode
  <2>1. a.key \in {"ro", "rw"}
    BY <1>1, <1>3 DEF ParseRootmode, At
  <2>2. args' = [args EXCEPT !.rw = (a.key = "rw")]
    BY <1>1, <1>3 DEF ParseRootmode
  <2>3. /\ args'.rw = (a.key = "rw") /\ args'.flags = args.flags
        /\ args'.options = args.options /\ args'.params = args.params
    BY <2>2 DEF Fields
  <2>4. ~ Names(a, "rootflags") /\ ~ Names(a, "param")
    BY <2>1 DEF Names
  <2>. QED  BY <2>1, <2>3, <2>4
<1>4. CASE ParseModParam
  <2>1. a.key = "param" /\ a.given
    BY <1>1, <1>4 DEF ParseModParam, At
  <2>2. PICK params : params = [args.params EXCEPT ![Normal[a.words[1]]] = Append(@, a.words[2])]
    OBVIOUS
  <2>3. args' = [args EXCEPT !.params = params]
    BY <1>1, <1>4, <2>2 DEF ParseModParam, Fields
  <2>4. /\ args'.params = params /\ args'.flags = args.flags
        /\ args'.options = args.options /\ args'.rw = args.rw
    BY <2>3 DEF Fields
  <2>5. Names(a, "param") /\ ~ Names(a, "rootflags") /\ a.key \notin {"ro", "rw"}
    BY <2>1 DEF Names
  <2>. QED  BY <2>2, <2>4, <2>5
<1>5. CASE ~ (ParseRootflags \/ ParseRootmode \/ ParseModParam)
  <2>1. a.key \notin {"ro", "rw"} /\ ~ Names(a, "rootflags") /\ ~ Names(a, "param")
    BY <1>1, <1>5
       DEF ParseInner, ParseLog, ParseBoosterDebug, ParseQuiet, ParseRoot, ParseResume,
           ParseInit, ParseRootfstype, Keep, ParseFails, KeyIsEmpty, ParseLuks, InvalidKey,
           At, Names, Single
  <2>2. \/ args' = args
        \/ \E f \in {"source", "resume", "init", "fstype"} : \E v : args' = [args EXCEPT ![f] = v]
    BY <1>5
       DEF ParseInner, ParseLog, ParseBoosterDebug, ParseQuiet, ParseRoot, ParseResume,
           ParseInit, ParseRootfstype, Keep, ParseFails, KeyIsEmpty, ParseLuks, InvalidKey,
           Abort
  <2>3. /\ args'.flags = args.flags /\ args'.options = args.options
        /\ args'.rw = args.rw /\ args'.params = args.params
    BY <2>2 DEF Fields
  <2>. QED  BY <2>1, <2>3
<1>. QED
  BY <1>2, <1>3, <1>4, <1>5

OptionInv ==
  /\ args.flags \in SUBSET MountFlags /\ args.options \in Seq(Word)
  /\ args.rw \in BOOLEAN
  /\ LastOptionWins

(* Of ro and rw, the last one counts. *)
RwCounts(rw, l, n) ==
  rw <=> \E i \in 1..n : l[i].key = "rw" /\ \A j \in (i + 1)..n : l[j].key # "ro"

LEMMA RwNext ==
  ASSUME NEW l, NEW p \in Nat \ {0}, NEW rw \in BOOLEAN, RwCounts(rw, l, p - 1)
  PROVE  RwCounts(IF l[p].key \in {"ro", "rw"} THEN l[p].key = "rw" ELSE rw, l, p)
<1>1. /\ p \in 1..p /\ (p + 1)..p = {} /\ p - 1 \in Nat
      /\ \A i \in 1..p : i = p \/ i \in 1..(p - 1)
      /\ \A i \in 1..(p - 1) : i \in 1..p /\ p \in (i + 1)..p
      /\ \A i \in 1..(p - 1) : \A j \in (i + 1)..p : j = p \/ j \in (i + 1)..(p - 1)
      /\ \A i \in 1..(p - 1) : \A j \in (i + 1)..(p - 1) : j \in (i + 1)..p
  OBVIOUS
<1>2. CASE l[p].key = "rw"
  BY <1>1, <1>2 DEF RwCounts
<1>3. CASE l[p].key = "ro"
  BY <1>1, <1>3 DEF RwCounts
<1>4. CASE l[p].key \notin {"ro", "rw"}
  <2>1. \A i \in 1..(p - 1) : (\A j \in (i + 1)..p : l[j].key # "ro") <=>
                              (\A j \in (i + 1)..(p - 1) : l[j].key # "ro")
    BY <1>1, <1>4
  <2>2. RwCounts(rw, l, p)
    BY <1>1, <1>4, <2>1 DEF RwCounts
  <2>. QED  BY <1>4, <2>2
<1>. QED
  BY <1>2, <1>3, <1>4

LEMMA NothingReflected ==
  ASSUME NEW root \in Root, root.flags = {}, root.options = <<>>
  PROVE  Reflects(root, <<>>)
<1>1. <<>> \in Seq(Word) /\ Len(<<>>) = 0 /\ DOMAIN <<>> = {}
  OBVIOUS
<1>2. Chosen(<<>>, {k \in DOMAIN <<>> : <<>>[k] \notin Known}) = <<>>
  <2>. DEFINE I == {k \in DOMAIN <<>> : <<>>[k] \notin Known}
              none == <<>>
  <2>. HIDE DEF I, none
  <2>1. none \in Seq(Word) /\ Len(none) = 0
    BY <1>1 DEF none
  <2>2. PICK c \in [0..Len(none) -> Seq(Word)] :
          Choosing(c, none, I, Len(none)) /\ Chosen(none, I) = c[Len(none)]
    BY <2>1, ChosenDef
  <2>. QED  BY <2>1, <2>2 DEF Choosing, none, I
<1>. QED
  BY <1>1, <1>2 DEF Reflects

LEMMA OptionInvariant == Spec => []OptionInv
<1>1. Init => OptionInv
  <2>. SUFFICES ASSUME Init PROVE OptionInv
    OBVIOUS
  <2>1. /\ args.flags = {} /\ args.options = <<>> /\ args.rw = FALSE
        /\ pos - 1 = 0 /\ line \in Lines /\ Read = {}
    BY DEF Init, Read
  <2>2. RootOpts \in Root /\ RootOpts.flags = {} /\ RootOpts.options = <<>>
    BY <2>1 DEF RootOpts, Root
  <2>3. Reflects(RootOpts, Options(pos - 1))
    BY <2>1, <2>2, OptionsNext, NothingReflected
  <2>4. args.rw <=> \E i \in Read : /\ line[i].key = "rw"
                                    /\ \A j \in (i + 1)..(pos - 1) : line[j].key # "ro"
    BY <2>1
  <2>5. args.flags \in SUBSET MountFlags /\ args.options \in Seq(Word)
    BY <2>1
  <2>6. args.rw \in BOOLEAN
    BY <2>1, Zenon
  <2>. QED  BY <2>3, <2>4, <2>5, <2>6 DEF OptionInv, LastOptionWins
<1>2. ASSUME CmdlineInv, OptionInv, [Next]_vars
      PROVE  OptionInv'
  <2>1. Reflects(RootOpts, Options(pos - 1)) /\ RwCounts(args.rw, line, pos - 1)
        /\ DOMAIN args = Fields /\ args.rw \in BOOLEAN
    BY <1>2 DEF OptionInv, LastOptionWins, RwCounts, Read, CmdlineInv
  <2>2. ASSUME Reflects(RootOpts', Options(pos' - 1)), RwCounts(args'.rw, line, pos' - 1),
               line' = line, args'.rw \in BOOLEAN,
               args'.flags \in SUBSET MountFlags, args'.options \in Seq(Word)
        PROVE  OptionInv'
    <3>1. (Options(pos - 1))' = Options(pos' - 1)
      BY <2>2 DEF Options
    <3>. QED  BY <2>2, <3>1 DEF OptionInv, LastOptionWins, RwCounts, Read, Reflects
  <2>3. CASE NoTurn
    <3>1. UNCHANGED <<line, pos>>
      BY <2>3 DEF NoTurn
    <3>2. args'.flags = args.flags /\ args'.options = args.options /\ args'.rw = args.rw
      BY <2>3 DEF NoTurn, Fields
    <3>3. RootOpts' = RootOpts
      BY <3>2 DEF RootOpts
    <3>. QED  BY <1>2, <2>1, <2>2, <3>1, <3>2, <3>3 DEF OptionInv
  <2>4. CASE Turn
    <3>1. /\ line \in Lines /\ line' = line /\ pos \in 1..Len(line) /\ Len(line) \in Nat
          /\ pos \in Nat \ {0} /\ pos - 1 \in 0..Len(line) /\ pos' - 1 = pos
      BY <2>4 DEF Turn
    <3>2. args'.rw \in BOOLEAN /\ RwCounts(args'.rw, line, pos)
      <4>. DEFINE rw == IF line[pos].key \in {"ro", "rw"} THEN line[pos].key = "rw" ELSE args.rw
      <4>1. args'.rw = rw
        BY <2>1, <2>4, TurnFields
      <4>2. RwCounts(rw, line, pos)
        BY <2>1, <3>1, RwNext
      <4>3. rw \in BOOLEAN
        BY <2>1
      <4>. HIDE DEF rw
      <4>. QED  BY <4>1, <4>2, <4>3
    <3>3. RootOpts \in Root
      BY <1>2 DEF OptionInv, RootOpts, Root
    <3>4. CASE Names(line[pos], "rootflags")
      <4>. DEFINE root == AddOpts(RootOpts, line[pos].words)
      <4>1. args'.flags = root.flags /\ args'.options = root.options
        BY <2>1, <2>4, <3>4, TurnFields
      <4>2. line[pos].words \in Seq(Word)
        BY <2>4 DEF Turn, Argument
      <4>3. Options(pos - 1) \in Seq(Word)
            /\ Options(pos) = Options(pos - 1) \o line[pos].words
        BY <3>1, <3>4, OptionsNext
      <4>4. root \in Root /\ Reflects(root, Options(pos))
        BY <2>1, <3>3, <4>2, <4>3, AddOptsReflects
      <4>. HIDE DEF root
      <4>5. RootOpts' = root
        BY <4>1, <4>4 DEF RootOpts, Root
      <4>6. args'.flags \in SUBSET MountFlags /\ args'.options \in Seq(Word)
        BY <4>1, <4>4 DEF Root
      <4>. QED  BY <2>2, <3>1, <3>2, <4>4, <4>5, <4>6
    <3>5. CASE ~ Names(line[pos], "rootflags")
      <4>1. args'.flags = args.flags /\ args'.options = args.options
        BY <2>1, <2>4, <3>5, TurnFields
      <4>2. RootOpts' = RootOpts
        BY <4>1 DEF RootOpts
      <4>3. Options(pos) = Options(pos - 1)
        <5>1. Options(pos - 1) \in Seq(Word) /\ Options(pos) = Options(pos - 1) \o <<>>
          BY <3>1, <3>5, OptionsNext
        <5>. QED  BY <5>1
      <4>. QED  BY <1>2, <2>1, <2>2, <3>1, <3>2, <4>1, <4>2, <4>3 DEF OptionInv
    <3>. QED  BY <3>4, <3>5
  <2>. QED  BY <1>2, <2>3, <2>4, TurnOrNot
<1>. QED
  BY <1>1, <1>2, CmdlineInvariant, PTL DEF Spec

(***************************************************************************)
(* A mount flag is what the last word about it says, the options that are  *)
(* none are passed on in their order, and the last of ro and rw counts     *)
(* (parse_rootflags, _add_opts, parse_rootmode).                           *)
(***************************************************************************)
THEOREM LastOptionCounts == Spec => []LastOptionWins
<1>1. OptionInv => LastOptionWins
  BY DEF OptionInv
<1>. QED
  BY <1>1, OptionInvariant, PTL
-----------------------------------------------------------------------------
(* The parameters of the modules.                                          *)

LEMMA ChosenNone ==
  ASSUME NEW X, NEW s \in Seq(X)
  PROVE  Chosen(s, {}) = <<>>
<1>1. PICK c \in [0..Len(s) -> Seq(X)] :
        Choosing(c, s, {}, Len(s)) /\ Chosen(s, {}) = c[Len(s)]
  BY ChosenDef
<1>2. 0 \in 0..Len(s)
  OBVIOUS
<1>3. c[Len(s)] = c[0]
  BY <1>1, <1>2, ChosenStops
<1>. QED
  BY <1>1, <1>3 DEF Choosing

(* The parameters of m among the first n arguments, and their texts. *)
ParamsOf(m, n) == {i \in 1..n : Names(line[i], "param") /\ Normal[line[i].words[1]] = m}
Texts(mine) == [k \in DOMAIN mine |-> mine[k].words[2]]

LEMMA TextsAppend ==
  ASSUME NEW mine \in Seq(Argument), NEW a \in Argument,
         Texts(mine) \in Seq(Word), a.words[2] \in Word
  PROVE  Texts(Append(mine, a)) = Append(Texts(mine), a.words[2])
<1>. DEFINE l == Len(mine)
            more == Append(mine, a)
<1>1. /\ l \in Nat /\ DOMAIN mine = 1..l /\ DOMAIN more = 1..(l + 1)
      /\ more[l + 1] = a /\ \A k \in 1..l : more[k] = mine[k]
      /\ l + 1 \in 1..(l + 1) /\ \A k \in 1..(l + 1) : k = l + 1 \/ k \in 1..l
  OBVIOUS
<1>. HIDE DEF more, l
<1>2. DOMAIN Texts(mine) = 1..l /\ \A k \in 1..l : Texts(mine)[k] = mine[k].words[2]
  BY <1>1 DEF Texts
<1>3. Texts(more) = [k \in 1..(l + 1) |-> more[k].words[2]]
  BY <1>1 DEF Texts
<1>4. Len(Texts(mine)) = l
  BY <1>1, <1>2
<1>. DEFINE new == Append(Texts(mine), a.words[2])
<1>5. /\ new \in Seq(Word) /\ Len(new) = l + 1 /\ new[l + 1] = a.words[2]
      /\ \A k \in 1..l : new[k] = Texts(mine)[k]
  BY <1>1, <1>4
<1>6. new = [k \in 1..(l + 1) |-> new[k]]
  BY <1>5
<1>. HIDE DEF new
<1>7. \A k \in 1..(l + 1) : new[k] = more[k].words[2]
  BY <1>1, <1>2, <1>5
<1>. QED
  BY <1>3, <1>6, <1>7 DEF new, more

ParamsInv ==
  /\ args.params \in [Modules -> Seq(Word)]
  /\ ParamsKept

LEMMA ParamsInvariant == Spec => []ParamsInv
<1>1. Init => ParamsInv
  <2>. SUFFICES ASSUME Init PROVE ParamsInv
    OBVIOUS
  <2>1. args.params = [m \in Modules |-> <<>>] /\ line \in Lines /\ Read = {}
    BY DEF Init, Read
  <2>2. line \in Seq(Argument) /\ <<>> \in Seq(Word)
    BY <2>1, CmdlineAssumption
  <2>3. ASSUME NEW m \in Modules
        PROVE  ParamsOf(m, 0) = {} /\ args.params[m] = <<>> /\ Chosen(line, {}) = <<>>
               /\ Texts(<<>>) = <<>>
    BY <2>1, <2>2, ChosenNone DEF ParamsOf, Texts
  <2>4. \A m \in Modules :
          {i \in Read : Names(line[i], "param") /\ Normal[line[i].words[1]] = m} = {}
    BY <2>1
  <2>5. \A m \in Modules : args.params[m] = Texts(Chosen(line, {}))
    BY <2>3
  <2>7. ParamsKept
    BY <2>4, <2>5, Zenon DEF ParamsKept, Texts
  <2>6. args.params \in [Modules -> Seq(Word)]
    BY <2>1, <2>2
  <2>. QED  BY <2>6, <2>7 DEF ParamsInv
<1>2. ASSUME CmdlineInv, ParamsInv, [Next]_vars
      PROVE  ParamsInv'
  <2>1. /\ args.params \in [Modules -> Seq(Word)] /\ DOMAIN args = Fields
        /\ \A m \in Modules : args.params[m] = Texts(Chosen(line, ParamsOf(m, pos - 1)))
    BY <1>2 DEF ParamsInv, ParamsKept, ParamsOf, Texts, Read, CmdlineInv
  <2>2. ASSUME line' = line, args'.params \in [Modules -> Seq(Word)],
               \A m \in Modules : args'.params[m] = Texts(Chosen(line, ParamsOf(m, pos' - 1)))
        PROVE  ParamsInv'
    <3>1. ParamsKept' <=> \A m \in Modules :
                            args'.params[m] = Texts(Chosen(line', ParamsOf(m, pos - 1)'))
      BY DEF ParamsKept, ParamsOf, Texts, Read
    <3>2. \A m : ParamsOf(m, pos - 1)' = ParamsOf(m, pos' - 1)
      BY <2>2 DEF ParamsOf
    <3>. QED  BY <2>2, <3>1, <3>2 DEF ParamsInv
  <2>3. CASE NoTurn
    <3>1. line' = line /\ pos' = pos /\ args'.params = args.params
      BY <2>3 DEF NoTurn, Fields
    <3>. QED  BY <2>1, <2>2, <3>1
  <2>4. CASE Turn
    <3>. DEFINE a == line[pos]
    <3>1. /\ line' = line /\ pos' - 1 = pos /\ line \in Lines /\ pos \in 1..Len(line)
          /\ a \in Argument /\ Len(line) \in Nat
          /\ \A i \in 1..pos : i = pos \/ i \in 1..(pos - 1)
          /\ pos \in 1..pos /\ \A i \in 1..(pos - 1) : i \in 1..pos
      BY <2>4 DEF Turn
    <3>2. line \in Seq(Argument)
      BY <3>1, CmdlineAssumption
    <3>3. CASE Names(a, "param")
      <4>1. Len(a.words) = 2 /\ a.words[1] \in DOMAIN Normal /\ a.words \in Seq(Word)
        <5>1. pos \in DOMAIN line
          BY <3>1, <3>2
        <5>2. Len(a.words) = 2 /\ a.words[1] \in DOMAIN Normal
          BY <3>1, <3>3, <5>1, CmdlineAssumption DEF Names
        <5>. QED  BY <3>1, <5>2 DEF Argument
      <4>. DEFINE n == Normal[a.words[1]]
                  w == a.words[2]
      <4>2. n \in Modules /\ w \in Word
        BY <4>1 DEF Modules
      <4>3. args'.params = [args.params EXCEPT ![n] = Append(@, w)]
        BY <2>1, <2>4, <3>3, TurnFields
      <4>. HIDE DEF n, w
      <4>4. /\ args'.params[n] = Append(args.params[n], w)
            /\ \A m \in Modules \ {n} : args'.params[m] = args.params[m]
        BY <2>1, <4>2, <4>3
      <4>5. args'.params \in [Modules -> Seq(Word)]
        BY <2>1, <4>2, <4>3
      <4>6. \A m \in Modules \ {n} : ParamsOf(m, pos) = ParamsOf(m, pos - 1)
        BY <3>1 DEF ParamsOf, n
      <4>7. ParamsOf(n, pos) = ParamsOf(n, pos - 1) \cup {pos}
        BY <3>1, <3>3 DEF ParamsOf, n
      <4>8. Chosen(line, ParamsOf(n, pos)) = Append(Chosen(line, ParamsOf(n, pos - 1)), a)
        <5>1. ParamsOf(n, pos - 1) \in SUBSET (1..(pos - 1))
          BY DEF ParamsOf
        <5>. QED  BY <3>1, <3>2, <4>7, <5>1, ChosenNext
      <4>9. Texts(Chosen(line, ParamsOf(n, pos))) = args'.params[n]
        <5>1. Chosen(line, ParamsOf(n, pos - 1)) \in Seq(Argument)
          BY <3>2, ChosenType
        <5>2. Texts(Chosen(line, ParamsOf(n, pos - 1))) = args.params[n]
              /\ args.params[n] \in Seq(Word)
          BY <2>1, <4>2
        <5>. HIDE DEF a
        <5>. QED  BY <3>1, <4>2, <4>4, <4>8, <5>1, <5>2, TextsAppend DEF w
      <4>. QED  BY <2>1, <2>2, <3>1, <4>2, <4>4, <4>5, <4>6, <4>9
    <3>4. CASE ~ Names(a, "param")
      <4>1. args'.params = args.params
        BY <2>1, <2>4, <3>4, TurnFields
      <4>2. \A m : ParamsOf(m, pos) = ParamsOf(m, pos - 1)
        BY <3>1, <3>4 DEF ParamsOf
      <4>. QED  BY <2>1, <2>2, <3>1, <4>1, <4>2
    <3>. QED  BY <3>3, <3>4
  <2>. QED  BY <1>2, <2>3, <2>4, TurnOrNot
<1>. QED
  BY <1>1, <1>2, CmdlineInvariant, PTL DEF Spec

(***************************************************************************)
(* Every module has each of its parameters, once and in the order of the   *)
(* command line (parse_module_param, ModParams).                           *)
(***************************************************************************)
THEOREM ParametersKept == Spec => []ParamsKept
<1>1. ParamsInv => ParamsKept
  BY DEF ParamsInv
<1>. QED
  BY <1>1, ParamsInvariant, PTL
-----------------------------------------------------------------------------
(* The messages about the arguments.                                       *)

Msg == [level : Levels, at : Nat]

(* What the buffer b holds of the first n arguments of l: messages in their *)
(* order, and a warning about each that is misread.                        *)
Reports(b, l, n) ==
  /\ b \in Seq(Msg)
  /\ \A k \in DOMAIN b : b[k].at \in 1..n
  /\ \A j, k \in DOMAIN b : j < k => b[j].at <= b[k].at
  /\ \A i \in 1..n : Misread(l[i]) => \E k \in DOMAIN b : b[k] = Message(Warn, i)

LEMMA ReportsNext ==
  ASSUME NEW b, NEW l, NEW n \in Nat, Reports(b, l, n), NEW levels \in Seq(Levels),
         Misread(l[n + 1]) => \E k \in DOMAIN levels : levels[k] = Warn
  PROVE  Reports(b \o [k \in DOMAIN levels |-> Message(levels[k], n + 1)], l, n + 1)
<1>. DEFINE new == [k \in DOMAIN levels |-> Message(levels[k], n + 1)]
            m == Len(b)
            c == b \o new
<1>1. b \in Seq(Msg) /\ m \in Nat /\ DOMAIN b = 1..m
  BY DEF Reports
<1>2. new \in Seq(Msg) /\ Len(new) = Len(levels) /\ DOMAIN new = DOMAIN levels
  <2>1. \A k \in DOMAIN levels : Message(levels[k], n + 1) \in Msg
    BY DEF Message, Msg
  <2>2. DOMAIN levels = 1..Len(levels) /\ Len(levels) \in Nat
    OBVIOUS
  <2>. QED  BY <2>1, <2>2
<1>3. \A k \in DOMAIN levels : new[k] = Message(levels[k], n + 1) /\ new[k].at = n + 1
  BY DEF Message
<1>. HIDE DEF new
<1>4. /\ c \in Seq(Msg) /\ Len(c) = m + Len(levels) /\ Len(levels) \in Nat
      /\ DOMAIN levels = 1..Len(levels) /\ DOMAIN c = 1..(m + Len(levels))
      /\ \A k \in 1..m : c[k] = b[k]
      /\ \A k \in 1..Len(levels) : c[m + k] = new[k]
  BY <1>1, <1>2
<1>. HIDE DEF c, m
<1>5. ASSUME NEW k \in DOMAIN c
      PROVE  \/ k \in 1..m /\ c[k] = b[k]
             \/ k > m /\ c[k].at = n + 1
  <2>1. CASE k \in 1..m
    BY <1>4, <2>1
  <2>2. CASE k \notin 1..m
    <3>1. k > m /\ k - m \in 1..Len(levels) /\ m + (k - m) = k
      BY <1>1, <1>4, <2>2
    <3>2. c[k] = new[k - m]
      BY <1>4, <3>1
    <3>. QED  BY <1>3, <1>4, <3>1, <3>2
  <2>. QED  BY <2>1, <2>2
<1>6. \A k \in 1..m : b[k].at \in 1..n
  BY <1>1 DEF Reports
<1>7. \A k \in DOMAIN c : c[k].at \in 1..(n + 1)
  BY <1>5, <1>6
<1>8. ASSUME NEW j \in DOMAIN c, NEW k \in DOMAIN c, j < k
      PROVE  c[j].at <= c[k].at
  <2>1. CASE k \in 1..m
    <3>1. j \in 1..m
      BY <1>1, <1>4, <1>8, <2>1
    <3>2. b[j].at <= b[k].at
      BY <1>1, <1>8, <2>1, <3>1 DEF Reports
    <3>. QED  BY <1>4, <2>1, <3>1, <3>2
  <2>2. CASE k \notin 1..m
    <3>1. c[k].at = n + 1
      BY <1>5, <2>2
    <3>. QED  BY <1>7, <3>1
  <2>. QED  BY <2>1, <2>2
<1>9. ASSUME NEW i \in 1..(n + 1), Misread(l[i])
      PROVE  \E k \in DOMAIN c : c[k] = Message(Warn, i)
  <2>1. CASE i = n + 1
    <3>1. PICK k \in DOMAIN levels : levels[k] = Warn
      BY <1>9, <2>1
    <3>2. m + k \in DOMAIN c /\ c[m + k] = Message(Warn, i)
      BY <1>1, <1>3, <1>4, <2>1, <3>1
    <3>. QED  BY <3>2
  <2>2. CASE i # n + 1
    <3>1. i \in 1..n
      BY <2>2
    <3>2. PICK k \in 1..m : b[k] = Message(Warn, i)
      BY <1>1, <1>9, <3>1 DEF Reports
    <3>3. k \in DOMAIN c /\ c[k] = b[k]
      BY <1>1, <1>4
    <3>. QED  BY <3>2, <3>3
  <2>. QED  BY <2>1, <2>2
<1>. QED
  BY <1>4, <1>7, <1>8, <1>9 DEF Reports, c, new

(* Of the words of ignited.log= that name no level, all but "console" are  *)
(* warned about.                                                           *)
OddLevels(words) ==
  [k \in DOMAIN Odd(words) |-> IF Odd(words)[k] = "console" THEN Debug ELSE Warn]

LEMMA OddWarned ==
  ASSUME NEW words \in Seq(Word)
  PROVE  /\ OddLevels(words) \in Seq(Levels)
         /\ (\E k \in DOMAIN words : words[k] \notin DOMAIN LevelOf \cup {"console"}) =>
              \E k \in DOMAIN OddLevels(words) : OddLevels(words)[k] = Warn
<1>. DEFINE I == {k \in DOMAIN words : words[k] \notin DOMAIN LevelOf}
            odd == Chosen(words, I)
<1>1. odd \in Seq(Word)
  <2>. HIDE DEF I
  <2>. QED  BY ChosenType
<1>2. PICK at : Places(at, odd, words, I, Len(words))
  <2>. HIDE DEF I
  <2>. QED  BY ChosenPlaces
<1>3. Odd(words) = odd
  BY DEF Odd
<1>4. OddLevels(words) = [k \in 1..Len(odd) |-> IF odd[k] = "console" THEN Debug ELSE Warn]
  <2>1. DOMAIN odd = 1..Len(odd)
    BY <1>1
  <2>. HIDE DEF odd
  <2>. QED  BY <1>3, <2>1 DEF OddLevels
<1>. HIDE DEF odd
<1>5. OddLevels(words) \in Seq(Levels) /\ DOMAIN OddLevels(words) = 1..Len(odd)
  BY <1>1, <1>4, LevelsAreLevels
<1>6. ASSUME NEW k \in DOMAIN words, words[k] \notin DOMAIN LevelOf \cup {"console"}
      PROVE  \E n \in DOMAIN OddLevels(words) : OddLevels(words)[n] = Warn
  <2>1. k \in I \cap (1..Len(words))
    BY <1>6
  <2>. HIDE DEF I
  <2>2. PICK n \in 1..Len(odd) : at[n] = k
    BY <1>2, <2>1 DEF Places
  <2>3. odd[n] = words[k]
    BY <1>2, <2>2 DEF Places
  <2>. QED  BY <1>4, <1>5, <1>6, <2>3
<1>. QED
  BY <1>5, <1>6

(* A turn of the loop warns about an argument that is misread. *)
LEMMA TurnWarns ==
  ASSUME Turn
  PROVE  \E levels \in Seq(Levels) :
           /\ buffer' = buffer \o [k \in DOMAIN levels |-> Message(levels[k], pos)]
           /\ Misread(line[pos]) => \E k \in DOMAIN levels : levels[k] = Warn
<1>. DEFINE a == line[pos]
<1>1. Arg = a /\ a.words \in Seq(Word) /\ a.key \in Keys /\ a.given \in BOOLEAN
  BY DEF Arg, Turn, Argument
<1>2. ASSUME NEW levels \in Seq(Levels), Advance(levels),
             Misread(a) => \E k \in DOMAIN levels : levels[k] = Warn
      PROVE  \E new \in Seq(Levels) :
               /\ buffer' = buffer \o [k \in DOMAIN new |-> Message(new[k], pos)]
               /\ Misread(a) => \E k \in DOMAIN new : new[k] = Warn
  BY <1>2 DEF Advance
<1>3. ASSUME Advance(<<Warn>>)
      PROVE  \E levels \in Seq(Levels) :
               /\ Advance(levels)
               /\ Misread(a) => \E k \in DOMAIN levels : levels[k] = Warn
  <2>1. <<Warn>> \in Seq(Levels) /\ 1 \in DOMAIN <<Warn>> /\ <<Warn>>[1] = Warn
    BY LevelsAreLevels
  <2>. QED  BY <1>3, <2>1
<1>4. ASSUME Advance(<<>>) \/ Advance(<<Debug>>), ~ Misread(a)
      PROVE  \E levels \in Seq(Levels) :
               /\ Advance(levels)
               /\ Misread(a) => \E k \in DOMAIN levels : levels[k] = Warn
  <2>1. <<>> \in Seq(Levels) /\ <<Debug>> \in Seq(Levels)
    BY LevelsAreLevels
  <2>. QED  BY <1>4, <2>1
<1>5. CASE ParseLog
  <2>1. a.key \in {"ignited.log", "booster.log"}
    BY <1>1, <1>5 DEF ParseLog, At
  <2>2. CASE a.given
    <3>1. Advance(OddLevels(a.words))
      BY <1>1, <1>5, <2>2 DEF ParseLog, OddLevels
    <3>2. Misread(a) => \E k \in DOMAIN a.words : a.words[k] \notin DOMAIN LevelOf \cup {"console"}
      BY <2>1, <2>2 DEF Misread
    <3>. QED  BY <1>1, <1>2, <3>1, <3>2, OddWarned
  <2>3. CASE ~ a.given
    BY <1>1, <1>2, <1>3, <1>5, <2>3 DEF ParseLog
  <2>. QED  BY <2>2, <2>3
<1>6. CASE ParseBoosterDebug \/ ParseQuiet \/ ParseRootmode
  <2>1. ~ Misread(a)
    BY <1>1, <1>6 DEF ParseBoosterDebug, ParseQuiet, ParseRootmode, At, Misread, Single
  <2>2. Advance(<<>>) \/ Advance(<<Debug>>)
    BY <1>6 DEF ParseBoosterDebug, ParseQuiet, ParseRootmode
  <2>. QED  BY <1>2, <1>4, <2>1, <2>2
<1>7. CASE ParseRoot \/ ParseResume \/ ParseInit \/ ParseRootfstype \/ ParseRootflags
            \/ ParseModParam
  <2>1. ~ Misread(a)
    BY <1>1, <1>7 DEF ParseRoot, ParseResume, ParseInit, ParseRootfstype, Keep,
                      ParseRootflags, ParseModParam, At, Misread
  <2>2. Advance(<<>>)
    BY <1>7 DEF ParseRoot, ParseResume, ParseInit, ParseRootfstype, Keep,
                ParseRootflags, ParseModParam
  <2>. QED  BY <1>2, <1>4, <2>1, <2>2
<1>8. CASE KeyIsEmpty \/ InvalidKey
  <2>1. Advance(<<Warn>>)
    BY <1>8 DEF KeyIsEmpty, InvalidKey
  <2>. QED  BY <1>2, <1>3, <2>1
<1>9. ~ ParseFails /\ ~ ParseLuks
  BY DEF Turn, ParseFails, ParseLuks, Abort
<1>. QED
  BY <1>5, <1>6, <1>7, <1>8, <1>9 DEF Turn, ParseInner
-----------------------------------------------------------------------------
(* The messages the kernel takes.                                          *)

Admitted(b, t) == {k \in DOMAIN b : b[k].level <= t}
Due(l, n, t) == {i \in 1..n : Misread(l[i]) /\ Warn <= t}
Shows(c, i) == \E k \in DOMAIN c : c[k].at = i

(* What c, the messages of C that the kernel has taken, shows of the first  *)
(* n arguments of l under the level t.                                     *)
Published(c, C, l, n, t) ==
  /\ Len(c) = Len(C) => \A i \in Due(l, n, t) : Shows(c, i)
  /\ \A i, j \in Due(l, n, t) : i < j /\ Shows(c, j) => Shows(c, i)
  /\ \A k \in DOMAIN c : c[k].level <= t
  /\ \A j, k \in DOMAIN c : j < k => c[j].at <= c[k].at

(* The first m of the messages that a level admits. *)
LEMMA FlushShows ==
  ASSUME NEW b, NEW l, NEW n \in Nat, Reports(b, l, n), NEW t \in Levels,
         NEW m \in 0..Len(Chosen(b, Admitted(b, t)))
  PROVE  Published(SubSeq(Chosen(b, Admitted(b, t)), 1, m), Chosen(b, Admitted(b, t)), l, n, t)
<1>. DEFINE I == Admitted(b, t)
            C == Chosen(b, I)
            c == SubSeq(C, 1, m)
<1>1. b \in Seq(Msg) /\ Len(b) \in Nat /\ DOMAIN b = 1..Len(b)
  BY DEF Reports
<1>. HIDE DEF I
<1>2. C \in Seq(Msg)
  BY <1>1, ChosenType
<1>3. PICK at : Places(at, C, b, I, Len(b))
  BY <1>1, ChosenPlaces
<1>4. c = SubSeq(C, 1, m) /\ m \in 0..Len(C)
  BY DEF I
<1>. HIDE DEF C, c
<1>5. Len(C) \in Nat /\ m \in Nat
  BY <1>2, <1>4
<1>6. c \in Seq(Msg) /\ Len(c) = m /\ DOMAIN c = 1..m /\ \A k \in 1..m : c[k] = C[k]
  BY <1>2, <1>4, <1>5
<1>7. \A k \in 1..Len(C) : at[k] \in I /\ at[k] \in 1..Len(b) /\ C[k] = b[at[k]]
  BY <1>3 DEF Places
<1>8. \A k \in 1..m : k \in 1..Len(C)
  BY <1>4, <1>5
<1>9. \A k \in 1..Len(C) : C[k].level <= t
  BY <1>7 DEF I, Admitted
<1>10. \A j, k \in 1..Len(C) : j < k => C[j].at <= C[k].at
  <2>. SUFFICES ASSUME NEW j \in 1..Len(C), NEW k \in 1..Len(C), j < k
                PROVE  C[j].at <= C[k].at
    OBVIOUS
  <2>1. at[j] < at[k]
    BY <1>3 DEF Places
  <2>2. at[j] \in DOMAIN b /\ at[k] \in DOMAIN b
    BY <1>1, <1>7
  <2>3. b[at[j]].at <= b[at[k]].at
    BY <2>1, <2>2 DEF Reports
  <2>. QED  BY <1>7, <2>3
<1>11. ASSUME NEW i \in Due(l, n, t)
       PROVE  Shows(C, i)
  <2>1. i \in 1..n /\ Misread(l[i]) /\ Warn <= t
    BY DEF Due
  <2>2. PICK p \in DOMAIN b : b[p] = Message(Warn, i)
    BY <2>1 DEF Reports
  <2>3. b[p].level = Warn /\ b[p].at = i
    BY <2>2 DEF Message
  <2>4. p \in I \cap (1..Len(b))
    BY <1>1, <2>1, <2>3 DEF I, Admitted
  <2>5. PICK k \in 1..Len(C) : at[k] = p
    BY <1>3, <2>4 DEF Places
  <2>6. C[k].at = i /\ k \in DOMAIN C
    BY <1>2, <1>7, <2>3, <2>5
  <2>. QED  BY <2>6 DEF Shows
<1>12. m = Len(C) => \A i \in Due(l, n, t) : Shows(c, i)
  BY <1>2, <1>6, <1>11 DEF Shows
<1>13. ASSUME NEW i \in Due(l, n, t), NEW j \in Due(l, n, t), i < j, Shows(c, j)
       PROVE  Shows(c, i)
  <2>1. PICK q \in 1..m : c[q].at = j
    BY <1>6, <1>13 DEF Shows
  <2>2. PICK k \in 1..Len(C) : C[k].at = i
    BY <1>2, <1>11 DEF Shows
  <2>3. q \in 1..Len(C) /\ C[q].at = j
    BY <1>6, <1>8, <2>1
  <2>4. ~ (q < k)
    <3>1. i \in Nat /\ j \in Nat
      BY DEF Due
    <3>. QED  BY <1>10, <1>13, <2>2, <2>3, <3>1
  <2>5. k \in 1..m
    BY <1>5, <2>1, <2>4
  <2>. QED  BY <1>6, <2>2, <2>5 DEF Shows
<1>14. Published(c, C, l, n, t)
  BY <1>6, <1>8, <1>9, <1>10, <1>12, <1>13 DEF Published
<1>. QED
  BY <1>14 DEF c, C, I

(* println: of the messages admitted the kernel takes the first, all unless *)
(* that is more than is left of the burst.                                 *)
LEMMA PrintTakes ==
  ASSUME kmsg \in Seq(Msg), NEW msgs \in Seq(Msg), NEW t, PrintLn(t, msgs),
         devkmsg = "on" \/ Len(kmsg) <= Burst
  PROVE  \E m \in 0..Len(Chosen(msgs, Admitted(msgs, t))) :
           /\ kmsg' = kmsg \o SubSeq(Chosen(msgs, Admitted(msgs, t)), 1, m)
           /\ kmsg' \in Seq(Msg)
           /\ devkmsg = "on" \/ Len(kmsg') <= Burst
           /\ devkmsg = "on" \/ Len(kmsg') < Burst => m = Len(Chosen(msgs, Admitted(msgs, t)))
<1>. DEFINE I == Admitted(msgs, t)
            C == Chosen(msgs, I)
<1>1. C \in Seq(Msg) /\ Len(C) \in Nat /\ Len(kmsg) \in Nat /\ Burst \in Nat
  <2>. HIDE DEF I
  <2>1. C \in Seq(Msg)
    BY ChosenType
  <2>. HIDE DEF C
  <2>. QED  BY <2>1, CmdlineAssumption
<1>2. kmsg' = kmsg \o Taken(C)
  BY DEF PrintLn, Admitted
<1>. HIDE DEF C
<1>. SUFFICES \E m \in 0..Len(C) :
                /\ kmsg' = kmsg \o SubSeq(C, 1, m)
                /\ kmsg' \in Seq(Msg)
                /\ devkmsg = "on" \/ Len(kmsg') <= Burst
                /\ devkmsg = "on" \/ Len(kmsg') < Burst => m = Len(C)
  BY DEF C
<1>. DEFINE left == Burst - Len(kmsg)
<1>3. CASE devkmsg = "on" \/ left >= Len(C)
  <2>1. Taken(C) = C /\ SubSeq(C, 1, Len(C)) = C /\ Len(C) \in 0..Len(C)
    BY <1>1, <1>3 DEF Taken
  <2>2. kmsg' \in Seq(Msg) /\ Len(kmsg') = Len(kmsg) + Len(C)
    BY <1>1, <1>2, <2>1
  <2>3. devkmsg = "on" \/ Len(kmsg') <= Burst
    BY <1>1, <1>3, <2>2
  <2>. QED  BY <1>2, <2>1, <2>2, <2>3
<1>4. CASE devkmsg # "on" /\ ~ (left >= Len(C))
  <2>1. left \in 0..Len(C) /\ Taken(C) = SubSeq(C, 1, left)
    BY <1>1, <1>4 DEF Taken
  <2>. HIDE DEF left
  <2>2. SubSeq(C, 1, left) \in Seq(Msg) /\ Len(SubSeq(C, 1, left)) = left
    BY <1>1, <2>1
  <2>3. kmsg' \in Seq(Msg) /\ Len(kmsg') = Len(kmsg) + left
    BY <1>1, <1>2, <2>1, <2>2
  <2>4. Len(kmsg') = Burst
    BY <1>1, <2>3 DEF left
  <2>5. kmsg' = kmsg \o SubSeq(C, 1, left) /\ ~ (Len(kmsg') < Burst) /\ Len(kmsg') <= Burst
    BY <1>1, <1>2, <2>1, <2>4
  <2>. QED  BY <1>4, <2>1, <2>3, <2>5
<1>. QED
  BY <1>3, <1>4

(* WarningsShown together with what makes it inductive: what the buffer     *)
(* holds as long as the arguments are read.                                *)
LogInv ==
  /\ stage \in {"args", "flushed", "throttle", "done", "failed", "panicked"}
  /\ threshold \in Levels /\ devkmsg \in {"on", "ratelimit"}
  /\ buffer \in Seq(Msg) /\ kmsg \in Seq(Msg)
  /\ devkmsg = "on" \/ Len(kmsg) <= Burst
  /\ stage = "args" => Reports(buffer, line, pos - 1) /\ kmsg = <<>>
  /\ WarningsShown

(* The level the buffer is printed under. *)
LevelGiven == IF FirstLevel(Len(line)) = Unset THEN Info ELSE FirstLevel(Len(line))

LEMMA FlushKeepsLogInv ==
  ASSUME CmdlineInv, LevelInv, LogInv, FlushWithLevel
  PROVE  LogInv'
<1>. DEFINE t == threshold'
            I == Admitted(buffer, t)
            C == Chosen(buffer, I)
<1>1. /\ stage = "args" /\ stage' = "flushed" /\ line' = line /\ pos' = pos
      /\ devkmsg' = devkmsg /\ buffer' = <<>> /\ PrintLn(t, buffer)
      /\ t = IF level = Unset THEN Info ELSE level
  BY DEF FlushWithLevel
<1>2. /\ line \in Lines /\ Len(line) \in Nat /\ DOMAIN line = 1..Len(line)
      /\ pos - 1 = Len(line)
  BY <1>1, LineIsSeq DEF FlushWithLevel, CmdlineInv
<1>3. t = LevelGiven' /\ t \in Levels
  <2>1. level = FirstLevel(Len(line)) /\ level \in Levels \cup {Unset}
    BY <1>2 DEF LevelInv, FirstLevelWins
  <2>2. FirstLevel(Len(line))' = FirstLevel(Len(line))
    BY <1>1 DEF FirstLevel
  <2>. QED  BY <1>1, <2>1, <2>2, LevelsAreLevels DEF LevelGiven
<1>4. Reports(buffer, line, Len(line)) /\ kmsg = <<>>
  BY <1>1, <1>2 DEF LogInv
<1>. HIDE DEF C, t
<1>5. PICK m \in 0..Len(C) :
        /\ kmsg' = kmsg \o SubSeq(C, 1, m)
        /\ kmsg' \in Seq(Msg)
        /\ devkmsg = "on" \/ Len(kmsg') <= Burst
        /\ devkmsg = "on" \/ Len(kmsg') < Burst => m = Len(C)
  BY <1>1, PrintTakes DEF LogInv, C
<1>6. kmsg' = SubSeq(C, 1, m)
  <2>1. C \in Seq(Msg)
    <3>1. buffer \in Seq(Msg)
      BY DEF LogInv
    <3>. QED  BY <3>1, ChosenType DEF C
  <2>2. SubSeq(C, 1, m) \in Seq(Msg)
    BY <2>1
  <2>. QED  BY <1>4, <1>5, <2>2
<1>7. Published(kmsg', C, line, Len(line), t) /\ Len(kmsg') = m
  <2>1. Published(SubSeq(C, 1, m), C, line, Len(line), t)
    BY <1>2, <1>3, <1>4, FlushShows DEF C
  <2>2. C \in Seq(Msg)
    <3>1. buffer \in Seq(Msg)
      BY DEF LogInv
    <3>. QED  BY <3>1, ChosenType DEF C
  <2>3. Len(SubSeq(C, 1, m)) = m
    <3>1. Len(C) \in Nat /\ m \in 0..Len(C)
      BY <1>5, <2>2
    <3>. QED  BY <2>2, <3>1
  <2>. QED  BY <1>6, <2>1, <2>3
<1>8. WarningsShown'
  <2>1. LevelGiven' = t /\ Len(line') = Len(line) /\ DOMAIN line' = 1..Len(line)
    BY <1>1, <1>2, <1>3
  <2>2. \A i : Shown(i)' = Shows(kmsg', i)
    BY DEF Shown, Shows
  <2>3. {i \in DOMAIN line' : Misread(line'[i]) /\ Warn <= t} = Due(line, Len(line), t)
    BY <1>1, <1>2 DEF Due
  <2>. QED  BY <1>1, <1>5, <1>7, <2>1, <2>2, <2>3 DEF Published, WarningsShown, LevelGiven
<1>9. buffer' \in Seq(Msg)
  BY <1>1
<1>. QED
  BY <1>1, <1>3, <1>5, <1>8, <1>9 DEF LogInv, t
(* Outside of the flushing the log is only ever added to. *)
LEMMA PrintKeepsType ==
  ASSUME LogInv, NEW t, PrintLn(t, <<Message(Info, 0)>>) \/ UNCHANGED kmsg,
         devkmsg' = devkmsg \/ devkmsg' = "on"
  PROVE  kmsg' \in Seq(Msg) /\ (devkmsg' = "on" \/ Len(kmsg') <= Burst)
<1>1. <<Message(Info, 0)>> \in Seq(Msg)
  <2>1. Message(Info, 0) \in Msg
    BY LevelsAreLevels DEF Message, Msg
  <2>. QED  BY <2>1
<1>2. kmsg \in Seq(Msg) /\ (devkmsg = "on" \/ Len(kmsg) <= Burst)
  BY DEF LogInv
<1>3. CASE UNCHANGED kmsg
  BY <1>2, <1>3
<1>4. CASE PrintLn(t, <<Message(Info, 0)>>)
  <2>. DEFINE msgs == <<Message(Info, 0)>>
  <2>. HIDE DEF msgs
  <2>1. kmsg' \in Seq(Msg) /\ (devkmsg = "on" \/ Len(kmsg') <= Burst)
    BY <1>1, <1>2, <1>4, PrintTakes DEF msgs
  <2>. QED  BY <2>1
<1>. QED
  BY <1>3, <1>4

LEMMA LogInvariant == Spec => []LogInv
<1>1. Init => LogInv
  <2>. SUFFICES ASSUME Init PROVE LogInv
    OBVIOUS
  <2>1. /\ stage = "args" /\ pos - 1 = 0 /\ buffer = <<>> /\ kmsg = <<>>
        /\ threshold = Info /\ devkmsg \in {"on", "ratelimit"}
    BY DEF Init
  <2>2. Reports(buffer, line, 0)
    BY <2>1 DEF Reports
  <2>3. Len(kmsg) <= Burst
    BY <2>1, CmdlineAssumption
  <2>. QED  BY <2>1, <2>2, <2>3, LevelsAreLevels DEF LogInv, WarningsShown
<1>2. ASSUME CmdlineInv, LevelInv, LogInv, [Next]_vars
      PROVE  LogInv'
  <2>1. ASSUME stage' \in {"throttle", "done", "failed", "panicked"},
               threshold' = threshold, buffer' = buffer,
               devkmsg' = devkmsg \/ devkmsg' = "on",
               kmsg' \in Seq(Msg), devkmsg' = "on" \/ Len(kmsg') <= Burst
        PROVE  LogInv'
    BY <1>2, <2>1 DEF LogInv, WarningsShown
  <2>2. ASSUME UNCHANGED <<line, level, threshold, buffer, devkmsg, kmsg>>,
               stage' \in {"failed", "panicked"}
        PROVE  LogInv'
    BY <1>2, <2>1, <2>2 DEF LogInv
  <2>3. CASE Turn
    <3>1. /\ stage = "args" /\ stage' = "args" /\ line' = line /\ pos' = pos + 1
          /\ threshold' = threshold /\ devkmsg' = devkmsg /\ kmsg' = kmsg
          /\ pos \in 1..Len(line) /\ Len(line) \in Nat
      BY <2>3 DEF Turn
    <3>2. PICK levels \in Seq(Levels) :
            /\ buffer' = buffer \o [k \in DOMAIN levels |-> Message(levels[k], pos)]
            /\ Misread(line[pos]) => \E k \in DOMAIN levels : levels[k] = Warn
      BY <2>3, TurnWarns
    <3>3. pos - 1 \in Nat /\ (pos - 1) + 1 = pos /\ pos' - 1 = pos
      BY <3>1
    <3>4. Reports(buffer, line, pos - 1)
      BY <1>2, <3>1 DEF LogInv
    <3>5. Reports(buffer', line, pos)
      BY <3>2, <3>3, <3>4, ReportsNext
    <3>6. buffer' \in Seq(Msg)
      BY <3>5 DEF Reports
    <3>. QED  BY <1>2, <3>1, <3>3, <3>5, <3>6 DEF LogInv, WarningsShown
  <2>4. CASE ParseInner /\ ~ Turn
    <3>1. ParseFails \/ ParseLuks \/ \E levels : Advance(levels)
      BY <2>4
         DEF ParseInner, ParseLog, ParseBoosterDebug, ParseQuiet, ParseRoot, ParseResume,
             ParseInit, ParseRootfstype, Keep, KeyIsEmpty, ParseRootflags, ParseRootmode,
             ParseModParam, InvalidKey
    <3>2. ASSUME NEW levels, Advance(levels) PROVE FALSE
      <4>1. pos' = pos + 1
        BY <3>2 DEF Advance
      <4>2. pos \in Nat
        BY <1>2, LineIsSeq DEF CmdlineInv
      <4>. QED  BY <1>2, <2>4, <4>1, <4>2, TurnOrNot DEF NoTurn
    <3>3. CASE ParseFails \/ ParseLuks
      BY <2>2, <3>3 DEF ParseFails, ParseLuks, Abort
    <3>. QED  BY <3>1, <3>2, <3>3
  <2>5. CASE FlushWithLevel
    BY <1>2, <2>5, FlushKeepsLogInv
  <2>6. CASE HasRoot
    BY <1>2, <2>1, <2>6 DEF HasRoot, Go, LogInv
  <2>7. CASE AutodiscoverRoot
    <3>1. PICK var \in EfiVars : stage' \in {"throttle", GetCurrent(var)}
                                 /\ (stage' = "throttle" <=> GetCurrent(var) = "found")
      <4>1. PICK var \in EfiVars :
              \/ GetCurrent(var) = "found" /\ Go("throttle")
              \/ GetCurrent(var) # "found" /\ Go(GetCurrent(var))
        BY <2>7 DEF AutodiscoverRoot
      <4>2. GetCurrent(var) \in {"found", "failed", "panicked"}
        BY DEF GetCurrent
      <4>. QED  BY <4>1, <4>2 DEF Go
    <3>2. GetCurrent(var) \in {"found", "failed", "panicked"}
      BY DEF GetCurrent
    <3>3. /\ buffer' = buffer /\ threshold' = threshold /\ devkmsg' = devkmsg
          /\ PrintLn(threshold, <<Message(Info, 0)>>)
      BY <2>7 DEF AutodiscoverRoot, Go
    <3>4. kmsg' \in Seq(Msg) /\ (devkmsg' = "on" \/ Len(kmsg') <= Burst)
      BY <1>2, <3>3, PrintKeepsType
    <3>. QED  BY <2>1, <3>1, <3>2, <3>3, <3>4
  <2>8. CASE DisableThrottling
    <3>1. /\ stage' = "done" /\ buffer' = buffer /\ threshold' = threshold
          /\ devkmsg' = devkmsg \/ devkmsg' = "on"
          /\ PrintLn(threshold, <<Message(Info, 0)>>) \/ UNCHANGED kmsg
      BY <2>8 DEF DisableThrottling, Go
    <3>2. kmsg' \in Seq(Msg) /\ (devkmsg' = "on" \/ Len(kmsg') <= Burst)
      BY <1>2, <3>1, PrintKeepsType
    <3>. QED  BY <2>1, <3>1, <3>2
  <2>9. CASE UNCHANGED vars
    <3>1. WarningsShown'
      <4>1. WarningsShown
        BY <1>2 DEF LogInv
      <4>2. FirstLevel(Len(line))' = FirstLevel(Len(line))
        BY <2>9 DEF vars, FirstLevel
      <4>3. \A i : Shown(i)' <=> Shown(i)
        BY <2>9 DEF vars, Shown
      <4>. QED  BY <2>9, <4>1, <4>2, <4>3 DEF WarningsShown, vars
    <3>. QED  BY <1>2, <2>9, <3>1 DEF LogInv, vars
  <2>. QED
    BY <1>2, <2>3, <2>4, <2>5, <2>6, <2>7, <2>8, <2>9 DEF Next
<1>. QED
  BY <1>1, <1>2, CmdlineInvariant, LevelInvariant, PTL DEF Spec

(***************************************************************************)
(* The level of the command line governs also what is reported of the      *)
(* arguments before it, and what the throttling drops of the reports is    *)
(* their end (KmsgBuf::flush_with_level).                                  *)
(***************************************************************************)
THEOREM WarningsAreShown == Spec => []WarningsShown
<1>1. LogInv => WarningsShown
  BY DEF LogInv
<1>. QED
  BY <1>1, LogInvariant, PTL
-----------------------------------------------------------------------------
(* Types.                                                                  *)

LEMMA ArgsStaysFunction ==
  ASSUME args = [f \in Fields |-> args[f]], [Next]_vars
  PROVE  args' = [f \in Fields |-> args'[f]]
<1>1. \/ args' = args
      \/ \E f \in Fields : \E v : args' = [args EXCEPT ![f] = v]
      \/ \E u, v : args' = [args EXCEPT !.flags = u, !.options = v]
  <2>1. CASE ParseRoot \/ ParseResume \/ ParseInit \/ ParseRootfstype
    BY <2>1 DEF ParseRoot, ParseResume, ParseInit, ParseRootfstype, Keep, Fields
  <2>2. CASE ParseRootflags
    BY <2>2 DEF ParseRootflags
  <2>3. CASE ParseRootmode
    BY <2>3 DEF ParseRootmode, Fields
  <2>4. CASE ParseModParam
    <3>1. PICK params : params = [args.params EXCEPT ![Normal[Arg.words[1]]] =
                                                        Append(@, Arg.words[2])]
      OBVIOUS
    <3>2. args' = [args EXCEPT !.params = params]
      BY <2>4, <3>1 DEF ParseModParam, Fields
    <3>. QED  BY <3>2 DEF Fields
  <2>5. CASE AutodiscoverRoot
    BY <2>5 DEF AutodiscoverRoot, Fields
  <2>6. CASE ParseLog \/ ParseBoosterDebug \/ ParseQuiet \/ ParseFails \/ KeyIsEmpty
             \/ ParseLuks \/ InvalidKey \/ FlushWithLevel \/ HasRoot \/ DisableThrottling
             \/ UNCHANGED vars
    BY <2>6 DEF ParseLog, ParseBoosterDebug, ParseQuiet, ParseFails, KeyIsEmpty, ParseLuks,
                Abort, InvalidKey, FlushWithLevel, HasRoot, DisableThrottling, vars
  <2>. QED  BY <2>1, <2>2, <2>3, <2>4, <2>5, <2>6 DEF Next, ParseInner
<1>2. CASE args' = args
  BY <1>2
<1>3. ASSUME NEW f \in Fields, NEW v, args' = [args EXCEPT ![f] = v]
      PROVE  args' = [g \in Fields |-> args'[g]]
  BY <1>3
<1>4. ASSUME NEW u, NEW v, args' = [args EXCEPT !.flags = u, !.options = v]
      PROVE  args' = [g \in Fields |-> args'[g]]
  BY <1>4
<1>. QED
  BY <1>1, <1>2, <1>3, <1>4

ArgsIsFunction == args = [f \in Fields |-> args[f]]

LEMMA ArgsInvariant == Spec => []ArgsIsFunction
<1>1. Init => ArgsIsFunction
  <2>. SUFFICES ASSUME Init PROVE ArgsIsFunction
    OBVIOUS
  <2>. DEFINE none == [m \in Modules |-> <<>>]
  <2>1. args = [init |-> None, resume |-> None, source |-> None, fstype |-> None,
                rw |-> FALSE, flags |-> {}, options |-> <<>>, params |-> none]
    BY DEF Init
  <2>. HIDE DEF none
  <2>. QED  BY <2>1 DEF ArgsIsFunction, Fields
<1>2. ArgsIsFunction /\ [Next]_vars => ArgsIsFunction'
  BY ArgsStaysFunction DEF ArgsIsFunction
<1>. QED
  BY <1>1, <1>2, PTL DEF Spec

(***************************************************************************)
(* Type correctness, whatever the command line.                            *)
(***************************************************************************)
THEOREM CmdlineTypeCorrect == Spec => []TypeOK
<1>1. ASSUME CmdlineInv, ArgsIsFunction, LevelInv, OptionInv, ParamsInv, LogInv
      PROVE  TypeOK
  <2>1. line \in Lines /\ pos \in 1..(Len(line) + 1) /\ Len(line) \in Nat
        /\ \A i \in 1..(pos - 1) : i \in 1..Len(line) /\ i \in Read
    BY <1>1, LineIsSeq DEF CmdlineInv, Read
  <2>2. ASSUME NEW key \in Single, NEW v, IsFirst(v, key, line, pos - 1)
        PROVE  /\ v \in Word \cup {None}
               /\ key \in {"root", "resume"} => v \in Sources \cup {None}
    <3>1. CASE v = None
      BY <3>1
    <3>2. ASSUME NEW i \in 1..(pos - 1), Names(line[i], key), v = line[i].words[1]
          PROVE  /\ v \in Word
                 /\ key \in {"root", "resume"} => v \in Sources
      <4>1. v \in Word
        BY <2>1, <3>2, SingleWord
      <4>2. WellFormed(line[i])
        BY <1>1, <2>1 DEF CmdlineInv
      <4>. QED  BY <3>2, <4>1, <4>2 DEF WellFormed
    <3>. QED  BY <2>2, <3>1, <3>2 DEF IsFirst
  <2>3. args.init \in Word \cup {None} /\ args.fstype \in Word \cup {None}
    BY <1>1, <2>2 DEF CmdlineInv, FirstWins, Single
  <2>4. args.resume \in Sources \cup {None}
    BY <1>1, <2>2 DEF CmdlineInv, FirstWins, Single
  <2>5. args.source \in Sources \cup {None, Autodiscovered}
    <3>1. GivenSource \in Sources \cup {None}
      BY <1>1, <2>2 DEF CmdlineInv, FirstWins, Single
    <3>. QED  BY <3>1 DEF GivenSource
  <2>6. /\ args.rw \in BOOLEAN /\ args.flags \in SUBSET MountFlags
        /\ args.options \in Seq(Word) /\ args.params \in [Modules -> Seq(Word)]
    BY <1>1 DEF OptionInv, ParamsInv
  <2>7. args \in [init : Word \cup {None}, resume : Sources \cup {None},
                  source : Sources \cup {None, Autodiscovered},
                  fstype : Word \cup {None}, rw : BOOLEAN, flags : SUBSET MountFlags,
                  options : Seq(Word), params : [Modules -> Seq(Word)]]
    <3>. DEFINE Rest == [Modules -> Seq(Word)]
    <3>. HIDE DEF Rest
    <3>1. args.params \in Rest
      BY <2>6 DEF Rest
    <3>2. args = [init |-> args.init, resume |-> args.resume, source |-> args.source,
                  fstype |-> args.fstype, rw |-> args.rw, flags |-> args.flags,
                  options |-> args.options, params |-> args.params]
      BY <1>1 DEF ArgsIsFunction, Fields
    <3>3. args \in [init : Word \cup {None}, resume : Sources \cup {None},
                    source : Sources \cup {None, Autodiscovered},
                    fstype : Word \cup {None}, rw : BOOLEAN, flags : SUBSET MountFlags,
                    options : Seq(Word), params : Rest]
      BY <2>3, <2>4, <2>5, <2>6, <3>1, <3>2
    <3>. QED  BY <3>3 DEF Rest
  <2>8. /\ stage \in {"args", "flushed", "throttle", "done", "failed", "panicked"}
        /\ level \in Levels \cup {Unset}
        /\ buffer \in Seq([level : Levels, at : Nat]) /\ threshold \in Levels
        /\ devkmsg \in {"on", "ratelimit"} /\ kmsg \in Seq([level : Levels, at : Nat])
    BY <1>1 DEF LevelInv, LogInv, Msg
  <2>. QED  BY <2>1, <2>7, <2>8 DEF TypeOK
<1>. QED
  BY <1>1, CmdlineInvariant, ArgsInvariant, LevelInvariant, OptionInvariant,
     ParamsInvariant, LogInvariant, PTL
-----------------------------------------------------------------------------
(* What root= and resume= are documented to name.                          *)

Mark == "/PARTNROFF="
Token == STRING \cup Uuid \cup Number \cup {Quote, Mark}

(* The ways to write a UUID, alone and with a number. *)
Id(u) == {<<u>>, <<Quote, u, Quote>>}
IdAndNumber(u, n) == {<<u, Mark, n>>, <<Quote, u, Quote, Mark, n>>}

LEMMA Tuples ==
  ASSUME NEW X, NEW s \in Seq(X)
  PROVE  /\ \A a : s = <<a>> <=> Len(s) = 1 /\ s[1] = a
         /\ \A a, b, c : s = <<a, b, c>> <=> Len(s) = 3 /\ s[1] = a /\ s[2] = b /\ s[3] = c
         /\ \A a, b, c, d, e : s = <<a, b, c, d, e>> <=>
              /\ Len(s) = 5 /\ s[1] = a /\ s[2] = b /\ s[3] = c /\ s[4] = d /\ s[5] = e
<1>1. \A a : s = <<a>> <=> Len(s) = 1 /\ s[1] = a
  OBVIOUS
<1>2. \A a, b, c : s = <<a, b, c>> <=> Len(s) = 3 /\ s[1] = a /\ s[2] = b /\ s[3] = c
  OBVIOUS
<1>3. \A a, b, c, d, e : s = <<a, b, c, d, e>> <=>
        /\ Len(s) = 5 /\ s[1] = a /\ s[2] = b /\ s[3] = c /\ s[4] = d /\ s[5] = e
  OBVIOUS
<1>. QED
  BY <1>1, <1>2, <1>3

LEMMA OneTuple ==
  ASSUME NEW X, NEW s \in Seq(X), NEW a, Len(s) = 1, s[1] = a
  PROVE  s = <<a>>
  OBVIOUS

LEMMA Triple ==
  ASSUME NEW X, NEW s \in Seq(X), NEW a, NEW b, NEW c,
         Len(s) = 3, s[1] = a, s[2] = b, s[3] = c
  PROVE  s = <<a, b, c>>
  OBVIOUS

LEMMA Pairs ==
  ASSUME NEW a, NEW b
  PROVE  <<a>> \o <<b>> = <<a, b>>
<1>1. <<a>> \in Seq({a, b}) /\ <<b>> \in Seq({a, b})
  OBVIOUS
<1>. DEFINE c == <<a>> \o <<b>>
<1>2. c \in Seq({a, b}) /\ Len(c) = 2 /\ c[1] = a /\ c[2] = b
  BY <1>1
<1>. HIDE DEF c
<1>3. c = <<a, b>>
  BY <1>2
<1>. QED
  BY <1>3 DEF c

LEMMA Subsequences ==
  ASSUME NEW X, NEW s \in Seq(X), NEW m \in 1..(Len(s) + 1), NEW n \in (m - 1)..Len(s)
  PROVE  /\ SubSeq(s, m, n) \in Seq(X) /\ Len(SubSeq(s, m, n)) = n - m + 1
         /\ \A k \in 1..(n - m + 1) : SubSeq(s, m, n)[k] = s[m + k - 1]
  OBVIOUS

(* uuid_from_str *)
LEMMA ParseUuidIs ==
  ASSUME NEW text \in Seq(Token), NEW kind, kind # "none"
  PROVE  /\ \A u \in Uuid : text \in Id(u) => ParseUuid(kind, text) = Source(kind, <<u>>)
         /\ ParseUuid(kind, text) # NoSource => \E u \in Uuid : text \in Id(u)
<1>. DEFINE l == Len(text)
            quoted == l >= 2 /\ text[1] = Quote /\ text[l] = Quote
            inner == SubSeq(text, 2, l - 1)
<1>1. l \in Nat
  OBVIOUS
<1>2. Unquoted(text) = IF quoted THEN inner ELSE text
  BY DEF Unquoted
<1>3. quoted => inner \in Seq(Token) /\ Len(inner) = l - 2
                /\ \A k \in 1..(l - 2) : inner[k] = text[k + 1]
  <2>. SUFFICES ASSUME quoted PROVE inner \in Seq(Token) /\ Len(inner) = l - 2
                                    /\ \A k \in 1..(l - 2) : inner[k] = text[k + 1]
    OBVIOUS
  <2>1. 2 \in 1..(l + 1) /\ l - 1 \in (2 - 1)..l /\ (l - 1) - 2 + 1 = l - 2
    BY <1>1
  <2>2. inner \in Seq(Token) /\ Len(inner) = (l - 1) - 2 + 1
        /\ \A k \in 1..((l - 1) - 2 + 1) : inner[k] = text[2 + k - 1]
    BY <2>1, Subsequences
  <2>3. \A k \in 1..(l - 2) : 2 + k - 1 = k + 1
    BY <1>1
  <2>. HIDE DEF inner
  <2>. QED  BY <2>1, <2>2, <2>3
<1>. HIDE DEF inner
<1>4. ASSUME NEW u \in Uuid
      PROVE  Unquoted(text) = <<u>> <=> text \in Id(u)
  <2>1. CASE quoted
    <3>1. inner = <<u>> <=> Len(inner) = 1 /\ inner[1] = u
      BY <1>3, <2>1, Tuples
    <3>2. text = <<Quote, u, Quote>> <=> l = 3 /\ text[2] = u
      BY <2>1, Tuples
    <3>3. text # <<u>>
      BY <2>1, Tuples
    <3>4. l = 3 => inner[1] = text[2]
      BY <1>1, <1>3, <2>1
    <3>5. Len(inner) = 1 <=> l = 3
      <4>1. Len(inner) = l - 2
        BY <1>3, <2>1
      <4>. HIDE DEF l
      <4>. QED  BY <1>1, <4>1
    <3>. QED  BY <1>2, <2>1, <3>1, <3>2, <3>3, <3>4, <3>5 DEF Id
  <2>2. CASE ~ quoted
    <3>1. ASSUME text = <<Quote, u, Quote>> PROVE FALSE
      <4>1. l = 3 /\ text[1] = Quote /\ text[3] = Quote
        BY <3>1
      <4>. QED  BY <2>2, <4>1
    <3>. QED  BY <1>2, <2>2, <3>1 DEF Id
  <2>. QED  BY <2>1, <2>2
<1>5. \A name : Source(kind, name) # NoSource
  BY DEF Source, NoSource
<1>. QED
  BY <1>4, <1>5 DEF ParseUuid

(* The first "/PARTNROFF=" of these is at its only place. *)
LEMMA ParsePartnroffIs ==
  ASSUME NEW text \in Seq(Token)
  PROVE  /\ \A u \in Uuid : text \in Id(u) =>
              ParsePartnroff(text) = Source("partuuid", <<u>>)
         /\ \A u \in Uuid, n \in Number : text \in IdAndNumber(u, n) =>
              ParsePartnroff(text) = Source("partnroff", <<u, n>>)
         /\ ParsePartnroff(text) # NoSource =>
              \E u \in Uuid : \/ text \in Id(u)
                              \/ \E n \in Number : text \in IdAndNumber(u, n)
<1>. DEFINE l == Len(text)
            places == {k \in DOMAIN text : text[k] = Mark}
            at == Min(places)
            before == SubSeq(text, 1, at - 1)
            after == After(text, at)
            uuid == ParseUuid("partuuid", before)
            numbered == \E n \in Number : after = <<n>>
<1>1. l \in Nat /\ DOMAIN text = 1..l /\ Quote # Mark /\ \A u \in Uuid : u # Mark
  BY RootSourceAssumption DEF Quote, Mark
<1>2. ParsePartnroff(text) = IF places = {} THEN ParseUuid("partuuid", text)
                             ELSE IF uuid # NoSource /\ numbered
                               THEN Source("partnroff", uuid.name \o after) ELSE NoSource
  BY DEF ParsePartnroff, Mark
<1>3. places # {} => at \in 1..l /\ text[at] = Mark /\ \A k \in places : at <= k
  <2>1. places \in SUBSET Nat
    BY <1>1
  <2>2. places # {} => at \in places /\ \A k \in places : at <= k
    <3>. HIDE DEF places
    <3>. QED  BY <2>1, MinExists
  <2>. QED  BY <1>1, <2>2
<1>4. places # {} => /\ before \in Seq(Token) /\ Len(before) = at - 1
                     /\ \A k \in 1..(at - 1) : before[k] = text[k]
                     /\ after \in Seq(Token) /\ Len(after) = l - at
                     /\ \A k \in 1..(l - at) : after[k] = text[at + k]
  <2>. SUFFICES ASSUME places # {}
                PROVE  /\ before \in Seq(Token) /\ Len(before) = at - 1
                       /\ \A k \in 1..(at - 1) : before[k] = text[k]
                       /\ after \in Seq(Token) /\ Len(after) = l - at
                       /\ \A k \in 1..(l - at) : after[k] = text[at + k]
    OBVIOUS
  <2>1. at \in 1..l
    BY <1>3
  <2>. HIDE DEF at
  <2>2. 1 \in 1..(l + 1) /\ at - 1 \in (1 - 1)..l /\ at + 1 \in 1..(l + 1)
        /\ l \in ((at + 1) - 1)..l
    BY <1>1, <2>1
  <2>3. before \in Seq(Token) /\ Len(before) = (at - 1) - 1 + 1
        /\ \A k \in 1..((at - 1) - 1 + 1) : before[k] = text[1 + k - 1]
    BY <2>2, Subsequences
  <2>4. SubSeq(text, at + 1, l) \in Seq(Token)
        /\ Len(SubSeq(text, at + 1, l)) = l - (at + 1) + 1
        /\ \A k \in 1..(l - (at + 1) + 1) : SubSeq(text, at + 1, l)[k] = text[(at + 1) + k - 1]
    BY <2>2, Subsequences
  <2>5. after = SubSeq(text, at + 1, l)
    BY DEF After
  <2>6. /\ (at - 1) - 1 + 1 = at - 1 /\ \A k \in 1..(at - 1) : 1 + k - 1 = k
        /\ l - (at + 1) + 1 = l - at /\ \A k \in 1..(l - at) : (at + 1) + k - 1 = at + k
    BY <1>1, <2>1
  <2>. HIDE DEF before, after
  <2>. QED  BY <2>3, <2>4, <2>5, <2>6
<1>. HIDE DEF at, before, after
<1>5. ASSUME NEW u \in Uuid, text \in Id(u)
      PROVE  ParsePartnroff(text) = Source("partuuid", <<u>>)
  <2>1. \A k \in 1..l : text[k] # Mark
    <3>1. CASE text = <<u>>
      BY <1>1, <3>1
    <3>2. CASE text = <<Quote, u, Quote>>
      <4>1. l = 3 /\ text[1] = Quote /\ text[2] = u /\ text[3] = Quote
        BY <3>2
      <4>. QED  BY <1>1, <4>1
    <3>. QED  BY <1>5, <3>1, <3>2 DEF Id
  <2>2. places = {}
    BY <1>1, <2>1
  <2>. QED  BY <1>2, <1>5, <2>2, ParseUuidIs
<1>6. ASSUME NEW u \in Uuid, NEW n \in Number, text \in IdAndNumber(u, n)
      PROVE  ParsePartnroff(text) = Source("partnroff", <<u, n>>)
  <2>1. /\ places # {} /\ l - at = 1 /\ text[l] = n
        /\ \/ at = 2 /\ text[1] = u
           \/ at = 4 /\ text[1] = Quote /\ text[2] = u /\ text[3] = Quote
    <3>1. CASE text = <<u, Mark, n>>
      <4>1. l = 3 /\ text[1] = u /\ text[2] = Mark /\ text[3] = n
        BY <3>1
      <4>2. 2 \in places
        BY <1>1, <4>1
      <4>3. at = 2
        BY <1>1, <1>3, <4>1, <4>2
      <4>. QED  BY <4>1, <4>2, <4>3
    <3>2. CASE text = <<Quote, u, Quote, Mark, n>>
      <4>1. l = 5 /\ text[1] = Quote /\ text[2] = u /\ text[3] = Quote /\ text[4] = Mark
            /\ text[5] = n
        BY <3>2
      <4>2. 4 \in places
        BY <1>1, <4>1
      <4>3. at = 4
        BY <1>1, <1>3, <4>1, <4>2
      <4>. QED  BY <4>1, <4>2, <4>3
    <3>. QED  BY <1>6, <3>1, <3>2 DEF IdAndNumber
  <2>2. after = <<n>>
    <3>1. Len(after) = 1 /\ after[1] = n /\ after \in Seq(Token)
      <4>1. at + 1 = l /\ 1 \in 1..(l - at)
        BY <1>1, <1>3, <2>1
      <4>. QED  BY <1>4, <2>1, <4>1
    <3>. QED  BY <3>1, Tuples
  <2>3. before \in Id(u) /\ before \in Seq(Token)
    <3>1. before \in Seq(Token) /\ Len(before) = at - 1
          /\ \A k \in 1..(at - 1) : before[k] = text[k]
      BY <1>4, <2>1
    <3>2. CASE at = 2
      <4>1. Len(before) = 1 /\ before[1] = u
        BY <2>1, <3>1, <3>2
      <4>2. before = <<u>>
        BY <3>1, <4>1, OneTuple
      <4>. QED  BY <3>1, <4>2 DEF Id
    <3>3. CASE at = 4
      <4>1. Len(before) = 3 /\ before[1] = Quote /\ before[2] = u /\ before[3] = Quote
        <5>1. 1 \in 1..(at - 1) /\ 2 \in 1..(at - 1) /\ 3 \in 1..(at - 1)
          BY <3>3
        <5>2. text[1] = Quote /\ text[2] = u /\ text[3] = Quote
          BY <2>1, <3>3
        <5>. QED  BY <3>1, <3>3, <5>1, <5>2
      <4>2. before \in Seq(Token)
        BY <3>1
      <4>3. before = <<Quote, u, Quote>>
        BY <4>1, <4>2, Triple
      <4>. QED  BY <3>1, <4>3 DEF Id
    <3>. QED  BY <2>1, <3>2, <3>3
  <2>4. uuid = Source("partuuid", <<u>>)
    BY <2>3, ParseUuidIs
  <2>5. uuid # NoSource /\ uuid.name = <<u>>
    BY <2>4 DEF Source, NoSource
  <2>6. uuid.name \o after = <<u, n>>
    <3>1. <<u>> \o <<n>> = <<u, n>>
      BY Pairs
    <3>. HIDE DEF uuid
    <3>. QED  BY <2>2, <2>5, <3>1
  <2>. QED  BY <1>2, <2>1, <2>2, <2>5, <2>6
<1>7. ASSUME ParsePartnroff(text) # NoSource
      PROVE  \E u \in Uuid : text \in Id(u) \/ \E n \in Number : text \in IdAndNumber(u, n)
  <2>1. CASE places = {}
    <3>1. ParseUuid("partuuid", text) # NoSource
      BY <1>2, <1>7, <2>1
    <3>. QED  BY <3>1, ParseUuidIs
  <2>2. CASE places # {}
    <3>1. uuid # NoSource /\ numbered
      BY <1>2, <1>7, <2>2
    <3>2. PICK u \in Uuid : before \in Id(u)
      BY <1>4, <2>2, <3>1, ParseUuidIs
    <3>3. PICK n \in Number : after = <<n>>
      BY <3>1
    <3>4. Len(after) = 1 /\ after[1] = n
      BY <3>3
    <3>5. l = at + 1 /\ text[at + 1] = n /\ text[at] = Mark
      <4>1. l - at = 1 /\ 1 \in 1..(l - at)
        BY <1>4, <2>2, <3>4
      <4>. QED  BY <1>1, <1>3, <1>4, <2>2, <3>4, <4>1
    <3>6. CASE before = <<u>>
      <4>1. Len(before) = 1 /\ before[1] = u
        BY <3>6
      <4>2. at - 1 = 1 /\ at = 2 /\ 1 \in 1..(at - 1)
        BY <1>3, <1>4, <2>2, <4>1
      <4>3. l = 3 /\ text[1] = u /\ text[2] = Mark /\ text[3] = n
        BY <1>4, <2>2, <3>5, <4>1, <4>2
      <4>4. text = <<u, Mark, n>>
        BY <4>3, Tuples
      <4>. QED  BY <4>4 DEF IdAndNumber
    <3>7. CASE before = <<Quote, u, Quote>>
      <4>1. Len(before) = 3 /\ before[1] = Quote /\ before[2] = u /\ before[3] = Quote
        BY <3>7
      <4>2. at - 1 = 3 /\ at = 4 /\ 1 \in 1..(at - 1) /\ 2 \in 1..(at - 1) /\ 3 \in 1..(at - 1)
        BY <1>3, <1>4, <2>2, <4>1
      <4>3. l = 5 /\ text[1] = Quote /\ text[2] = u /\ text[3] = Quote /\ text[4] = Mark
            /\ text[5] = n
        BY <1>4, <2>2, <3>5, <4>1, <4>2
      <4>4. text = <<Quote, u, Quote, Mark, n>>
        BY <4>3, Tuples
      <4>. QED  BY <4>4 DEF IdAndNumber
    <3>. QED  BY <3>2, <3>6, <3>7 DEF Id
  <2>. QED  BY <2>1, <2>2
<1>. QED
  BY <1>5, <1>6, <1>7
LEMMA PrefixTokens ==
  ASSUME NEW X, NEW v \in Seq(X)
  PROVE  /\ \A x : IsPrefix(<<x>>, v) <=> Len(v) >= 1 /\ v[1] = x
         /\ \A x, y : IsPrefix(<<x, y>>, v) <=> Len(v) >= 2 /\ v[1] = x /\ v[2] = y
<1>. DEFINE l == Len(v)
<1>1. l \in Nat
  OBVIOUS
<1>2. ASSUME NEW Y, NEW s \in Seq(Y)
      PROVE  IsPrefix(s, v) <=> Len(s) <= l /\ \A k \in 1..Len(s) : s[k] = v[k]
  <2>. DEFINE n == Len(s)
              c == SubSeq(v, 1, n)
  <2>1. SubSeq(s, 1, n) = s /\ n \in Nat
    OBVIOUS
  <2>2. IsPrefix(s, v) <=> n <= l /\ s = c
    BY <2>1 DEF IsPrefix
  <2>. HIDE DEF c, l
  <2>3. n <= l => c \in Seq(X) /\ Len(c) = n /\ \A k \in 1..n : c[k] = v[k]
    <3>. SUFFICES ASSUME n <= l
                  PROVE  c \in Seq(X) /\ Len(c) = n /\ \A k \in 1..n : c[k] = v[k]
      OBVIOUS
    <3>. HIDE DEF n
    <3>1. 1 \in 1..(l + 1) /\ n \in (1 - 1)..l /\ n - 1 + 1 = n /\ \A k \in 1..n : 1 + k - 1 = k
      BY <1>1, <2>1
    <3>2. /\ c \in Seq(X) /\ Len(c) = n - 1 + 1
          /\ \A k \in 1..(n - 1 + 1) : c[k] = v[1 + k - 1]
      BY <3>1, Subsequences DEF c, l
    <3>. QED  BY <3>1, <3>2
  <2>4. n <= l => (s = c <=> \A k \in 1..n : s[k] = v[k])
    BY <2>3
  <2>. QED  BY <2>2, <2>4
<1>3. ASSUME NEW x PROVE IsPrefix(<<x>>, v) <=> l >= 1 /\ v[1] = x
  <2>. DEFINE s == <<x>>
  <2>1. s \in Seq({x}) /\ Len(s) = 1 /\ s[1] = x
    OBVIOUS
  <2>2. \A k \in 1..1 : k = 1
    OBVIOUS
  <2>. HIDE DEF s, l
  <2>3. IsPrefix(s, v) <=> 1 <= l /\ \A k \in 1..1 : s[k] = v[k]
    BY <1>2, <2>1
  <2>4. 1 \in 1..1
    OBVIOUS
  <2>5. IsPrefix(s, v) <=> l >= 1 /\ v[1] = x
    BY <1>1, <2>1, <2>2, <2>3, <2>4
  <2>. QED  BY <2>5 DEF s
<1>4. ASSUME NEW x, NEW y PROVE IsPrefix(<<x, y>>, v) <=> l >= 2 /\ v[1] = x /\ v[2] = y
  <2>. DEFINE s == <<x, y>>
  <2>1. s \in Seq({x, y}) /\ Len(s) = 2 /\ s[1] = x /\ s[2] = y
    OBVIOUS
  <2>2. 1 \in 1..2 /\ 2 \in 1..2 /\ \A k \in 1..2 : k = 1 \/ k = 2
    OBVIOUS
  <2>. HIDE DEF s, l
  <2>3. IsPrefix(s, v) <=> 2 <= l /\ \A k \in 1..2 : s[k] = v[k]
    BY <1>2, <2>1
  <2>4. IsPrefix(s, v) <=> l >= 2 /\ v[1] = x /\ v[2] = y
    BY <1>1, <2>1, <2>2, <2>3
  <2>. QED  BY <2>4 DEF s
<1>. QED
  BY <1>3, <1>4

LEMMA AfterHead ==
  ASSUME NEW X, NEW v \in Seq(X), Len(v) >= 1
  PROVE  /\ After(v, 1) \in Seq(X) /\ Len(After(v, 1)) = Len(v) - 1
         /\ \A k \in 1..(Len(v) - 1) : After(v, 1)[k] = v[k + 1]
<1>. DEFINE l == Len(v)
<1>1. l \in Nat /\ 1 + 1 \in 1..(l + 1) /\ l \in ((1 + 1) - 1)..l
  OBVIOUS
<1>2. After(v, 1) = SubSeq(v, 1 + 1, l)
  BY DEF After
<1>3. /\ SubSeq(v, 1 + 1, l) \in Seq(X) /\ Len(SubSeq(v, 1 + 1, l)) = l - (1 + 1) + 1
      /\ \A k \in 1..(l - (1 + 1) + 1) : SubSeq(v, 1 + 1, l)[k] = v[(1 + 1) + k - 1]
  BY <1>1, Subsequences
<1>4. l - (1 + 1) + 1 = l - 1 /\ \A k \in 1..(l - 1) : (1 + 1) + k - 1 = k + 1
  BY <1>1
<1>. HIDE DEF l
<1>5. \A k \in 1..(l - 1) : SubSeq(v, 1 + 1, l)[k] = v[k + 1]
  BY <1>3, <1>4
<1>. QED
  BY <1>2, <1>3, <1>4, <1>5 DEF l

LEMMA HeadAndRest ==
  ASSUME NEW X, NEW v \in Seq(X), NEW x, NEW t \in Seq(X)
  PROVE  v = <<x>> \o t <=> Len(v) >= 1 /\ v[1] = x /\ After(v, 1) = t
<1>. DEFINE Y == X \cup {x}
            c == <<x>> \o t
            l == Len(t)
<1>1. <<x>> \in Seq(Y) /\ t \in Seq(Y) /\ l \in Nat
  OBVIOUS
<1>2. c \in Seq(Y) /\ Len(c) = l + 1 /\ c[1] = x /\ \A k \in 1..l : c[k + 1] = t[k]
  <2>. HIDE DEF Y
  <2>. QED  BY <1>1
<1>. HIDE DEF c
<1>3. ASSUME v = c PROVE Len(v) >= 1 /\ v[1] = x /\ After(v, 1) = t
  <2>1. Len(v) = l + 1 /\ v[1] = x /\ Len(v) >= 1 /\ Len(v) - 1 = l
    BY <1>1, <1>2, <1>3
  <2>. DEFINE r == After(v, 1)
  <2>2. r \in Seq(X) /\ Len(r) = l /\ \A k \in 1..l : r[k] = v[k + 1]
    BY <2>1, AfterHead
  <2>. HIDE DEF r
  <2>3. \A k \in 1..l : r[k] = t[k]
    BY <1>2, <1>3, <2>2
  <2>4. r = t
    BY <2>2, <2>3
  <2>. QED  BY <2>1, <2>4 DEF r
<1>4. ASSUME Len(v) >= 1, v[1] = x, After(v, 1) = t PROVE v = c
  <2>1. Len(t) = Len(v) - 1 /\ \A k \in 1..(Len(v) - 1) : t[k] = v[k + 1]
    BY <1>4, AfterHead
  <2>2. Len(v) \in Nat /\ Len(v) = l + 1 /\ v \in Seq(Y)
    BY <2>1
  <2>3. ASSUME NEW k \in 1..(l + 1) PROVE v[k] = c[k]
    <3>1. CASE k = 1
      BY <1>2, <1>4, <3>1
    <3>2. CASE k # 1
      <4>1. k - 1 \in 1..l /\ (k - 1) + 1 = k
        BY <1>1, <3>2
      <4>2. t[k - 1] = v[k] /\ c[k] = t[k - 1]
        <5>1. k - 1 \in 1..(Len(v) - 1)
          BY <2>2, <4>1
        <5>2. t[k - 1] = v[(k - 1) + 1]
          BY <2>1, <5>1
        <5>3. c[(k - 1) + 1] = t[k - 1]
          BY <1>2, <4>1
        <5>. QED  BY <4>1, <5>2, <5>3
      <4>. QED  BY <4>2
    <3>. QED  BY <3>1, <3>2
  <2>. HIDE DEF Y, l
  <2>. QED  BY <1>1, <1>2, <2>2, <2>3
<1>. QED
  BY <1>3, <1>4 DEF c

(* Apart from the links, the first token decides which arm it is. *)
LEMMA ParseByHead ==
  ASSUME NEW v \in Seq(Token), ~ IsLink(v)
  PROVE  /\ v = <<>> => Parse(v) = NoSource
         /\ v # <<>> =>
              Parse(v) =
                IF v[1] = "UUID=" THEN ParseUuid("uuid", After(v, 1))
                ELSE IF v[1] = "LABEL=" THEN Source("label", After(v, 1))
                ELSE IF v[1] = "PARTUUID=" THEN ParsePartnroff(After(v, 1))
                ELSE IF v[1] = "PARTLABEL=" THEN Source("partlabel", After(v, 1))
                ELSE IF v[1] = "/dev/" THEN Source("raw", v) ELSE NoSource
<1>. DEFINE F(a) == {i \in DOMAIN Arms[a].prefixes : IsPrefix(Arms[a].prefixes[i], v)}
            One(x) == Len(v) >= 1 /\ v[1] = x
            fitting == {a \in DOMAIN Arms : F(a) # {}}
<1>1. /\ Len(v) \in Nat /\ (v = <<>> <=> ~ (Len(v) >= 1))
      /\ \A x : IsPrefix(<<x>>, v) <=> One(x)
  BY PrefixTokens
<1>2. /\ ~ IsPrefix(ByDisk("disk/by-uuid"), v) /\ ~ IsPrefix(ByDisk("disk/by-label"), v)
      /\ ~ IsPrefix(ByDisk("disk/by-partuuid"), v) /\ ~ IsPrefix(ByDisk("disk/by-partlabel"), v)
  BY DEF IsLink
<1>3. /\ DOMAIN Arms = 1..6
      /\ Arms[1].prefixes = <<<<"UUID=">>, ByDisk("disk/by-uuid")>> /\ Arms[1].kind = "uuid"
      /\ Arms[2].prefixes = <<<<"LABEL=">>, ByDisk("disk/by-label")>> /\ Arms[2].kind = "label"
      /\ Arms[3].prefixes = <<<<"PARTUUID=">>>> /\ Arms[3].kind = "partnroff"
      /\ Arms[4].prefixes = <<ByDisk("disk/by-partuuid")>>
      /\ Arms[5].prefixes = <<<<"PARTLABEL=">>, ByDisk("disk/by-partlabel")>>
      /\ Arms[5].kind = "partlabel"
      /\ Arms[6].prefixes = <<<<"/dev/">>>> /\ Arms[6].kind = "raw"
  BY DEF Arms
<1>4. F(1) = IF One("UUID=") THEN {1} ELSE {}
  BY <1>1, <1>2, <1>3
<1>5. F(2) = IF One("LABEL=") THEN {1} ELSE {}
  BY <1>1, <1>2, <1>3
<1>6. F(3) = IF One("PARTUUID=") THEN {1} ELSE {}
  BY <1>1, <1>3
<1>7. F(4) = {}
  BY <1>2, <1>3
<1>8. F(5) = IF One("PARTLABEL=") THEN {1} ELSE {}
  BY <1>1, <1>2, <1>3
<1>9. F(6) = IF One("/dev/") THEN {1} ELSE {}
  BY <1>1, <1>3
<1>10. Parse(v) = IF fitting = {} THEN NoSource
                  ELSE ParseText(Arms[Min(fitting)].kind, v,
                                 After(v, Len(Arms[Min(fitting)].prefixes[Min(F(Min(fitting)))])))
  BY DEF Parse
<1>11. ASSUME NEW a \in 1..6, NEW x, F(a) = {1}, Arms[a].prefixes[1] = <<x>>,
              \A b \in 1..6 : F(b) # {} => b = a
       PROVE  Parse(v) = ParseText(Arms[a].kind, v, After(v, 1))
  <2>1. fitting = {a}
    BY <1>3, <1>11
  <2>2. Min({a}) = a /\ Min({1}) = 1
    BY MinIs
  <2>3. Len(<<x>>) = 1
    OBVIOUS
  <2>. HIDE DEF F, fitting
  <2>4. fitting # {} /\ Min(fitting) = a /\ Min(F(a)) = 1
    BY <1>11, <2>1, <2>2
  <2>. QED  BY <1>10, <1>11, <2>3, <2>4
<1>. HIDE DEF F
<1>12. \A a \in 1..6 : a \in {1, 2, 3, 4, 5, 6}
  OBVIOUS
<1>13. CASE v = <<>>
  <2>1. fitting = {}
    BY <1>1, <1>3, <1>4, <1>5, <1>6, <1>7, <1>8, <1>9, <1>12, <1>13
  <2>. QED  BY <1>10, <1>13, <2>1
<1>14. CASE One("UUID=")
  <2>1. Parse(v) = ParseText("uuid", v, After(v, 1))
    BY <1>3, <1>4, <1>5, <1>6, <1>7, <1>8, <1>9, <1>11, <1>12, <1>14
  <2>. QED  BY <1>1, <1>14, <2>1 DEF ParseText
<1>15. CASE One("LABEL=")
  <2>1. Parse(v) = ParseText("label", v, After(v, 1))
    BY <1>3, <1>4, <1>5, <1>6, <1>7, <1>8, <1>9, <1>11, <1>12, <1>15
  <2>. QED  BY <1>1, <1>15, <2>1 DEF ParseText
<1>16. CASE One("PARTUUID=")
  <2>1. Parse(v) = ParseText("partnroff", v, After(v, 1))
    BY <1>3, <1>4, <1>5, <1>6, <1>7, <1>8, <1>9, <1>11, <1>12, <1>16
  <2>. QED  BY <1>1, <1>16, <2>1 DEF ParseText
<1>17. CASE One("PARTLABEL=")
  <2>1. Parse(v) = ParseText("partlabel", v, After(v, 1))
    BY <1>3, <1>4, <1>5, <1>6, <1>7, <1>8, <1>9, <1>11, <1>12, <1>17
  <2>. QED  BY <1>1, <1>17, <2>1 DEF ParseText
<1>18. CASE One("/dev/")
  <2>1. Parse(v) = ParseText("raw", v, After(v, 1))
    BY <1>3, <1>4, <1>5, <1>6, <1>7, <1>8, <1>9, <1>11, <1>12, <1>18
  <2>. QED  BY <1>1, <1>18, <2>1 DEF ParseText
<1>19. CASE v # <<>> /\ v[1] \notin {"UUID=", "LABEL=", "PARTUUID=", "PARTLABEL=", "/dev/"}
  <2>1. fitting = {}
    BY <1>1, <1>3, <1>4, <1>5, <1>6, <1>7, <1>8, <1>9, <1>12, <1>19
  <2>. QED  BY <1>10, <1>19, <2>1
<1>. QED
  BY <1>1, <1>13, <1>14, <1>15, <1>16, <1>17, <1>18, <1>19
LEMMA Joined ==
  ASSUME NEW X, NEW s \in Seq(X), NEW t \in Seq(X)
  PROVE  /\ s \o t \in Seq(X) /\ Len(s \o t) = Len(s) + Len(t)
         /\ \A k \in 1..Len(s) : (s \o t)[k] = s[k]
         /\ \A k \in 1..Len(t) : (s \o t)[Len(s) + k] = t[k]
  OBVIOUS

Begins(v, x) == Len(v) >= 1 /\ v[1] = x

LEMMA AfterNothing == After(<<>>, 1) = <<>>
  BY DEF After

(* The ways to write each source are those of the documentation (Spelt). *)
LEMMA SpeltIs ==
  ASSUME NEW v \in Seq(Token)
  PROVE  /\ \A u \in Uuid : (\E q \in BOOLEAN : v = Spelt(Source("uuid", <<u>>), q)) <=>
                              Begins(v, "UUID=") /\ After(v, 1) \in Id(u)
         /\ \A u \in Uuid : (\E q \in BOOLEAN : v = Spelt(Source("partuuid", <<u>>), q)) <=>
                              Begins(v, "PARTUUID=") /\ After(v, 1) \in Id(u)
         /\ \A u \in Uuid, n \in Number :
              (\E q \in BOOLEAN : v = Spelt(Source("partnroff", <<u, n>>), q)) <=>
                Begins(v, "PARTUUID=") /\ After(v, 1) \in IdAndNumber(u, n)
         /\ (\E q \in BOOLEAN : v = Spelt(Source("label", After(v, 1)), q)) <=> Begins(v, "LABEL=")
         /\ (\E q \in BOOLEAN : v = Spelt(Source("partlabel", After(v, 1)), q)) <=>
              Begins(v, "PARTLABEL=")
<1>1. ASSUME NEW x, NEW t \in Seq(Token)
      PROVE  v = <<x>> \o t <=> Begins(v, x) /\ After(v, 1) = t
  BY <1>1, HeadAndRest DEF Begins
<1>2. Quote \in Token /\ Mark \in Token /\ Uuid \subseteq Token /\ Number \subseteq Token
  BY DEF Token
<1>3. ASSUME NEW u \in Uuid
      PROVE  <<u>> \in Seq(Token) /\ <<Quote, u, Quote>> \in Seq(Token)
  <2>1. u \in Token
    BY <1>2
  <2>. QED  BY <1>2, <2>1
<1>4. ASSUME NEW u \in Uuid, NEW n \in Number, NEW x
      PROVE  /\ <<u, Mark, n>> \in Seq(Token) /\ <<Quote, u, Quote, Mark, n>> \in Seq(Token)
             /\ <<x>> \o <<u>> \o <<Mark, n>> = <<x>> \o <<u, Mark, n>>
             /\ <<x>> \o <<Quote, u, Quote>> \o <<Mark, n>> =
                  <<x>> \o <<Quote, u, Quote, Mark, n>>
  <2>. DEFINE Y == Token \cup {x}
              one == <<u>>
              three == <<Quote, u, Quote>>
              two == <<Mark, n>>
  <2>1. u \in Token /\ n \in Token /\ Quote \in Token /\ Mark \in Token
    BY <1>2
  <2>2. /\ <<u, Mark, n>> \in Seq(Token) /\ <<Quote, u, Quote, Mark, n>> \in Seq(Token)
    BY <2>1
  <2>3. /\ one \in Seq(Token) /\ two \in Seq(Token) /\ three \in Seq(Token)
        /\ one \in Seq(Y) /\ two \in Seq(Y) /\ three \in Seq(Y) /\ <<x>> \in Seq(Y)
    BY <2>1
  <2>4. \A a, b, c \in Seq(Y) : (a \o b) \o c = a \o (b \o c)
    <3>. HIDE DEF Y
    <3>. QED  BY ConcatAssociative
  <2>5. one \o two = <<u, Mark, n>>
    <3>. DEFINE s == one \o two
    <3>1. s \in Seq(Token) /\ Len(s) = 3 /\ s[1] = u /\ s[2] = Mark /\ s[3] = n
      <4>1. Len(one) = 1 /\ Len(two) = 2 /\ one[1] = u /\ two[1] = Mark /\ two[2] = n
        OBVIOUS
      <4>2. /\ s \in Seq(Token) /\ Len(s) = Len(one) + Len(two)
            /\ \A k \in 1..Len(one) : s[k] = one[k]
            /\ \A k \in 1..Len(two) : s[Len(one) + k] = two[k]
        <5>. HIDE DEF one, two
        <5>. QED  BY <2>3, Joined
      <4>. HIDE DEF one, two, s
      <4>3. s[1] = one[1] /\ s[1 + 1] = two[1] /\ s[1 + 2] = two[2] /\ Len(s) = 3
        BY <4>1, <4>2
      <4>. QED  BY <4>1, <4>2, <4>3
    <3>. HIDE DEF s
    <3>2. s = <<u, Mark, n>>
      BY <3>1, Tuples
    <3>. QED  BY <3>2 DEF s
  <2>6. three \o two = <<Quote, u, Quote, Mark, n>>
    <3>. DEFINE s == three \o two
    <3>1. s \in Seq(Token) /\ Len(s) = 5 /\ s[1] = Quote /\ s[2] = u /\ s[3] = Quote
          /\ s[4] = Mark /\ s[5] = n
      <4>1. /\ Len(three) = 3 /\ Len(two) = 2 /\ two[1] = Mark /\ two[2] = n
            /\ three[1] = Quote /\ three[2] = u /\ three[3] = Quote
        OBVIOUS
      <4>2. /\ s \in Seq(Token) /\ Len(s) = Len(three) + Len(two)
            /\ \A k \in 1..Len(three) : s[k] = three[k]
            /\ \A k \in 1..Len(two) : s[Len(three) + k] = two[k]
        <5>. HIDE DEF three, two
        <5>. QED  BY <2>3, Joined
      <4>. HIDE DEF three, two, s
      <4>3. s[1] = three[1] /\ s[2] = three[2] /\ s[3] = three[3] /\ s[3 + 1] = two[1]
            /\ s[3 + 2] = two[2] /\ Len(s) = 5
        BY <4>1, <4>2
      <4>. QED  BY <4>1, <4>2, <4>3
    <3>. HIDE DEF s
    <3>2. s = <<Quote, u, Quote, Mark, n>>
      BY <3>1, Tuples
    <3>. QED  BY <3>2 DEF s
  <2>7. (<<x>> \o one) \o two = <<x>> \o (one \o two)
    <3>. HIDE DEF Y, one, two
    <3>. QED  BY <2>3, <2>4
  <2>8. (<<x>> \o three) \o two = <<x>> \o (three \o two)
    <3>. HIDE DEF Y, three, two
    <3>. QED  BY <2>3, <2>4
  <2>. QED  BY <2>2, <2>5, <2>6, <2>7, <2>8
<1>6. ASSUME NEW u \in Uuid
      PROVE  (\E q \in BOOLEAN : v = Spelt(Source("uuid", <<u>>), q)) <=>
               Begins(v, "UUID=") /\ After(v, 1) \in Id(u)
  <2>1. /\ Spelt(Source("uuid", <<u>>), TRUE) = <<"UUID=">> \o <<Quote, u, Quote>>
        /\ Spelt(Source("uuid", <<u>>), FALSE) = <<"UUID=">> \o <<u>>
    BY DEF Spelt, Source
  <2>2. (\E q \in BOOLEAN : v = Spelt(Source("uuid", <<u>>), q)) <=>
          \/ v = <<"UUID=">> \o <<Quote, u, Quote>>
          \/ v = <<"UUID=">> \o <<u>>
    BY <2>1
  <2>. QED  BY <1>1, <1>3, <2>2 DEF Id
<1>7. ASSUME NEW u \in Uuid
      PROVE  (\E q \in BOOLEAN : v = Spelt(Source("partuuid", <<u>>), q)) <=>
               Begins(v, "PARTUUID=") /\ After(v, 1) \in Id(u)
  <2>1. /\ Spelt(Source("partuuid", <<u>>), TRUE) = <<"PARTUUID=">> \o <<Quote, u, Quote>>
        /\ Spelt(Source("partuuid", <<u>>), FALSE) = <<"PARTUUID=">> \o <<u>>
    BY DEF Spelt, Source
  <2>2. (\E q \in BOOLEAN : v = Spelt(Source("partuuid", <<u>>), q)) <=>
          \/ v = <<"PARTUUID=">> \o <<Quote, u, Quote>>
          \/ v = <<"PARTUUID=">> \o <<u>>
    BY <2>1
  <2>. QED  BY <1>1, <1>3, <2>2 DEF Id
<1>8. ASSUME NEW u \in Uuid, NEW n \in Number
      PROVE  (\E q \in BOOLEAN : v = Spelt(Source("partnroff", <<u, n>>), q)) <=>
               Begins(v, "PARTUUID=") /\ After(v, 1) \in IdAndNumber(u, n)
  <2>1. /\ Spelt(Source("partnroff", <<u, n>>), TRUE) =
             <<"PARTUUID=">> \o <<Quote, u, Quote>> \o <<Mark, n>>
        /\ Spelt(Source("partnroff", <<u, n>>), FALSE) = <<"PARTUUID=">> \o <<u>> \o <<Mark, n>>
    BY DEF Spelt, Source, Mark
  <2>2. (\E q \in BOOLEAN : v = Spelt(Source("partnroff", <<u, n>>), q)) <=>
          \/ v = <<"PARTUUID=">> \o <<Quote, u, Quote, Mark, n>>
          \/ v = <<"PARTUUID=">> \o <<u, Mark, n>>
    BY <1>4, <2>1
  <2>. QED  BY <1>1, <1>4, <2>2 DEF IdAndNumber
<1>9. ASSUME NEW x
      PROVE  v = <<x>> \o After(v, 1) <=> Begins(v, x)
  <2>1. CASE Len(v) >= 1
    <3>1. After(v, 1) \in Seq(Token)
      BY <2>1, AfterHead
    <3>. QED  BY <1>1, <3>1
  <2>2. CASE ~ (Len(v) >= 1)
    <3>1. v = <<>>
      BY <2>2
    <3>2. After(v, 1) = <<>> /\ <<>> \in Seq(Token)
      BY <3>1, AfterNothing
    <3>. QED  BY <1>1, <2>2, <3>2 DEF Begins
  <2>. QED  BY <2>1, <2>2
<1>10. (\E q \in BOOLEAN : v = Spelt(Source("label", After(v, 1)), q)) <=> Begins(v, "LABEL=")
  <2>1. \A q \in BOOLEAN : Spelt(Source("label", After(v, 1)), q) = <<"LABEL=">> \o After(v, 1)
    BY DEF Spelt, Source
  <2>. QED  BY <1>9, <2>1
<1>11. (\E q \in BOOLEAN : v = Spelt(Source("partlabel", After(v, 1)), q)) <=>
         Begins(v, "PARTLABEL=")
  <2>1. \A q \in BOOLEAN :
          Spelt(Source("partlabel", After(v, 1)), q) = <<"PARTLABEL=">> \o After(v, 1)
    BY DEF Spelt, Source
  <2>. QED  BY <1>9, <2>1
<1>. QED
  BY <1>6, <1>7, <1>8, <1>10, <1>11
LEMMA MeaningsIs ==
  ASSUME NEW v \in Seq(Token), NEW s
  PROVE  s \in Meanings(v) <=>
           \/ \E u \in Uuid : /\ s = Source("uuid", <<u>>)
                              /\ Begins(v, "UUID=") /\ After(v, 1) \in Id(u)
           \/ \E u \in Uuid : /\ s = Source("partuuid", <<u>>)
                              /\ Begins(v, "PARTUUID=") /\ After(v, 1) \in Id(u)
           \/ \E u \in Uuid, n \in Number :
                /\ s = Source("partnroff", <<u, n>>)
                /\ Begins(v, "PARTUUID=") /\ After(v, 1) \in IdAndNumber(u, n)
           \/ s = Source("label", After(v, 1)) /\ Begins(v, "LABEL=")
           \/ s = Source("partlabel", After(v, 1)) /\ Begins(v, "PARTLABEL=")
           \/ s = Source("raw", v) /\ Begins(v, "/dev/")
<1>. DEFINE Ids == [kind : {"uuid", "partuuid"}, name : {<<u>> : u \in Uuid}]
            Numbered == [kind : {"partnroff"}, name : {<<u, n>> : u \in Uuid, n \in Number}]
            Labels == [kind : {"label", "partlabel"}, name : {After(v, 1)}]
            Written == \E q \in BOOLEAN : v = Spelt(s, q)
<1>1. s \in Meanings(v) <=>
        \/ s \in Ids /\ Written
        \/ s \in Numbered /\ Written
        \/ s \in Labels /\ Written
        \/ s = Source("raw", v) /\ Begins(v, "/dev/")
  <2>1. IsPrefix(<<"/dev/">>, v) <=> Begins(v, "/dev/")
    BY PrefixTokens DEF Begins
  <2>2. s \in Meanings(v) <=>
          \/ s \in Ids \cup Numbered \cup Labels /\ Written
          \/ s = Source("raw", v) /\ IsPrefix(<<"/dev/">>, v)
    BY DEF Meanings
  <2>. HIDE DEF Ids, Numbered, Labels, Written
  <2>. QED  BY <2>1, <2>2
<1>2. s \in Ids <=> \E u \in Uuid : s = Source("uuid", <<u>>) \/ s = Source("partuuid", <<u>>)
  BY DEF Source
<1>3. s \in Numbered <=> \E u \in Uuid, n \in Number : s = Source("partnroff", <<u, n>>)
  BY DEF Source
<1>4. s \in Labels <=> s = Source("label", After(v, 1)) \/ s = Source("partlabel", After(v, 1))
  BY DEF Source
<1>. HIDE DEF Ids, Numbered, Labels
<1>5. ASSUME NEW u \in Uuid, s = Source("uuid", <<u>>)
      PROVE  Written <=> Begins(v, "UUID=") /\ After(v, 1) \in Id(u)
  <2>1. (\E q \in BOOLEAN : v = Spelt(Source("uuid", <<u>>), q)) <=>
          Begins(v, "UUID=") /\ After(v, 1) \in Id(u)
    BY SpeltIs
  <2>. QED  BY <1>5, <2>1
<1>6. ASSUME NEW u \in Uuid, s = Source("partuuid", <<u>>)
      PROVE  Written <=> Begins(v, "PARTUUID=") /\ After(v, 1) \in Id(u)
  <2>1. (\E q \in BOOLEAN : v = Spelt(Source("partuuid", <<u>>), q)) <=>
          Begins(v, "PARTUUID=") /\ After(v, 1) \in Id(u)
    BY SpeltIs
  <2>. QED  BY <1>6, <2>1
<1>7. ASSUME NEW u \in Uuid, NEW n \in Number, s = Source("partnroff", <<u, n>>)
      PROVE  Written <=> Begins(v, "PARTUUID=") /\ After(v, 1) \in IdAndNumber(u, n)
  <2>1. (\E q \in BOOLEAN : v = Spelt(Source("partnroff", <<u, n>>), q)) <=>
          Begins(v, "PARTUUID=") /\ After(v, 1) \in IdAndNumber(u, n)
    BY SpeltIs
  <2>. QED  BY <1>7, <2>1
<1>8. s = Source("label", After(v, 1)) => (Written <=> Begins(v, "LABEL="))
  BY SpeltIs
<1>9. s = Source("partlabel", After(v, 1)) => (Written <=> Begins(v, "PARTLABEL="))
  BY SpeltIs
<1>. HIDE DEF Written
<1>10. s \in Ids /\ Written <=>
         \/ \E u \in Uuid : /\ s = Source("uuid", <<u>>)
                            /\ Begins(v, "UUID=") /\ After(v, 1) \in Id(u)
         \/ \E u \in Uuid : /\ s = Source("partuuid", <<u>>)
                            /\ Begins(v, "PARTUUID=") /\ After(v, 1) \in Id(u)
  BY <1>2, <1>5, <1>6
<1>11. s \in Numbered /\ Written <=>
         \E u \in Uuid, n \in Number :
           /\ s = Source("partnroff", <<u, n>>)
           /\ Begins(v, "PARTUUID=") /\ After(v, 1) \in IdAndNumber(u, n)
  BY <1>3, <1>7
<1>12. s \in Labels /\ Written <=>
         \/ s = Source("label", After(v, 1)) /\ Begins(v, "LABEL=")
         \/ s = Source("partlabel", After(v, 1)) /\ Begins(v, "PARTLABEL=")
  BY <1>4, <1>8, <1>9
<1>. QED
  BY <1>1, <1>10, <1>11, <1>12

(* parse accepts a value, but for the links, just when it is written as     *)
(* documented, and understands it as documented.                           *)
LEMMA ParseIsDocumented ==
  ASSUME NEW v \in Seq(Token), ~ IsLink(v)
  PROVE  Meanings(v) = IF Parse(v) = NoSource THEN {} ELSE {Parse(v)}
<1>. DEFINE text == After(v, 1)
<1>. SUFFICES ASSUME NEW s
              PROVE  s \in Meanings(v) <=> s = Parse(v) /\ Parse(v) # NoSource
  OBVIOUS
<1>1. /\ v # <<>> <=> Len(v) >= 1
      /\ v # <<>> => text \in Seq(Token)
  BY AfterHead
<1>2. \A kind, name : kind # "none" => Source(kind, name) # NoSource
  BY DEF Source, NoSource
<1>. HIDE DEF text
<1>3. s \in Meanings(v) <=>
        \/ \E u \in Uuid : s = Source("uuid", <<u>>) /\ Begins(v, "UUID=") /\ text \in Id(u)
        \/ \E u \in Uuid :
             s = Source("partuuid", <<u>>) /\ Begins(v, "PARTUUID=") /\ text \in Id(u)
        \/ \E u \in Uuid, n \in Number :
             /\ s = Source("partnroff", <<u, n>>)
             /\ Begins(v, "PARTUUID=") /\ text \in IdAndNumber(u, n)
        \/ s = Source("label", text) /\ Begins(v, "LABEL=")
        \/ s = Source("partlabel", text) /\ Begins(v, "PARTLABEL=")
        \/ s = Source("raw", v) /\ Begins(v, "/dev/")
  BY MeaningsIs DEF text
<1>4. CASE v = <<>>
  <2>1. Parse(v) = NoSource
    BY <1>4, ParseByHead
  <2>. QED  BY <1>1, <1>3, <1>4, <2>1 DEF Begins
<1>5. CASE Begins(v, "UUID=")
  <2>1. text \in Seq(Token) /\ v # <<>> /\ v[1] = "UUID="
    BY <1>1, <1>5 DEF Begins
  <2>2. Parse(v) = ParseUuid("uuid", text)
    BY <2>1, ParseByHead DEF text
  <2>3. s \in Meanings(v) <=> \E u \in Uuid : s = Source("uuid", <<u>>) /\ text \in Id(u)
    BY <1>3, <1>5, <2>1 DEF Begins
  <2>4. /\ \A u \in Uuid : text \in Id(u) => Parse(v) = Source("uuid", <<u>>)
        /\ Parse(v) # NoSource => \E u \in Uuid : text \in Id(u)
    BY <2>1, <2>2, ParseUuidIs
  <2>. QED  BY <1>2, <2>3, <2>4
<1>6. CASE Begins(v, "PARTUUID=")
  <2>1. text \in Seq(Token) /\ v # <<>> /\ v[1] = "PARTUUID="
    BY <1>1, <1>6 DEF Begins
  <2>2. Parse(v) = ParsePartnroff(text)
    BY <2>1, ParseByHead DEF text
  <2>3. s \in Meanings(v) <=>
          \/ \E u \in Uuid : s = Source("partuuid", <<u>>) /\ text \in Id(u)
          \/ \E u \in Uuid, n \in Number :
               s = Source("partnroff", <<u, n>>) /\ text \in IdAndNumber(u, n)
    BY <1>3, <1>6, <2>1 DEF Begins
  <2>4. /\ \A u \in Uuid : text \in Id(u) => Parse(v) = Source("partuuid", <<u>>)
        /\ \A u \in Uuid, n \in Number : text \in IdAndNumber(u, n) =>
             Parse(v) = Source("partnroff", <<u, n>>)
        /\ Parse(v) # NoSource =>
             \E u \in Uuid : text \in Id(u) \/ \E n \in Number : text \in IdAndNumber(u, n)
    BY <2>1, <2>2, ParsePartnroffIs
  <2>. QED  BY <1>2, <2>3, <2>4
<1>7. CASE Begins(v, "LABEL=")
  <2>1. Parse(v) = Source("label", text)
    BY <1>1, <1>7, ParseByHead DEF text, Begins
  <2>2. s \in Meanings(v) <=> s = Source("label", text)
    BY <1>3, <1>7 DEF Begins
  <2>. QED  BY <1>2, <2>1, <2>2
<1>8. CASE Begins(v, "PARTLABEL=")
  <2>1. Parse(v) = Source("partlabel", text)
    BY <1>1, <1>8, ParseByHead DEF text, Begins
  <2>2. s \in Meanings(v) <=> s = Source("partlabel", text)
    BY <1>3, <1>8 DEF Begins
  <2>. QED  BY <1>2, <2>1, <2>2
<1>9. CASE Begins(v, "/dev/")
  <2>1. Parse(v) = Source("raw", v)
    BY <1>1, <1>9, ParseByHead DEF Begins
  <2>2. s \in Meanings(v) <=> s = Source("raw", v)
    BY <1>3, <1>9 DEF Begins
  <2>. QED  BY <1>2, <2>1, <2>2
<1>10. CASE v # <<>> /\ v[1] \notin {"UUID=", "LABEL=", "PARTUUID=", "PARTLABEL=", "/dev/"}
  <2>1. Parse(v) = NoSource
    BY <1>10, ParseByHead
  <2>2. s \notin Meanings(v)
    BY <1>3, <1>10 DEF Begins
  <2>. QED  BY <2>1, <2>2
<1>. QED
  BY <1>1, <1>4, <1>5, <1>6, <1>7, <1>8, <1>9, <1>10 DEF Begins

(* Before the end of the line the parsing fails only at a malformed word. *)
FailedInv ==
  stage = "failed" => pos = Len(line) + 1 \/ ~ WellFormed(line[pos])

LEMMA FailedInvariant == Spec => []FailedInv
<1>1. Init => FailedInv
  BY DEF Init, FailedInv
<1>2. ASSUME CmdlineInv, FailedInv, [Next]_vars
      PROVE  FailedInv'
  <2>1. CASE ParseFails
    <3>1. line' = line /\ pos' = pos /\ ~ WellFormed(line[pos])
      BY <2>1 DEF ParseFails, Abort, WellFormed, Names, At, Arg
    <3>. QED  BY <3>1 DEF FailedInv, WellFormed, Names
  <2>2. CASE AutodiscoverRoot
    <3>1. pos = Len(line) + 1 /\ line' = line /\ pos' = pos
      BY <1>2, <2>2 DEF AutodiscoverRoot, Go, CmdlineInv, Parsed
    <3>. QED  BY <3>1 DEF FailedInv
  <2>3. CASE ParseLuks \/ FlushWithLevel \/ HasRoot \/ DisableThrottling
    BY <2>3 DEF ParseLuks, Abort, FlushWithLevel, HasRoot, DisableThrottling, Go, FailedInv
  <2>4. CASE UNCHANGED vars
    BY <1>2, <2>4 DEF vars, FailedInv, WellFormed, Names
  <2>5. CASE Turn
    BY <2>5 DEF Turn, FailedInv
  <2>6. CASE ParseInner /\ ~ (ParseFails \/ ParseLuks)
    <3>1. stage = "args" /\ stage' = stage
      BY <2>6
         DEF ParseInner, ParseLog, ParseBoosterDebug, ParseQuiet, ParseRoot, ParseResume,
             ParseInit, ParseRootfstype, Keep, KeyIsEmpty, ParseRootflags, ParseRootmode,
             ParseModParam, InvalidKey, At, Advance
    <3>. QED  BY <3>1 DEF FailedInv
  <2>. QED
    BY <1>2, <2>1, <2>2, <2>3, <2>4, <2>6 DEF Next
<1>. QED
  BY <1>1, <1>2, CmdlineInvariant, PTL DEF Spec

(***************************************************************************)
(* root= and resume= name what they are documented to name, and are refused *)
(* only when they name nothing (PartitionSourceBuilder::parse).            *)
(***************************************************************************)
THEOREM SourcesAreDocumented == Spec => []SourcesAsDocumented
<1>1. ASSUME CmdlineInv, FailedInv
      PROVE  SourcesAsDocumented
  <2>. SUFFICES ASSUME NEW i \in DOMAIN line,
                       Names(line[i], "root") \/ Names(line[i], "resume"),
                       ~ IsLink(Spelling[line[i].words[1]])
                PROVE  LET v == Spelling[line[i].words[1]] IN
                       \/ i < pos /\ Meanings(v) = {Parse(v)}
                       \/ i >= pos /\ (stage = "failed" /\ i = pos => Meanings(v) = {})
    BY DEF SourcesAsDocumented
  <2>. DEFINE w == line[i].words[1]
              v == Spelling[w]
  <2>1. line \in Lines /\ i \in 1..Len(line) /\ Len(line) \in Nat /\ pos \in 1..(Len(line) + 1)
    BY <1>1, LineIsSeq DEF CmdlineInv
  <2>2. w \in Word
    BY <2>1, SingleWord DEF Single
  <2>3. v \in Seq(Token)
    <3>1. v \in Seq(STRING)
      BY <2>2, CmdlineAssumption
    <3>. QED  BY <3>1 DEF Token
  <2>4. Meanings(v) = IF Parse(v) = NoSource THEN {} ELSE {Parse(v)}
    BY <2>3, ParseIsDocumented
  <2>5. CASE i < pos
    <3>1. WellFormed(line[i])
      BY <1>1, <2>1, <2>5 DEF CmdlineInv, Read
    <3>2. Parse(v) # NoSource
      BY <3>1 DEF WellFormed, Sources
    <3>. QED  BY <2>4, <2>5, <3>2
  <2>6. CASE i >= pos
    <3>1. stage = "failed" /\ i = pos => ~ WellFormed(line[i])
      BY <1>1, <2>1 DEF FailedInv
    <3>2. stage = "failed" /\ i = pos => Parse(v) = NoSource
      BY <2>2, <3>1 DEF WellFormed, Sources
    <3>. QED  BY <2>4, <2>6, <3>2
  <2>. QED  BY <2>1, <2>5, <2>6
<1>. QED
  BY <1>1, CmdlineInvariant, FailedInvariant, PTL

=============================================================================
