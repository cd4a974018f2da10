---------------------------- MODULE MountsProofs ----------------------------
(***************************************************************************)
(* What mkdirall makes and what a mount hides, for any tree and any path.  *)
(***************************************************************************)
EXTENDS Mounts, Induction

(* The names of files. *)
Name == STRING \cup {"dev", "sys", "proc", "run", "firmware", "efi", "efivars", "kmsg", "tty0",
                     "shm", "initramfs"}
Path == Seq(Name)

-----------------------------------------------------------------------------
(* Paths.                                                                  *)

LEMMA SamePath ==
  ASSUME NEW p \in Path, NEW q \in Path,
         Len(p) = Len(q), \A i \in 1..Len(p) : p[i] = q[i]
  PROVE  p = q
  BY DEF Path

(* The first n names of a path. *)
LEMMA Cut ==
  ASSUME NEW p \in Path, NEW n \in 0..Len(p)
  PROVE  /\ SubSeq(p, 1, n) \in Path /\ Len(SubSeq(p, 1, n)) = n
         /\ \A i \in 1..n : SubSeq(p, 1, n)[i] = p[i]
         /\ SubSeq(p, 1, n) \in Prefixes(p)
         /\ SubSeq(p, 1, 0) = <<>> /\ SubSeq(p, 1, Len(p)) = p
<1>1. SubSeq(p, 1, n) \in Path /\ Len(SubSeq(p, 1, n)) = n
      /\ \A i \in 1..n : SubSeq(p, 1, n)[i] = p[i]
  BY DEF Path
<1>2. SubSeq(p, 1, n) \in Prefixes(p)
  BY DEF Prefixes
<1>3. SubSeq(p, 1, 0) = <<>>
  BY DEF Path
<1>4. SubSeq(p, 1, Len(p)) = p
  BY DEF Path
<1>. QED
  BY <1>1, <1>2, <1>3, <1>4

(* A prefix has the same names as the path, as far as it goes. *)
LEMMA PrefixIs ==
  ASSUME NEW p \in Path, NEW q
  PROVE  q \in Prefixes(p) <=> /\ q \in Path /\ Len(q) <= Len(p)
                               /\ \A i \in 1..Len(q) : q[i] = p[i]
<1>1. Len(p) \in Nat
  BY DEF Path
<1>2. ASSUME q \in Prefixes(p)
      PROVE  q \in Path /\ Len(q) <= Len(p) /\ \A i \in 1..Len(q) : q[i] = p[i]
  <2>1. PICK n \in 0..Len(p) : q = SubSeq(p, 1, n)
    BY <1>2 DEF Prefixes
  <2>. QED  BY <1>1, <2>1, Cut
<1>3. ASSUME q \in Path, Len(q) <= Len(p), \A i \in 1..Len(q) : q[i] = p[i]
      PROVE  q \in Prefixes(p)
  <2>. DEFINE n == Len(q)
              r == SubSeq(p, 1, n)
  <2>1. n \in 0..Len(p)
    BY <1>1, <1>3 DEF Path
  <2>2. r \in Path /\ Len(r) = n /\ (\A i \in 1..n : r[i] = p[i]) /\ r \in Prefixes(p)
    BY <2>1, Cut
  <2>. HIDE DEF r
  <2>3. q = r
    BY <1>3, <2>2, SamePath
  <2>. QED  BY <2>2, <2>3
<1>. QED
  BY <1>2, <1>3

LEMMA StrictPrefixIs ==
  ASSUME NEW p \in Path, NEW q \in Path
  PROVE  IsStrictPrefix(q, p) <=> q \in Prefixes(p) /\ q # p
<1>. DEFINE n == Len(q)
<1>1. n \in Nat /\ Len(p) \in Nat
  BY DEF Path
<1>2. SubSeq(q, 1, n) = q
  <2>1. n \in 0..Len(q)
    BY <1>1
  <2>. QED  BY <2>1, Cut
<1>3. CASE n <= Len(p)
  <2>. DEFINE r == SubSeq(p, 1, n)
  <2>1. n \in 0..Len(p)
    BY <1>1, <1>3
  <2>2. r \in Path /\ Len(r) = n /\ (\A i \in 1..n : r[i] = p[i]) /\ r \in Prefixes(p)
    BY <2>1, Cut
  <2>3. IsPrefix(q, p) <=> q = r
    BY <1>2, <1>3 DEF IsPrefix
  <2>. HIDE DEF r
  <2>4. q \in Prefixes(p) => q = r
    BY <2>2, PrefixIs, SamePath
  <2>. QED  BY <2>2, <2>3, <2>4 DEF IsStrictPrefix
<1>4. CASE ~ (n <= Len(p))
  BY <1>4, PrefixIs DEF IsStrictPrefix, IsPrefix
<1>. QED
  BY <1>3, <1>4
LEMMA SeqGrows ==
  ASSUME NEW X, NEW Y, X \subseteq Y
  PROVE  Seq(X) \subseteq Seq(Y)
  OBVIOUS

-----------------------------------------------------------------------------
(* mkdir.                                                                  *)

(* The first n names of a path, *)
Up(p, n) == SubSeq(p, 1, n)

LEMMA UpIs ==
  ASSUME NEW p \in Path
  PROVE  /\ Len(p) \in Nat /\ Up(p, 0) = <<>> /\ Up(p, Len(p)) = p
         /\ Prefixes(p) = {Up(p, n) : n \in 0..Len(p)}
         /\ \A n \in 0..Len(p) : Up(p, n) \in Path /\ Len(Up(p, n)) = n
  BY Cut DEF Up, Path, Prefixes

LEMMA UpUp ==
  ASSUME NEW p \in Path, NEW n \in 0..Len(p), NEW k \in 0..n
  PROVE  Up(Up(p, n), k) = Up(p, k)
<1>. DEFINE q == SubSeq(p, 1, n)
            r == SubSeq(q, 1, k)
            s == SubSeq(p, 1, k)
<1>1. Len(p) \in Nat /\ k \in 0..Len(p) /\ \A i \in 1..k : i \in 1..n
  BY DEF Path
<1>2. q \in Path /\ Len(q) = n /\ \A i \in 1..n : q[i] = p[i]
  BY Cut
<1>3. s \in Path /\ Len(s) = k /\ \A i \in 1..k : s[i] = p[i]
  BY <1>1, Cut
<1>. HIDE DEF q
<1>4. r \in Path /\ Len(r) = k /\ \A i \in 1..k : r[i] = q[i]
  BY <1>2, Cut
<1>. HIDE DEF r, s
<1>5. r = s
  BY <1>1, <1>2, <1>3, <1>4, SamePath
<1>. QED
  BY <1>5 DEF Up, q, r, s

LEMMA UpOther ==
  ASSUME NEW p \in Path, NEW n \in 0..Len(p), NEW k \in 0..Len(p), Up(p, n) = Up(p, k)
  PROVE  n = k
  BY UpIs

(* and how far a tree has the directories of a path. *)
Depth(t, p, d) ==
  /\ d \in 0..Len(p)
  /\ \A n \in 0..Len(p) : Up(p, n) \in DOMAIN t <=> n <= d
  /\ \A n \in 0..(d - 1) : IsDir(t, Up(p, n))

LEMMA DepthExists ==
  ASSUME NEW t, IsTree(t), NEW p \in Path
  PROVE  \E d : Depth(t, p, d)
<1>. DEFINE l == Len(p)
            C == {k \in 0..l : Up(p, l - k) \in DOMAIN t}
<1>1. l \in Nat /\ l - l = 0
  BY UpIs
<1>2. l \in C
  BY <1>1, UpIs DEF IsTree
<1>3. PICK k \in C : \A m \in C : k <= m
  <2>1. C \in SUBSET Nat /\ C # {}
    BY <1>2
  <2>. HIDE DEF C
  <2>. QED  BY <2>1, LeastNumber
<1>. DEFINE d == l - k
<1>4. d \in 0..l /\ Up(p, d) \in DOMAIN t
  BY <1>1, <1>3
<1>5. ASSUME NEW n \in 0..(d - 1) PROVE IsDir(t, Up(p, n))
  <2>1. n \in 0..l /\ n \in 0..d /\ n # d /\ d \in 0..l
    BY <1>1, <1>4
  <2>. HIDE DEF d
  <2>2. Up(p, d) \in Path /\ Len(Up(p, d)) = d /\ Up(p, n) = Up(Up(p, d), n)
    BY <2>1, UpIs, UpUp
  <2>3. Up(p, n) \in Prefixes(Up(p, d))
    <3>1. \A q \in Path : n \in 0..Len(q) => Up(q, n) \in Prefixes(q)
      BY UpIs
    <3>. QED  BY <2>1, <2>2, <3>1
  <2>4. Up(p, n) # Up(p, d)
    BY <2>1, UpOther
  <2>. QED  BY <1>4, <2>3, <2>4 DEF IsTree
<1>6. ASSUME NEW n \in 0..l, n <= d PROVE Up(p, n) \in DOMAIN t
  <2>1. n = d \/ n \in 0..(d - 1)
    BY <1>4, <1>6
  <2>. HIDE DEF d
  <2>. QED  BY <1>4, <1>5, <2>1 DEF IsDir
<1>7. ASSUME NEW n \in 0..l, Up(p, n) \in DOMAIN t PROVE n <= d
  <2>1. l - n \in 0..l /\ l - (l - n) = n
    BY <1>1
  <2>2. l - n \in C
    BY <1>7, <2>1
  <2>3. k <= l - n
    BY <1>3, <2>2
  <2>4. k \in Int /\ n \in Int
    BY <1>1, <1>3
  <2>. QED  BY <1>1, <2>3, <2>4
<1>. HIDE DEF d
<1>8. Depth(t, p, d)
  BY <1>4, <1>5, <1>6, <1>7 DEF Depth
<1>. QED
  BY <1>8

(* What mkdir answers depends on that, on the last of the directories, and  *)
(* on what it may do.                                                      *)
LEMMA MkdirIs ==
  ASSUME NEW t, NEW p \in Path, NEW d, Depth(t, p, d), NEW refused
  PROVE  Mkdir(t, p, refused) =
           IF d = Len(p) THEN "EEXIST"
           ELSE IF t[Up(p, d)] # "dir" THEN "ENOTDIR"
           ELSE IF d < Len(p) - 1 THEN "ENOENT"
           ELSE IF p \in refused THEN "EPERM" ELSE "ok"
<1>. DEFINE Q == Prefixes(p) \cap DOMAIN t
            deepest == CHOOSE q \in Q : \A r \in Q : Len(r) <= Len(q)
<1>1. d \in 0..Len(p) /\ Len(p) \in Nat
  BY UpIs DEF Depth
<1>2. Q = {Up(p, n) : n \in 0..d}
  <2>1. \A n \in 0..Len(p) : n \in 0..d <=> n <= d
    BY <1>1
  <2>2. \A n \in 0..d : n \in 0..Len(p)
    BY <1>1
  <2>. QED  BY <2>1, <2>2, UpIs DEF Depth
<1>3. \A n \in 0..d : Len(Up(p, n)) = n
  <2>1. \A n \in 0..d : n \in 0..Len(p)
    BY <1>1
  <2>. QED  BY <2>1, UpIs
<1>4. deepest = Up(p, d)
  <2>. HIDE DEF Q
  <2>1. Up(p, d) \in Q /\ \A r \in Q : Len(r) <= Len(Up(p, d))
    BY <1>1, <1>2, <1>3
  <2>2. ASSUME NEW q \in Q, \A r \in Q : Len(r) <= Len(q) PROVE q = Up(p, d)
    <3>1. PICK n \in 0..d : q = Up(p, n)
      BY <1>2
    <3>2. d <= n
      BY <1>1, <1>3, <2>1, <2>2, <3>1
    <3>. QED  BY <1>1, <3>1, <3>2
  <2>. QED  BY <2>1, <2>2
<1>5. Len(deepest) = d /\ (deepest = p <=> d = Len(p))
  <2>1. d \in 0..d /\ Len(p) \in 0..Len(p)
    BY <1>1
  <2>2. p = Up(p, Len(p))
    BY UpIs
  <2>3. Up(p, d) = Up(p, Len(p)) => d = Len(p)
    BY <1>1, <2>1, UpOther
  <2>. HIDE DEF deepest
  <2>. QED  BY <1>3, <1>4, <2>1, <2>2, <2>3
<1>6. Mkdir(t, p, refused) =
        CASE deepest = p                               -> "EEXIST"
          [] deepest # p /\ t[deepest] # "dir"         -> "ENOTDIR"
          [] Len(deepest) < Len(p) - 1 /\ t[deepest] = "dir" -> "ENOENT"
          [] Len(deepest) = Len(p) - 1 /\ t[deepest] = "dir" ->
               IF p \in refused THEN "EPERM" ELSE "ok"
  BY DEF Mkdir
<1>. HIDE DEF deepest
<1>7. CASE d = Len(p)
  <2>1. ~ (d < Len(p) - 1) /\ d # Len(p) - 1
    BY <1>1, <1>7
  <2>. QED  BY <1>5, <1>6, <1>7, <2>1
<1>8. CASE d # Len(p) /\ t[Up(p, d)] # "dir"
  BY <1>4, <1>5, <1>6, <1>8
<1>9. CASE d # Len(p) /\ t[Up(p, d)] = "dir" /\ d < Len(p) - 1
  <2>1. d # Len(p) - 1
    BY <1>1, <1>9
  <2>. QED  BY <1>4, <1>5, <1>6, <1>9, <2>1
<1>10. CASE d # Len(p) /\ t[Up(p, d)] = "dir" /\ ~ (d < Len(p) - 1)
  <2>1. d = Len(p) - 1
    BY <1>1, <1>10
  <2>. QED  BY <1>1, <1>4, <1>5, <1>6, <1>10, <2>1
<1>. QED
  BY <1>7, <1>8, <1>9, <1>10

(* For a part of the path. *)
LEMMA MkdirUp ==
  ASSUME NEW t, NEW p \in Path, NEW d, Depth(t, p, d), NEW refused, NEW n \in 0..Len(p)
  PROVE  Mkdir(t, Up(p, n), refused) =
           IF n <= d THEN "EEXIST"
           ELSE IF t[Up(p, d)] # "dir" THEN "ENOTDIR"
           ELSE IF d < n - 1 THEN "ENOENT"
           ELSE IF Up(p, n) \in refused THEN "EPERM" ELSE "ok"
<1>. DEFINE q == Up(p, n)
            e == IF d <= n THEN d ELSE n
<1>1. d \in 0..Len(p) /\ Len(p) \in Nat
  BY UpIs DEF Depth
<1>2. q \in Path /\ Len(q) = n
  BY UpIs
<1>3. e \in 0..n /\ e \in 0..Len(p) /\ \A k \in 0..n : k \in 0..Len(p) /\ (k <= d <=> k <= e)
  BY <1>1
<1>4. \A k \in 0..n : Up(q, k) = Up(p, k)
  BY UpUp
<1>5. \A k \in 0..(e - 1) : k \in 0..(d - 1) /\ k \in 0..n
  BY <1>1
<1>. HIDE DEF q, e
<1>6. Depth(t, q, e)
  BY <1>2, <1>3, <1>4, <1>5 DEF Depth
<1>7. Mkdir(t, q, refused) =
        IF e = Len(q) THEN "EEXIST"
        ELSE IF t[Up(q, e)] # "dir" THEN "ENOTDIR"
        ELSE IF e < Len(q) - 1 THEN "ENOENT"
        ELSE IF q \in refused THEN "EPERM" ELSE "ok"
  BY <1>2, <1>6, MkdirIs
<1>8. (e = n <=> n <= d) /\ (~ (n <= d) => e = d)
  BY <1>1 DEF e
<1>9. Up(q, e) = Up(p, e)
  BY <1>3, <1>4
<1>. QED
  BY <1>2, <1>7, <1>8, <1>9 DEF q
-----------------------------------------------------------------------------
(* mkdirall.                                                               *)

(* The tree with the first n names of p made, where they are missing. *)
Grown(t, p, n) ==
  [q \in DOMAIN t \cup {Up(p, k) : k \in 0..n} |-> IF q \in DOMAIN t THEN t[q] ELSE "dir"]

(* Which of the first n names are in the way, and how far one comes. *)
InTheWay(t, p, refused, n) ==
  {k \in 0..n : /\ ~ IsDir(t, Up(p, k))
                /\ Up(p, k) \in DOMAIN t \/ Up(p, k) \in refused}

Reached(t, p, refused, n) == {k \in 0..n : \A j \in InTheWay(t, p, refused, n) : k < j}

(* The activation of mkdirall for the first n names. *)
Activation(t, p, refused, n) ==
  [tree |-> [q \in DOMAIN t \cup {Up(p, k) : k \in Reached(t, p, refused, n)} |->
               IF q \in DOMAIN t THEN t[q] ELSE "dir"],
   ok   |-> InTheWay(t, p, refused, n) = {}]

LEMMA ActivationIs ==
  ASSUME NEW t, NEW p, NEW refused, NEW n, NEW a, a = Activation(t, p, refused, n)
  PROVE  /\ a.tree = [q \in DOMAIN t \cup {Up(p, k) : k \in Reached(t, p, refused, n)} |->
                        IF q \in DOMAIN t THEN t[q] ELSE "dir"]
         /\ a.ok <=> InTheWay(t, p, refused, n) = {}
  BY DEF Activation

(* It changes nothing where mkdir finds something. *)
LEMMA ActivationFound ==
  ASSUME NEW t, IsTree(t), NEW p \in Path, NEW refused, NEW d, Depth(t, p, d),
         NEW n \in 0..Len(p), n <= d \/ ~ IsDir(t, Up(p, d))
  PROVE  /\ Activation(t, p, refused, n).tree = t
         /\ Activation(t, p, refused, n).ok <=> IsDir(t, Up(p, n))
<1>. DEFINE B == InTheWay(t, p, refused, n)
            R == Reached(t, p, refused, n)
<1>1. d \in 0..Len(p) /\ Len(p) \in Nat
  BY UpIs DEF Depth
<1>2. \A k \in 0..n : k \in 0..Len(p) /\ (k <= d <=> Up(p, k) \in DOMAIN t)
      /\ (k < d => IsDir(t, Up(p, k)))
  BY <1>1 DEF Depth
<1>3. ASSUME NEW k \in R PROVE Up(p, k) \in DOMAIN t
  <2>1. k \in 0..n /\ \A j \in B : k < j
    BY DEF Reached
  <2>2. CASE k <= d
    BY <1>2, <2>1, <2>2
  <2>3. CASE ~ (k <= d)
    <3>1. d \in 0..n /\ ~ (k < d) /\ ~ IsDir(t, Up(p, d))
      BY <1>1, <2>1, <2>3
    <3>2. d \in B
      BY <1>1, <1>2, <3>1 DEF InTheWay
    <3>. QED  BY <2>1, <3>1, <3>2
  <2>. QED  BY <2>2, <2>3
<1>4. Activation(t, p, refused, n).tree = t
  <2>1. DOMAIN t \cup {Up(p, k) : k \in R} = DOMAIN t
    BY <1>3
  <2>2. t = [q \in DOMAIN t |-> t[q]]
    BY DEF IsTree
  <2>. QED  BY <2>1, <2>2 DEF Activation
<1>5. Activation(t, p, refused, n).ok <=> B = {}
  BY DEF Activation
<1>6. B = {} <=> IsDir(t, Up(p, n))
  <2>1. n \in 0..n
    BY <1>1
  <2>2. CASE n <= d
    <3>1. \A k \in 0..n : ~ IsDir(t, Up(p, k)) => k = n
      BY <1>1, <1>2, <2>2
    <3>2. Up(p, n) \in DOMAIN t
      BY <1>2, <2>1, <2>2
    <3>. QED  BY <2>1, <3>1, <3>2 DEF InTheWay
  <2>3. CASE ~ (n <= d)
    <3>1. d \in 0..n /\ ~ IsDir(t, Up(p, d))
      BY <1>1, <2>3
    <3>2. d \in B
      BY <1>1, <1>2, <3>1 DEF InTheWay
    <3>3. ~ IsDir(t, Up(p, n))
      BY <1>2, <2>1, <2>3 DEF IsDir
    <3>. QED  BY <3>2, <3>3
  <2>. QED  BY <2>2, <2>3
<1>. QED
  BY <1>4, <1>5, <1>6

(* Beyond, what is in the way are the directories it may not make. *)
LEMMA InTheWayBeyond ==
  ASSUME NEW t, IsTree(t), NEW p \in Path, NEW refused, NEW d, Depth(t, p, d),
         IsDir(t, Up(p, d)), NEW n \in 0..Len(p)
  PROVE  InTheWay(t, p, refused, n) = {k \in 0..n : d < k /\ Up(p, k) \in refused}
<1>1. d \in 0..Len(p) /\ Len(p) \in Nat
  BY UpIs DEF Depth
<1>2. ASSUME NEW k \in 0..n
      PROVE  (~ IsDir(t, Up(p, k)) /\ (Up(p, k) \in DOMAIN t \/ Up(p, k) \in refused))
             <=> d < k /\ Up(p, k) \in refused
  <2>1. k \in 0..Len(p) /\ (k < d \/ k = d \/ d < k) /\ (d < k <=> ~ (k <= d))
        /\ (k < d => k \in 0..(d - 1))
    BY <1>1
  <2>2. Up(p, k) \in DOMAIN t <=> k <= d
    BY <2>1 DEF Depth
  <2>3. k <= d => IsDir(t, Up(p, k))
    BY <2>1 DEF Depth
  <2>4. ~ (k <= d) => ~ IsDir(t, Up(p, k))
    BY <2>2 DEF IsDir
  <2>. QED  BY <2>1, <2>2, <2>3, <2>4
<1>. QED
  BY <1>2 DEF InTheWay

(* The whole path down to n is there, the next name may be made. *)
LEMMA MkdirNext ==
  ASSUME NEW t, NEW p \in Path, NEW n \in 1..Len(p), NEW refused,
         \A k \in 0..(n - 1) : IsDir(t, Up(p, k)), Up(p, n) \notin DOMAIN t
  PROVE  MkdirOnce(t, Up(p, n), refused) =
           [tree |-> IF Up(p, n) \in refused THEN t ELSE Made(t, Up(p, n)),
            ok   |-> Up(p, n) \notin refused]
<1>. DEFINE q == Up(p, n)
<1>1. Len(p) \in Nat /\ n \in 0..Len(p)
  BY UpIs
<1>2. q \in Path /\ Len(q) = n /\ n - 1 \in 0..n
  BY <1>1, UpIs
<1>3. \A k \in 0..n : Up(q, k) = Up(p, k)
  BY <1>1, UpUp
<1>4. \A k \in 0..(n - 1) : k \in 0..n
  OBVIOUS
<1>5. \A k \in 0..n : (k \in 0..(n - 1) <=> k <= n - 1) /\ (k = n <=> ~ (k <= n - 1))
  OBVIOUS
<1>6. \A k \in 0..((n - 1) - 1) : k \in 0..(n - 1)
  OBVIOUS
<1>7. Up(q, n) = q /\ q \notin DOMAIN t
  BY <1>2, UpIs
<1>. HIDE DEF q
<1>8. Depth(t, q, n - 1)
  BY <1>2, <1>3, <1>4, <1>5, <1>6, <1>7 DEF Depth, IsDir
<1>9. Mkdir(t, q, refused) =
        IF n - 1 = Len(q) THEN "EEXIST"
        ELSE IF t[Up(q, n - 1)] # "dir" THEN "ENOTDIR"
        ELSE IF n - 1 < Len(q) - 1 THEN "ENOENT"
        ELSE IF q \in refused THEN "EPERM" ELSE "ok"
  BY <1>2, <1>8, MkdirIs
<1>10. t[Up(q, n - 1)] = "dir" /\ n - 1 # Len(q) /\ ~ (n - 1 < Len(q) - 1)
  <2>1. n - 1 \in 0..(n - 1)
    BY <1>2
  <2>. QED  BY <1>2, <1>3, <2>1 DEF IsDir
<1>11. Mkdir(t, q, refused) = IF q \in refused THEN "EPERM" ELSE "ok"
  BY <1>9, <1>10
<1>12. ~ IsDir(t, q)
  BY <1>7 DEF IsDir
<1>13. MkdirOnce(t, q, refused) =
         [tree |-> IF q \in refused THEN t ELSE Made(t, q), ok |-> q \notin refused]
  BY <1>11, <1>12 DEF MkdirOnce
<1>. QED
  BY <1>13 DEF q
(* One more name, when nothing has been in the way so far. *)
LEMMA ActivationGrows ==
  ASSUME NEW t, IsTree(t), NEW p \in Path, NEW refused, NEW d, Depth(t, p, d),
         IsDir(t, Up(p, d)), NEW n \in 1..Len(p), d < n,
         InTheWay(t, p, refused, n - 1) = {}
  PROVE  Activation(t, p, refused, n) = MkdirOnce(Grown(t, p, n - 1), Up(p, n), refused)
<1>. DEFINE g == Grown(t, p, n - 1)
            q == Up(p, n)
<1>1. d \in 0..Len(p) /\ Len(p) \in Nat /\ n \in 0..Len(p) /\ n - 1 \in 0..Len(p)
      /\ ~ (n <= d)
  BY UpIs DEF Depth
<1>2. \A k \in 0..(n - 1) : k \in 0..Len(p) /\ k # n /\ (k \in 0..(d - 1) \/ k = d \/ ~ (k <= d))
  BY <1>1
<1>3. q \notin DOMAIN t
  BY <1>1 DEF Depth
<1>4. DOMAIN g = DOMAIN t \cup {Up(p, k) : k \in 0..(n - 1)}
  BY DEF Grown
<1>5. q \notin DOMAIN g
  BY <1>1, <1>2, <1>3, <1>4, UpOther
<1>6. ASSUME NEW k \in 0..(n - 1) PROVE IsDir(g, Up(p, k))
  <2>1. Up(p, k) \in DOMAIN g
    BY <1>4
  <2>2. g[Up(p, k)] = IF Up(p, k) \in DOMAIN t THEN t[Up(p, k)] ELSE "dir"
    BY DEF Grown
  <2>3. Up(p, k) \in DOMAIN t => IsDir(t, Up(p, k))
    BY <1>2 DEF Depth
  <2>. HIDE DEF g
  <2>. QED  BY <2>1, <2>2, <2>3 DEF IsDir
<1>7. MkdirOnce(g, q, refused) =
        [tree |-> IF q \in refused THEN g ELSE Made(g, q), ok |-> q \notin refused]
  <2>. HIDE DEF g
  <2>. QED  BY <1>5, <1>6, MkdirNext
<1>8. InTheWay(t, p, refused, n) = IF q \in refused THEN {n} ELSE {}
  <2>1. InTheWay(t, p, refused, n) = {k \in 0..n : d < k /\ Up(p, k) \in refused}
    BY <1>1, InTheWayBeyond
  <2>2. {k \in 0..(n - 1) : d < k /\ Up(p, k) \in refused} = {}
    <3>1. InTheWay(t, p, refused, n - 1) = {k \in 0..(n - 1) : d < k /\ Up(p, k) \in refused}
      BY <1>1, InTheWayBeyond
    <3>. QED  BY <3>1
  <2>3. \A k \in 0..n : k = n \/ k \in 0..(n - 1)
    BY <1>1
  <2>4. n \in 0..n
    BY <1>1
  <2>. QED  BY <2>1, <2>2, <2>3, <2>4
<1>. DEFINE a == Activation(t, p, refused, n)
<1>9. a = [tree |-> a.tree, ok |-> a.ok] /\ (a.ok <=> q \notin refused) /\ a.ok \in BOOLEAN
  BY <1>8 DEF Activation
<1>10. CASE q \in refused
  <2>1. Reached(t, p, refused, n) = 0..(n - 1)
    BY <1>1, <1>8, <1>10 DEF Reached
  <2>2. a.tree = g
    BY <2>1 DEF Activation, Grown
  <2>. HIDE DEF a, g, q
  <2>. QED  BY <1>7, <1>9, <1>10, <2>2 DEF a, g, q
<1>11. CASE q \notin refused
  <2>1. Reached(t, p, refused, n) = 0..n
    BY <1>1, <1>8, <1>11 DEF Reached
  <2>2. {Up(p, k) : k \in 0..n} = {Up(p, k) : k \in 0..(n - 1)} \cup {q}
    <3>1. 0..n = (0..(n - 1)) \cup {n}
      BY <1>1
    <3>. QED  BY <3>1
  <2>3. a.tree = [x \in DOMAIN g \cup {q} |-> IF x \in DOMAIN t THEN t[x] ELSE "dir"]
    <3>1. a.tree = [x \in DOMAIN t \cup {Up(p, k) : k \in 0..n} |->
                      IF x \in DOMAIN t THEN t[x] ELSE "dir"]
      BY <2>1 DEF Activation
    <3>2. DOMAIN t \cup {Up(p, k) : k \in 0..n} = DOMAIN g \cup {q}
      BY <1>4, <2>2
    <3>. QED  BY <3>1, <3>2
  <2>4. \A x \in DOMAIN g : g[x] = IF x \in DOMAIN t THEN t[x] ELSE "dir"
    BY DEF Grown
  <2>5. Made(g, q) = [x \in DOMAIN g \cup {q} |-> IF x = q THEN "dir" ELSE g[x]]
    BY DEF Made
  <2>. HIDE DEF a, g, q
  <2>6. a.tree = Made(g, q)
    BY <1>3, <1>5, <2>3, <2>4, <2>5
  <2>. QED  BY <1>7, <1>9, <1>11, <2>6 DEF a, g, q
<1>. QED
  BY <1>10, <1>11

(* mkdirall as the code has it, first name by name. *)
LEMMA ActivationStep ==
  ASSUME NEW t, IsTree(t), NEW p \in Path, NEW refused, NEW n \in 0..Len(p)
  PROVE  Activation(t, p, refused, n) =
           IF Mkdir(t, Up(p, n), refused) # "ENOENT" THEN MkdirOnce(t, Up(p, n), refused)
           ELSE IF Activation(t, p, refused, n - 1).ok
             THEN MkdirOnce(Activation(t, p, refused, n - 1).tree, Up(p, n), refused)
             ELSE Activation(t, p, refused, n - 1)
<1>1. PICK d : Depth(t, p, d)
  BY DepthExists
<1>2. d \in 0..Len(p) /\ Len(p) \in Nat
  BY <1>1, UpIs DEF Depth
<1>. DEFINE a(k) == Activation(t, p, refused, k)
            answer == Mkdir(t, Up(p, n), refused)
<1>3. answer = IF n <= d THEN "EEXIST"
               ELSE IF t[Up(p, d)] # "dir" THEN "ENOTDIR"
               ELSE IF d < n - 1 THEN "ENOENT"
               ELSE IF Up(p, n) \in refused THEN "EPERM" ELSE "ok"
  BY <1>1, MkdirUp
<1>4. IsDir(t, Up(p, d)) <=> t[Up(p, d)] = "dir"
  BY <1>1, <1>2 DEF Depth, IsDir
<1>5. CASE n <= d \/ ~ IsDir(t, Up(p, d))
  <2>1. answer \in {"EEXIST", "ENOTDIR"}
    BY <1>3, <1>4, <1>5
  <2>2. MkdirOnce(t, Up(p, n), refused) = [tree |-> t, ok |-> IsDir(t, Up(p, n))]
    <3>1. answer # "ok"
      BY <2>1
    <3>2. IsDir(t, Up(p, n)) \in BOOLEAN
      BY DEF IsDir
    <3>3. MkdirOnce(t, Up(p, n), refused) =
            [tree |-> IF answer = "ok" THEN Made(t, Up(p, n)) ELSE t,
             ok   |-> answer = "ok" \/ IsDir(t, Up(p, n))]
      BY DEF MkdirOnce
    <3>4. (answer = "ok" \/ IsDir(t, Up(p, n))) = IsDir(t, Up(p, n))
      BY <3>1, <3>2
    <3>. HIDE DEF answer
    <3>. QED  BY <3>1, <3>3, <3>4
  <2>3. a(n).tree = t /\ (a(n).ok <=> IsDir(t, Up(p, n)))
    BY <1>1, <1>5, ActivationFound
  <2>4. a(n) = [tree |-> a(n).tree, ok |-> a(n).ok] /\ a(n).ok \in BOOLEAN
    BY DEF Activation
  <2>5. IsDir(t, Up(p, n)) \in BOOLEAN
    BY DEF IsDir
  <2>6. a(n).ok = IsDir(t, Up(p, n))
    BY <2>3, <2>4, <2>5
  <2>. HIDE DEF a, answer
  <2>7. a(n) = MkdirOnce(t, Up(p, n), refused)
    <3>1. a(n).tree = t
      BY <2>3
    <3>2. a(n) = [tree |-> t, ok |-> IsDir(t, Up(p, n))]
      BY <2>4, <2>6, <3>1, Zenon
    <3>. QED  BY <2>2, <3>2, Zenon
  <2>. QED  BY <2>1, <2>7 DEF a, answer
<1>6. CASE ~ (n <= d) /\ IsDir(t, Up(p, d))
  <2>1. n \in 1..Len(p) /\ d < n /\ n - 1 \in 0..Len(p)
    BY <1>2, <1>6
  <2>. DEFINE B(k) == InTheWay(t, p, refused, k)
  <2>2. B(n) = {k \in 0..n : d < k /\ Up(p, k) \in refused}
        /\ B(n - 1) = {k \in 0..(n - 1) : d < k /\ Up(p, k) \in refused}
    <3>1. B(n) = {k \in 0..n : d < k /\ Up(p, k) \in refused}
      BY <1>1, <1>6, InTheWayBeyond
    <3>2. B(n - 1) = {k \in 0..(n - 1) : d < k /\ Up(p, k) \in refused}
      BY <1>1, <1>6, <2>1, InTheWayBeyond
    <3>. QED  BY <3>1, <3>2
  <2>3. B(n - 1) = {} => a(n) = MkdirOnce(Grown(t, p, n - 1), Up(p, n), refused)
    BY <1>1, <1>6, <2>1, ActivationGrows
  <2>4. CASE d < n - 1
    <3>1. answer = "ENOENT"
      BY <1>3, <1>4, <1>6, <2>4
    <3>2. CASE B(n - 1) = {}
      <4>1. Reached(t, p, refused, n - 1) = 0..(n - 1)
        BY <3>2 DEF Reached
      <4>2. a(n - 1).ok /\ a(n - 1).tree = Grown(t, p, n - 1)
        BY <3>2, <4>1 DEF Activation, Grown
      <4>. HIDE DEF a, answer, B
      <4>. QED  BY <2>3, <3>1, <3>2, <4>2 DEF a, answer
    <3>3. CASE B(n - 1) # {}
      <4>1. ~ a(n - 1).ok
        BY <3>3 DEF Activation
      <4>2. PICK j \in B(n - 1) : TRUE
        BY <3>3
      <4>3. j \in B(n) /\ j \in 0..(n - 1)
        BY <2>1, <2>2, <4>2
      <4>4. \A k \in 0..(n - 1) : (\A i \in B(n) : k < i) <=> (\A i \in B(n - 1) : k < i)
        BY <2>1, <2>2
      <4>5. Reached(t, p, refused, n) = Reached(t, p, refused, n - 1)
        <5>1. ~ (n < j)
          BY <2>1, <4>3
        <5>2. \A k \in 0..n : k = n \/ k \in 0..(n - 1)
          BY <2>1
        <5>3. \A k \in 0..(n - 1) : k \in 0..n
          BY <2>1
        <5>. HIDE DEF B
        <5>. QED  BY <4>3, <4>4, <5>1, <5>2, <5>3 DEF Reached, B
      <4>6. B(n) # {}
        BY <4>3
      <4>7. a(n) = a(n - 1)
        BY <3>3, <4>5, <4>6 DEF Activation
      <4>. HIDE DEF a, answer, B
      <4>. QED  BY <3>1, <4>1, <4>7 DEF a, answer
    <3>. QED  BY <3>2, <3>3
  <2>5. CASE ~ (d < n - 1)
    <3>1. d = n - 1
      BY <1>2, <2>1, <2>5
    <3>2. B(n - 1) = {}
      BY <1>2, <2>2, <3>1
    <3>3. Grown(t, p, n - 1) = t
      <4>1. \A k \in 0..(n - 1) : k \in 0..Len(p) /\ k <= d
        BY <2>1, <3>1
      <4>2. \A k \in 0..(n - 1) : Up(p, k) \in DOMAIN t
        BY <1>1, <4>1 DEF Depth
      <4>3. DOMAIN t \cup {Up(p, k) : k \in 0..(n - 1)} = DOMAIN t
        BY <4>2
      <4>4. t = [q \in DOMAIN t |-> t[q]]
        BY DEF IsTree
      <4>. QED  BY <4>3, <4>4 DEF Grown
    <3>4. answer # "ENOENT"
      BY <1>3, <1>4, <1>6, <2>5
    <3>. HIDE DEF a, answer, B
    <3>. QED  BY <2>3, <3>2, <3>3, <3>4 DEF a, answer
  <2>. QED  BY <2>4, <2>5
<1>. QED
  BY <1>5, <1>6

LEMMA MkdirAllIs ==
  ASSUME NEW t, IsTree(t), NEW p \in Path, NEW refused
  PROVE  MkdirAll(t, p, refused) = Activation(t, p, refused, Len(p))
<1>. DEFINE l == Len(p)
            a(n) == Activation(t, p, refused, n)
            next(n, up) == IF Mkdir(t, Up(p, n), refused) # "ENOENT"
                             THEN MkdirOnce(t, Up(p, n), refused)
                           ELSE IF up.ok THEN MkdirOnce(up.tree, Up(p, n), refused) ELSE up
            Equation(f) == f = [n \in 0..l |-> next(n, f[n - 1])]
            g == [n \in 0..l |-> a(n)]
<1>1. l \in Nat
  BY UpIs
<1>2. \A n \in 0..l : a(n) = next(n, a(n - 1))
  BY ActivationStep
<1>3. Mkdir(t, Up(p, 0), refused) # "ENOENT"
  <2>1. PICK d : Depth(t, p, d)
    BY DepthExists
  <2>2. 0 \in 0..l /\ 0 <= d
    BY <1>1, <2>1 DEF Depth
  <2>. QED  BY <2>1, <2>2, MkdirUp
<1>4. \A x, y : next(0, x) = next(0, y)
  BY <1>3
<1>5. MkdirAll(t, p, refused) = (CHOOSE f : Equation(f))[l]
  BY DEF MkdirAll, Up
<1>. HIDE DEF a, next
<1>6. Equation(g)
  <2>1. ASSUME NEW n \in 0..l PROVE a(n) = next(n, g[n - 1])
    <3>1. CASE n = 0
      BY <1>2, <1>4, <2>1, <3>1
    <3>2. CASE n # 0
      <4>1. n - 1 \in 0..l
        BY <1>1, <3>2
      <4>. QED  BY <1>2, <4>1
    <3>. QED  BY <3>1, <3>2
  <2>. HIDE DEF g, l
  <2>2. g = [n \in 0..l |-> a(n)]
    BY DEF g
  <2>. QED  BY <2>1, <2>2
<1>7. PICK f : f = CHOOSE x : Equation(x)
  OBVIOUS
<1>8. Equation(f)
  <2>. HIDE DEF Equation
  <2>. QED  BY <1>6, <1>7
<1>9. \A n \in 0..l : f[n] = next(n, f[n - 1])
  BY <1>8
<1>. DEFINE T == {n \in 0..l : f[n] = a(n)}
<1>10. 0 \in T
  <2>1. 0 \in 0..l
    BY <1>1
  <2>. QED  BY <1>2, <1>4, <1>9, <2>1
<1>11. ASSUME NEW n \in 0..(l - 1), n \in T PROVE n + 1 \in T
  <2>1. n + 1 \in 0..l /\ (n + 1) - 1 = n
    BY <1>1
  <2>2. f[n + 1] = next(n + 1, f[n]) /\ a(n + 1) = next(n + 1, a(n))
    BY <1>2, <1>9, <2>1
  <2>. QED  BY <1>11, <2>1, <2>2
<1>12. 0..l \subseteq T
  <2>. HIDE DEF T, l
  <2>. QED  BY <1>1, <1>10, <1>11, IntervalInduction
<1>13. f[l] = a(l)
  <2>1. l \in 0..l
    BY <1>1
  <2>. QED  BY <1>12, <2>1
<1>. QED
  BY <1>5, <1>7, <1>13 DEF a
(***************************************************************************)
(* In any tree, mkdirall makes any path up to what is in the way, keeps     *)
(* what there is, and says whether it has made the whole path              *)
(* (mount.rs:508-554).                                                     *)
(***************************************************************************)
THEOREM MkdirAllMakes ==
  ASSUME IsTree(tree), NEW p \in Path, NEW refused
  PROVE  MakesPath(p, refused)
<1>. DEFINE made == MkdirAll(tree, p, refused)
            stops == Blocked(p, refused)
            reached == {q \in Prefixes(p) : \A s \in stops : Len(q) < Len(s)}
            l == Len(p)
            B == InTheWay(tree, p, refused, l)
            R == Reached(tree, p, refused, l)
<1>1. l \in Nat /\ Prefixes(p) = {Up(p, n) : n \in 0..l} /\ \A n \in 0..l : Len(Up(p, n)) = n
  BY UpIs
<1>2. made = Activation(tree, p, refused, l)
  BY MkdirAllIs
<1>3. stops = {Up(p, k) : k \in B}
  BY <1>1 DEF Blocked, InTheWay
<1>4. B \subseteq 0..l
  BY DEF InTheWay
<1>5. reached = {Up(p, k) : k \in R}
  <2>1. \A k \in 0..l : (\A s \in stops : Len(Up(p, k)) < Len(s)) <=> \A j \in B : k < j
    BY <1>1, <1>3, <1>4
  <2>. HIDE DEF stops, B
  <2>. QED  BY <1>1, <2>1 DEF Reached, B
<1>6. made.ok <=> stops = {}
  <2>1. made.ok <=> B = {}
    BY <1>2, ActivationIs
  <2>. HIDE DEF made, stops, B
  <2>. QED  BY <1>3, <2>1
<1>7. made.tree = [q \in DOMAIN tree \cup reached |->
                     IF q \in DOMAIN tree THEN tree[q] ELSE "dir"]
  BY <1>2, <1>5 DEF Activation
<1>. QED
  BY <1>6, <1>7 DEF MakesPath

(* What a tree keeps and gets when the path p is made, all or in part. *)
Extends(t, u, p) ==
  /\ DOMAIN t \subseteq DOMAIN u
  /\ \A q \in DOMAIN t : u[q] = t[q]
  /\ \A q \in DOMAIN u : q \notin DOMAIN t => q \in Prefixes(p)

LEMMA MkdirAllExtends ==
  ASSUME NEW t, IsTree(t), DOMAIN t \subseteq Path, NEW p \in Path, NEW refused
  PROVE  LET made == MkdirAll(t, p, refused) IN
         /\ IsTree(made.tree) /\ DOMAIN made.tree \subseteq Path
         /\ Extends(t, made.tree, p)
         /\ made.ok => IsDir(made.tree, p)
<1>. DEFINE u == MkdirAll(t, p, refused).tree
            ok == MkdirAll(t, p, refused).ok
            l == Len(p)
            B == InTheWay(t, p, refused, l)
            R == Reached(t, p, refused, l)
<1>1. l \in Nat /\ Up(p, l) = p /\ Prefixes(p) = {Up(p, n) : n \in 0..l}
      /\ \A n \in 0..l : Up(p, n) \in Path
  BY UpIs
<1>2. u = [q \in DOMAIN t \cup {Up(p, k) : k \in R} |-> IF q \in DOMAIN t THEN t[q] ELSE "dir"]
      /\ (ok <=> B = {})
  <2>1. MkdirAll(t, p, refused) = Activation(t, p, refused, l)
    BY MkdirAllIs
  <2>. QED  BY <2>1, ActivationIs
<1>3. R \subseteq 0..l /\ \A k \in R : \A j \in 0..k : j \in R
  BY <1>1 DEF Reached, InTheWay
<1>4. DOMAIN u = DOMAIN t \cup {Up(p, k) : k \in R}
  BY <1>2
<1>5. \A q \in DOMAIN u : u[q] = IF q \in DOMAIN t THEN t[q] ELSE "dir"
  BY <1>2
<1>6. u = [q \in DOMAIN u |-> u[q]]
  BY <1>2
<1>7. ASSUME NEW k \in R PROVE IsDir(u, Up(p, k))
  <2>1. k \notin B /\ k \in 0..l
    BY <1>1, <1>3 DEF Reached, InTheWay
  <2>2. Up(p, k) \in DOMAIN t => IsDir(t, Up(p, k))
    BY <2>1 DEF InTheWay
  <2>. HIDE DEF u, R
  <2>. QED  BY <1>4, <1>5, <2>2 DEF IsDir
<1>8. B = {} => l \in R
  BY <1>1 DEF Reached
<1>. HIDE DEF u, ok, R, B
<1>9. IsTree(u)
  <2>1. u \in [DOMAIN u -> Kind]
    <3>1. \A q \in DOMAIN u : u[q] \in Kind
      BY <1>5 DEF IsTree, Kind
    <3>. QED  BY <1>6, <3>1
  <2>2. <<>> \in DOMAIN u
    BY <1>4 DEF IsTree
  <2>3. ASSUME NEW q \in DOMAIN u, NEW r \in Prefixes(q) \ {q} PROVE IsDir(u, r)
    <3>1. CASE q \in DOMAIN t
      <4>1. IsDir(t, r)
        BY <3>1 DEF IsTree
      <4>. QED  BY <1>4, <1>5, <4>1 DEF IsDir
    <3>2. CASE q \notin DOMAIN t
      <4>1. PICK k \in R : q = Up(p, k)
        BY <1>4, <3>2
      <4>2. k \in 0..l /\ q \in Path /\ Len(q) = k
        BY <1>3, <4>1, UpIs
      <4>3. PICK j \in 0..k : r = Up(q, j)
        BY <4>2, UpIs
      <4>4. r = Up(p, j)
        BY <4>1, <4>2, <4>3, UpUp
      <4>5. j \in R
        BY <1>3, <4>1, <4>3
      <4>. QED  BY <1>7, <4>4, <4>5
    <3>. QED  BY <3>1, <3>2
  <2>. QED  BY <2>1, <2>2, <2>3 DEF IsTree
<1>10. DOMAIN u \subseteq Path
  BY <1>1, <1>3, <1>4
<1>11. Extends(t, u, p)
  <2>1. \A q \in DOMAIN u : q \notin DOMAIN t => q \in Prefixes(p)
    BY <1>1, <1>3, <1>4
  <2>. QED  BY <1>4, <1>5, <2>1 DEF Extends
<1>12. ok => IsDir(u, p)
  BY <1>1, <1>2, <1>7, <1>8
<1>. QED
  BY <1>9, <1>10, <1>11, <1>12 DEF u, ok

-----------------------------------------------------------------------------
(* Mounting.                                                               *)

LEMMA Joined ==
  ASSUME NEW p \in Path, NEW q \in Path
  PROVE  /\ p \o q \in Path /\ Len(p \o q) = Len(p) + Len(q)
         /\ \A i \in 1..Len(p) : (p \o q)[i] = p[i]
         /\ \A i \in 1..Len(q) : (p \o q)[Len(p) + i] = q[i]
  BY DEF Path

(* The rest of a path, after what it begins with. *)
LEMMA RestIs ==
  ASSUME NEW p \in Path, NEW q \in Path
  PROVE  SubSeq(p \o q, Len(p) + 1, Len(p \o q)) = q
<1>. DEFINE c == p \o q
            r == SubSeq(c, Len(p) + 1, Len(c))
<1>1. Len(p) \in Nat /\ Len(q) \in Nat
  BY DEF Path
<1>2. c \in Path /\ Len(c) = Len(p) + Len(q)
      /\ \A i \in 1..Len(q) : c[Len(p) + i] = q[i]
  BY Joined
<1>. HIDE DEF c
<1>3. Len(p) + 1 \in 1..(Len(c) + 1) /\ Len(c) \in Nat
  BY <1>1, <1>2
<1>4. r \in Path /\ Len(r) = Len(q) /\ \A i \in 1..Len(q) : r[i] = c[Len(p) + i]
  BY <1>1, <1>2, <1>3 DEF Path
<1>. HIDE DEF r
<1>5. r = q
  BY <1>2, <1>4, SamePath
<1>. QED
  BY <1>5 DEF r, c

LEMMA PrefixOfJoined ==
  ASSUME NEW p \in Path, NEW q \in Path, NEW r \in Prefixes(p \o q)
  PROVE  r \in Prefixes(p) \/ \E s \in Prefixes(q) : r = p \o s
<1>. DEFINE c == p \o q
<1>1. Len(p) \in Nat /\ Len(q) \in Nat
  BY DEF Path
<1>2. c \in Path /\ Len(c) = Len(p) + Len(q)
      /\ (\A i \in 1..Len(p) : c[i] = p[i])
      /\ \A i \in 1..Len(q) : c[Len(p) + i] = q[i]
  BY Joined
<1>3. r \in Prefixes(c)
  OBVIOUS
<1>. HIDE DEF c
<1>4. r \in Path /\ Len(r) <= Len(c) /\ (\A i \in 1..Len(r) : r[i] = c[i]) /\ Len(r) \in Nat
  BY <1>2, <1>3, PrefixIs DEF Path
<1>5. CASE Len(r) <= Len(p)
  <2>1. \A i \in 1..Len(r) : i \in 1..Len(p)
    BY <1>1, <1>4, <1>5
  <2>2. \A i \in 1..Len(r) : r[i] = p[i]
    BY <1>2, <1>4, <2>1
  <2>. QED  BY <1>4, <1>5, <2>2, PrefixIs
<1>6. CASE ~ (Len(r) <= Len(p))
  <2>. DEFINE n == Len(r) - Len(p)
              s == SubSeq(q, 1, n)
              x == p \o s
  <2>1. n \in 0..Len(q) /\ Len(p) + n = Len(r)
    BY <1>1, <1>2, <1>4, <1>6
  <2>. HIDE DEF n
  <2>2. s \in Path /\ Len(s) = n /\ (\A i \in 1..n : s[i] = q[i]) /\ s \in Prefixes(q)
    BY <2>1, Cut
  <2>. HIDE DEF s
  <2>3. x \in Path /\ Len(x) = Len(p) + n
        /\ (\A i \in 1..Len(p) : x[i] = p[i]) /\ \A i \in 1..n : x[Len(p) + i] = s[i]
    BY <2>2, Joined
  <2>. HIDE DEF x
  <2>4. ASSUME NEW i \in 1..Len(r) PROVE r[i] = x[i]
    <3>1. r[i] = c[i]
      BY <1>4
    <3>2. CASE i <= Len(p)
      <4>1. i \in 1..Len(p)
        BY <1>1, <1>4, <3>2
      <4>. QED  BY <1>2, <2>3, <3>1, <4>1
    <3>3. CASE ~ (i <= Len(p))
      <4>1. i - Len(p) \in 1..n /\ i - Len(p) \in 1..Len(q) /\ i = Len(p) + (i - Len(p))
        BY <1>1, <1>4, <2>1, <3>3
      <4>2. x[Len(p) + (i - Len(p))] = s[i - Len(p)] /\ s[i - Len(p)] = q[i - Len(p)]
        BY <2>2, <2>3, <4>1
      <4>. QED  BY <1>2, <3>1, <4>1, <4>2
    <3>. QED  BY <3>2, <3>3
  <2>5. r = x
    BY <1>4, <2>1, <2>3, <2>4, SamePath
  <2>. QED  BY <2>2, <2>5 DEF x
<1>. QED
  BY <1>5, <1>6

(* What a filesystem shows when it is mounted is a tree of its own. *)
LEMMA ContentIs ==
  ASSUME sysfs \in Sysfs, NEW m \in DOMAIN Target
  PROVE  /\ Content(m) \in [DOMAIN Content(m) -> Kind]
         /\ DOMAIN Content(m) \subseteq Path
         /\ <<>> \in DOMAIN Content(m) => IsDir(Content(m), <<>>)
         /\ \A p \in DOMAIN Content(m) : \A q \in Prefixes(p) \ {p} :
              q = <<>> \/ IsDir(Content(m), q)
<1>1. CASE m = "devtmpfs"
  <2>1. Content(m) = Device /\ DOMAIN Device = {<<"kmsg">>, <<"tty0">>}
    BY <1>1 DEF Content, Device
  <2>2. Device \in [DOMAIN Device -> Kind]
    BY DEF Device, Kind
  <2>3. "kmsg" \in Name /\ "tty0" \in Name
    BY DEF Name
  <2>4. <<"kmsg">> \in Path /\ <<"tty0">> \in Path
    BY <2>3 DEF Path
  <2>5. ASSUME NEW p \in DOMAIN Device, NEW q \in Prefixes(p) \ {p} PROVE q = <<>>
    <3>1. p \in Path /\ Len(p) = 1
      BY <2>1, <2>4
    <3>2. PICK k \in 0..1 : q = Up(p, k)
      <4>1. Prefixes(p) = {Up(p, n) : n \in 0..1}
        BY <3>1, UpIs
      <4>. QED  BY <4>1
    <3>3. k # 1
      BY <3>1, <3>2, UpIs
    <3>. QED  BY <3>1, <3>2, <3>3, UpIs
  <2>6. <<>> \notin DOMAIN Device
    BY <2>1
  <2>. QED  BY <2>1, <2>2, <2>4, <2>5, <2>6
<1>2. CASE m = "sysfs"
  <2>1. Content(m) = [p \in sysfs |-> "dir"]
    BY <1>2 DEF Content
  <2>2. sysfs \subseteq Path
    <3>1. sysfs \subseteq Seq(STRING)
      BY TreesAssumption
    <3>2. STRING \subseteq Name
      BY DEF Name
    <3>3. Seq(STRING) \subseteq Seq(Name)
      BY <3>2, SeqGrows
    <3>. QED  BY <3>1, <3>3 DEF Path
  <2>3. \A p \in sysfs : \A q \in Prefixes(p) : q = <<>> \/ q \in sysfs
    BY TreesAssumption
  <2>. QED  BY <2>1, <2>2, <2>3 DEF IsDir, Kind
<1>3. CASE m \notin {"devtmpfs", "sysfs"}
  <2>1. Content(m) = [p \in {} |-> "dir"]
    BY <1>3 DEF Content
  <2>2. DOMAIN Content(m) = {} /\ Content(m) \in [{} -> Kind]
    BY <2>1
  <2>. QED  BY <2>2
<1>. QED
  BY <1>1, <1>2, <1>3
LEMMA TargetPaths ==
  /\ \A m \in DOMAIN Target : Target[m] \in Path
  /\ DOMAIN Target = {"devtmpfs", "sysfs", "proc", "run", "efivars"}
  /\ Pivot \in Path /\ <<"dev", "shm">> \in Path /\ <<"firmware", "efi", "efivars">> \in Path
<1>1. {"dev", "sys", "proc", "run", "firmware", "efi", "efivars", "shm", "initramfs"} \subseteq Name
  BY DEF Name
<1>. HIDE DEF Name
<1>2. <<"dev">> \in Path /\ <<"sys">> \in Path /\ <<"proc">> \in Path /\ <<"run">> \in Path
  BY <1>1 DEF Path
<1>3. <<"sys", "firmware", "efi", "efivars">> \in Path
  BY <1>1 DEF Path
<1>4. Pivot \in Path /\ <<"dev", "shm">> \in Path /\ <<"firmware", "efi", "efivars">> \in Path
  BY <1>1 DEF Path, Pivot
<1>5. DOMAIN Target = {"devtmpfs", "sysfs", "proc", "run", "efivars"}
  BY DEF Target
<1>6. ASSUME NEW m \in DOMAIN Target PROVE Target[m] \in Path
  BY <1>2, <1>3 DEF Target
<1>. QED
  BY <1>4, <1>5, <1>6

(* What a mount hides, leaves and shows: c of the tree t, under the path p. *)
Hides(t, u, p, c) ==
  /\ \A q \in DOMAIN t : ~ IsStrictPrefix(p, q) => q \in DOMAIN u /\ u[q] = t[q]
  /\ \A q \in c : p \o q \in DOMAIN u
  /\ \A q \in DOMAIN u :
       (q \in DOMAIN t /\ ~ IsStrictPrefix(p, q)) \/ \E r \in c : q = p \o r

LEMMA CoveredIs ==
  ASSUME sysfs \in Sysfs, NEW m \in DOMAIN Target,
         NEW t, IsTree(t), DOMAIN t \subseteq Path, IsDir(t, Target[m])
  PROVE  /\ IsTree(Covered(t, m)) /\ DOMAIN Covered(t, m) \subseteq Path
         /\ Hides(t, Covered(t, m), Target[m], DOMAIN Content(m))
<1>. DEFINE p == Target[m]
            c == Content(m)
            kept == {q \in DOMAIN t : ~ IsStrictPrefix(p, q)}
            shown == {p \o q : q \in DOMAIN c}
            u == Covered(t, m)
<1>1. p \in Path
  BY TargetPaths
<1>2. /\ c \in [DOMAIN c -> Kind] /\ DOMAIN c \subseteq Path
      /\ <<>> \in DOMAIN c => IsDir(c, <<>>)
      /\ \A q \in DOMAIN c : \A r \in Prefixes(q) \ {q} : r = <<>> \/ IsDir(c, r)
  BY ContentIs
<1>3. u = [q \in kept \cup shown |->
             IF q \in kept THEN t[q] ELSE c[SubSeq(q, Len(p) + 1, Len(q))]]
  BY DEF Covered
<1>4. IsDir(t, p)
  OBVIOUS
<1>. HIDE DEF p, c, u
<1>5. DOMAIN u = kept \cup shown /\ u = [q \in DOMAIN u |-> u[q]]
  BY <1>3
<1>6. \A q \in kept : u[q] = t[q]
  BY <1>3
<1>7. ASSUME NEW q \in DOMAIN c, p \o q \notin kept PROVE u[p \o q] = c[q]
  BY <1>1, <1>2, <1>3, <1>7, RestIs
<1>8. ASSUME NEW q \in DOMAIN c, IsDir(c, q) PROVE IsDir(u, p \o q)
  <2>1. p \o q \in DOMAIN u
    BY <1>5
  <2>2. CASE p \o q \in kept
    <3>1. p \o q \in Path /\ Len(p \o q) = Len(p) + Len(q) /\ \A i \in 1..Len(p) : (p \o q)[i] = p[i]
      BY <1>1, <1>2, Joined
    <3>2. Len(p) \in Nat /\ Len(q) \in Nat
      BY <1>1, <1>2 DEF Path
    <3>3. p \in Prefixes(p \o q)
      <4>. DEFINE x == p \o q
      <4>1. x \in Path /\ Len(p) <= Len(x) /\ \A i \in 1..Len(p) : p[i] = x[i]
        BY <3>1, <3>2
      <4>. HIDE DEF x
      <4>2. p \in Prefixes(x)
        BY <1>1, <4>1, PrefixIs
      <4>. QED  BY <4>2 DEF x
    <3>4. p \o q = p
      BY <1>1, <2>2, <3>1, <3>3, StrictPrefixIs
    <3>. QED  BY <1>4, <1>6, <2>1, <2>2, <3>4 DEF IsDir
  <2>3. CASE p \o q \notin kept
    BY <1>7, <1>8, <2>1, <2>3 DEF IsDir
  <2>. QED  BY <2>2, <2>3
\* What is above or beside the mount point stays a tree.
<1>9. ASSUME NEW q \in kept, NEW r \in Prefixes(q) \ {q} PROVE IsDir(u, r)
  <2>1. IsDir(t, r)
    BY DEF IsTree
  <2>2. r \in Path /\ q \in Path /\ Len(r) \in Nat /\ Len(q) \in Nat /\ Len(p) \in Nat
    BY <1>1, <2>1 DEF IsDir, Path
  <2>3. Len(r) <= Len(q) /\ \A i \in 1..Len(r) : r[i] = q[i]
    BY <2>2, PrefixIs
  <2>4. ASSUME IsStrictPrefix(p, r) PROVE FALSE
    <3>1. p \in Prefixes(r) /\ p # r
      BY <1>1, <2>2, <2>4, StrictPrefixIs
    <3>2. Len(p) <= Len(r) /\ \A i \in 1..Len(p) : p[i] = r[i]
      BY <2>2, <3>1, PrefixIs
    <3>3. Len(p) <= Len(q) /\ \A i \in 1..Len(p) : p[i] = q[i]
      <4>1. \A i \in 1..Len(p) : i \in 1..Len(r)
        BY <2>2, <3>2
      <4>. QED  BY <2>2, <2>3, <3>2, <4>1
    <3>4. p \in Prefixes(q)
      BY <1>1, <2>2, <3>3, PrefixIs
    <3>5. p # q
      <4>1. Len(p) # Len(r)
        BY <1>1, <2>2, <3>1, <3>2, SamePath
      <4>. QED  BY <2>2, <2>3, <3>2, <4>1
    <3>6. IsStrictPrefix(p, q)
      BY <1>1, <2>2, <3>4, <3>5, StrictPrefixIs
    <3>. QED  BY <3>6
  <2>5. r \in kept
    BY <2>1, <2>4 DEF IsDir
  <2>. QED  BY <1>5, <1>6, <2>1, <2>5 DEF IsDir
<1>10. p \in kept
  <2>1. ~ IsStrictPrefix(p, p)
    BY <1>1, StrictPrefixIs
  <2>. QED  BY <1>4, <2>1 DEF IsDir
<1>11. IsDir(u, p)
  BY <1>4, <1>5, <1>6, <1>10 DEF IsDir
\* So do what the filesystem shows, and its mount point.
<1>12. ASSUME NEW q \in DOMAIN c, NEW r \in Prefixes(p \o q) \ {p \o q} PROVE IsDir(u, r)
  <2>1. q \in Path
    BY <1>2
  <2>2. CASE r \in Prefixes(p)
    <3>1. r = p \/ r \in Prefixes(p) \ {p}
      BY <2>2
    <3>. QED  BY <1>9, <1>10, <1>11, <3>1
  <2>3. CASE \E s \in Prefixes(q) : r = p \o s
    <3>1. PICK s \in Prefixes(q) : r = p \o s
      BY <2>3
    <3>2. s # q
      BY <3>1
    <3>3. s = <<>> \/ IsDir(c, s)
      BY <1>2, <3>2
    <3>4. CASE s = <<>>
      <4>1. r = p
        BY <1>1, <3>1, <3>4 DEF Path
      <4>. QED  BY <1>11, <4>1
    <3>5. CASE IsDir(c, s)
      BY <1>8, <3>1, <3>5 DEF IsDir
    <3>. QED  BY <3>3, <3>4, <3>5
  <2>. QED  BY <1>1, <2>1, <2>2, <2>3, PrefixOfJoined
<1>13. IsTree(u)
  <2>1. ASSUME NEW q \in DOMAIN u PROVE u[q] \in Kind
    <3>1. CASE q \in kept
      BY <1>6, <3>1 DEF IsTree
    <3>2. CASE q \notin kept
      <4>1. PICK r \in DOMAIN c : q = p \o r
        BY <1>5, <3>2
      <4>. QED  BY <1>2, <1>7, <3>2, <4>1
    <3>. QED  BY <3>1, <3>2
  <2>2. u \in [DOMAIN u -> Kind]
    BY <1>5, <2>1
  <2>3. <<>> \in DOMAIN u
    <3>1. <<>> \in Path /\ <<>> \in DOMAIN t
      BY DEF IsTree
    <3>2. ~ IsStrictPrefix(p, <<>>)
      <4>1. ASSUME p \in Prefixes(<<>>) PROVE p = <<>>
        <5>1. Len(p) <= Len(<<>>) /\ Len(<<>>) = 0 /\ Len(p) \in Nat
          BY <1>1, <3>1, <4>1, PrefixIs DEF Path
        <5>2. Len(p) = 0
          BY <5>1
        <5>. QED  BY <1>1, <5>2 DEF Path
      <4>. QED  BY <1>1, <3>1, <4>1, StrictPrefixIs
    <3>. QED  BY <1>5, <3>1, <3>2
  <2>4. ASSUME NEW q \in DOMAIN u, NEW r \in Prefixes(q) \ {q} PROVE IsDir(u, r)
    BY <1>5, <1>9, <1>12
  <2>. QED  BY <2>2, <2>3, <2>4 DEF IsTree
<1>14. DOMAIN u \subseteq Path
  <2>1. ASSUME NEW q \in shown PROVE q \in Path
    BY <1>1, <1>2, Joined
  <2>. QED  BY <1>5, <2>1
<1>15. Hides(t, u, p, DOMAIN c)
  BY <1>5, <1>6 DEF Hides
<1>. QED
  BY <1>13, <1>14, <1>15 DEF p, c, u
-----------------------------------------------------------------------------
(* The operations.                                                         *)

TreeInv == TreeTypeOK /\ DOMAIN tree \subseteq Path

LEMMA TreeStarts == TreeInit => TreeInv
<1>. SUFFICES ASSUME TreeInit PROVE TreeInv
  OBVIOUS
<1>1. IsTree(tree) /\ DOMAIN tree \subseteq Seq(STRING) /\ sysfs \in Sysfs /\ mounted = {}
  BY TreesAssumption DEF TreeInit
<1>2. STRING \subseteq Name
  BY DEF Name
<1>3. DOMAIN tree \subseteq Path
  BY <1>1, <1>2, SeqGrows DEF Path
<1>. QED
  BY <1>1, <1>3 DEF TreeInv, TreeTypeOK

(* Mount::mount returns Ok: the tree grows to the target, and filesystem m  *)
(* hides what is under it.                                                 *)
LEMMA MountOkEffect ==
  ASSUME TreeInv, NEW m \in DOMAIN Target, MountOk(m)
  PROVE  /\ TreeInv' /\ mounted' = mounted \cup {m} /\ sysfs' = sysfs
         /\ IsDir(tree', Target[m])
         /\ \E t : /\ IsTree(t) /\ DOMAIN t \subseteq Path /\ Extends(tree, t, Target[m])
                   /\ Hides(t, tree', Target[m], DOMAIN Content(m))
<1>1. PICK refused : LET made == MkdirAll(tree, Target[m], refused) IN
                     made.ok /\ tree' = Covered(made.tree, m)
  BY DEF MountOk
<1>. DEFINE t == MkdirAll(tree, Target[m], refused).tree
<1>2. Target[m] \in Path /\ IsTree(tree) /\ DOMAIN tree \subseteq Path /\ sysfs \in Sysfs
      /\ mounted \subseteq DOMAIN Target
  BY TargetPaths DEF TreeInv, TreeTypeOK
<1>3. IsTree(t) /\ DOMAIN t \subseteq Path /\ Extends(tree, t, Target[m]) /\ IsDir(t, Target[m])
  BY <1>1, <1>2, MkdirAllExtends
<1>4. tree' = Covered(t, m)
  BY <1>1
<1>. HIDE DEF t
<1>5. IsTree(tree') /\ DOMAIN tree' \subseteq Path
      /\ Hides(t, tree', Target[m], DOMAIN Content(m))
  BY <1>2, <1>3, <1>4, CoveredIs
<1>6. mounted' = mounted \cup {m} /\ sysfs' = sysfs
  BY DEF MountOk
<1>7. TreeInv'
  <2>1. sysfs' \in Sysfs /\ mounted' \subseteq DOMAIN Target
    BY <1>2, <1>6
  <2>2. TreeTypeOK'
    BY <1>5, <2>1 DEF TreeTypeOK
  <2>. QED  BY <1>5, <2>2 DEF TreeInv
<1>8. IsDir(tree', Target[m])
  <2>1. ~ IsStrictPrefix(Target[m], Target[m])
    BY <1>2, StrictPrefixIs
  <2>. QED  BY <1>3, <1>5, <2>1 DEF Hides, IsDir
<1>. QED
  BY <1>3, <1>5, <1>6, <1>7, <1>8

LEMMA MountErrEffect ==
  ASSUME TreeInv, NEW m \in DOMAIN Target, MountErr(m)
  PROVE  TreeInv' /\ UNCHANGED <<mounted, sysfs>> /\ Extends(tree, tree', Target[m])
<1>1. PICK refused : tree' = MkdirAll(tree, Target[m], refused).tree
  BY DEF MountErr
<1>2. Target[m] \in Path /\ IsTree(tree) /\ DOMAIN tree \subseteq Path
  BY TargetPaths DEF TreeInv, TreeTypeOK
<1>3. IsTree(tree') /\ DOMAIN tree' \subseteq Path /\ Extends(tree, tree', Target[m])
  BY <1>1, <1>2, MkdirAllExtends
<1>4. UNCHANGED <<mounted, sysfs>>
  BY DEF MountErr
<1>. QED
  BY <1>3, <1>4 DEF TreeInv, TreeTypeOK

(* mkdir makes a directory in a directory. *)
LEMMA MadeIs ==
  ASSUME NEW t, IsTree(t), DOMAIN t \subseteq Path, NEW p \in Path, NEW refused,
         Mkdir(t, p, refused) = "ok"
  PROVE  IsTree(Made(t, p)) /\ DOMAIN Made(t, p) \subseteq Path /\ Extends(t, Made(t, p), p)
<1>. DEFINE u == Made(t, p)
            l == Len(p)
<1>1. PICK d : Depth(t, p, d)
  BY DepthExists
<1>2. l \in Nat /\ d \in 0..l
  BY <1>1, UpIs DEF Depth
<1>3. Mkdir(t, p, refused) =
        IF d = l THEN "EEXIST"
        ELSE IF t[Up(p, d)] # "dir" THEN "ENOTDIR"
        ELSE IF d < l - 1 THEN "ENOENT"
        ELSE IF p \in refused THEN "EPERM" ELSE "ok"
  BY <1>1, MkdirIs
<1>4. d = l - 1 /\ t[Up(p, d)] = "dir"
  BY <1>2, <1>3
<1>5. p \notin DOMAIN t
  <2>1. l \in 0..l /\ ~ (l <= d) /\ Up(p, l) = p
    BY <1>2, <1>4, UpIs
  <2>. QED  BY <1>1, <2>1 DEF Depth
<1>6. ASSUME NEW n \in 0..l, n # l PROVE IsDir(t, Up(p, n))
  <2>1. n = d \/ n \in 0..(d - 1)
    BY <1>2, <1>4, <1>6
  <2>2. Up(p, d) \in DOMAIN t
    BY <1>1, <1>2 DEF Depth
  <2>. QED  BY <1>1, <1>4, <2>1, <2>2 DEF Depth, IsDir
<1>7. u = [q \in DOMAIN t \cup {p} |-> IF q = p THEN "dir" ELSE t[q]]
  BY DEF Made
<1>. HIDE DEF u
<1>8. IsTree(u)
  <2>1. u \in [DOMAIN u -> Kind] /\ <<>> \in DOMAIN u
    BY <1>7 DEF IsTree, Kind
  <2>2. ASSUME NEW q \in DOMAIN u, NEW r \in Prefixes(q) \ {q} PROVE IsDir(u, r)
    <3>1. IsDir(t, r)
      <4>1. CASE q = p
        <5>1. PICK n \in 0..l : r = Up(p, n)
          BY <4>1, UpIs
        <5>2. n # l
          BY <4>1, <5>1, UpIs
        <5>. QED  BY <1>6, <5>1, <5>2
      <4>2. CASE q # p
        BY <1>7, <4>2 DEF IsTree
      <4>. QED  BY <4>1, <4>2
    <3>. QED  BY <1>5, <1>7, <3>1 DEF IsDir
  <2>. QED  BY <2>1, <2>2 DEF IsTree
<1>9. Extends(t, u, p)
  <2>1. p \in Prefixes(p)
    BY <1>2, PrefixIs
  <2>. QED  BY <1>5, <1>7, <2>1 DEF Extends
<1>10. DOMAIN u \subseteq Path
  BY <1>7
<1>. QED
  BY <1>8, <1>9, <1>10 DEF u

LEMMA PivotOkEffect ==
  ASSUME TreeInv, PivotOk
  PROVE  TreeInv' /\ UNCHANGED <<mounted, sysfs>> /\ Extends(tree, tree', Pivot)
<1>1. Pivot \in Path /\ IsTree(tree) /\ DOMAIN tree \subseteq Path
  BY TargetPaths DEF TreeInv, TreeTypeOK
<1>2. Mkdir(tree, Pivot, {}) = "ok" /\ tree' = Made(tree, Pivot) /\ UNCHANGED <<mounted, sysfs>>
  BY DEF PivotOk
<1>3. IsTree(tree') /\ DOMAIN tree' \subseteq Path /\ Extends(tree, tree', Pivot)
  BY <1>1, <1>2, MadeIs
<1>. QED
  BY <1>2, <1>3 DEF TreeInv, TreeTypeOK

(* A filesystem that is there for all to see, *)
Shown(m) ==
  IsDir(tree, Target[m]) /\ \A p \in DOMAIN Content(m) : Target[m] \o p \in DOMAIN tree

(* stays so when directories are made, *)
LEMMA ShownGrows ==
  ASSUME NEW m, Shown(m), NEW p, Extends(tree, tree', p), sysfs' = sysfs
  PROVE  Shown(m)'
<1>1. Content(m)' = Content(m)
  BY DEF Content
<1>2. IsDir(tree', Target[m])
  BY DEF Shown, Extends, IsDir
<1>3. \A q \in DOMAIN Content(m) : Target[m] \o q \in DOMAIN tree'
  BY DEF Shown, Extends
<1>. QED
  BY <1>1, <1>2, <1>3 DEF Shown

(* and when another filesystem is mounted; only the EFI variables would be  *)
(* hidden if sysfs came after them.                                        *)
LEMMA Apart ==
  ASSUME sysfs \in Sysfs, NEW m \in DOMAIN Target, NEW k \in DOMAIN Target, k # m,
         ~ (m = "sysfs" /\ k = "efivars"),
         NEW p \in DOMAIN Content(k) \cup {<<>>}
  PROVE  ~ IsStrictPrefix(Target[m], Target[k] \o p)
<1>. DEFINE a == Target[m]
            b == Target[k]
            c == b \o p
<1>1. a \in Path /\ b \in Path /\ p \in Path /\ <<>> \in Path
  <2>1. <<>> \in Path
    BY DEF Path
  <2>. QED  BY <2>1, TargetPaths, ContentIs
<1>2. c \in Path /\ Len(c) = Len(b) + Len(p) /\ (\A i \in 1..Len(b) : c[i] = b[i])
      /\ \A i \in 1..Len(p) : c[Len(b) + i] = p[i]
  BY <1>1, Joined
<1>3. Len(a) >= 1 /\ Len(b) >= 1 /\ Len(a) \in Nat /\ Len(b) \in Nat /\ Len(p) \in Nat
      /\ Len(c) \in Nat
  <2>1. Len(a) >= 1 /\ Len(b) >= 1
    BY DEF Target
  <2>. HIDE DEF a, b, c
  <2>2. Len(p) \in Nat /\ Len(c) \in Nat
    BY <1>1, <1>2 DEF Path
  <2>3. Len(a) \in Nat
    BY <1>1 DEF Path
  <2>4. Len(b) \in Nat
    BY <1>1 DEF Path
  <2>. QED  BY <2>1, <2>2, <2>3, <2>4
<1>4. a[1] = b[1] => m = "efivars" /\ k = "sysfs"
  BY DEF Target
<1>. HIDE DEF a, b, c
<1>5. SUFFICES ASSUME IsStrictPrefix(a, c) PROVE FALSE
  BY DEF a, b, c
<1>6. a # c /\ Len(a) <= Len(c) /\ \A i \in 1..Len(a) : a[i] = c[i]
  BY <1>1, <1>2, <1>5, StrictPrefixIs, PrefixIs
<1>7. a[1] = b[1]
  BY <1>2, <1>3, <1>6
<1>. DEFINE e == <<"firmware", "efi", "efivars">>
<1>8. /\ m = "efivars" /\ k = "sysfs"
      /\ Len(a) = 4 /\ a[2] = "firmware" /\ a[3] = "efi" /\ a[4] = "efivars" /\ Len(b) = 1
  BY <1>4, <1>7, TargetPaths DEF Target, a, b
<1>9. e \in Path /\ Len(e) = 3 /\ e[1] = "firmware" /\ e[2] = "efi" /\ e[3] = "efivars"
  BY TargetPaths
<1>. HIDE DEF e
<1>10. Len(p) >= 3 /\ 1 \in 1..Len(p) /\ 2 \in 1..Len(p) /\ 3 \in 1..Len(p)
  BY <1>2, <1>3, <1>6, <1>8
<1>11. c[2] = p[1] /\ c[3] = p[2] /\ c[4] = p[3] /\ p[1] = e[1] /\ p[2] = e[2] /\ p[3] = e[3]
  BY <1>2, <1>6, <1>8, <1>9, <1>10
<1>12. p \in sysfs
  <2>1. p # <<>>
    BY <1>10
  <2>. QED  BY <1>8, <2>1 DEF Content
<1>13. e \in Prefixes(p)
  <2>1. \A i \in 1..3 : i = 1 \/ i = 2 \/ i = 3
    OBVIOUS
  <2>. QED  BY <1>1, <1>9, <1>10, <1>11, <2>1, PrefixIs
<1>14. CASE e = p
  <2>1. Len(c) = Len(a)
    <3>1. Len(p) = 3
      BY <1>9, <1>14
    <3>2. Len(c) = Len(b) + Len(p) /\ Len(b) = 1 /\ Len(a) = 4
      BY <1>2, <1>8
    <3>. QED  BY ONLY <3>1, <3>2
  <2>. QED  BY <1>1, <1>2, <1>6, <2>1, SamePath
<1>15. CASE e # p
  <2>1. IsStrictPrefix(e, p)
    BY <1>1, <1>9, <1>13, <1>15, StrictPrefixIs
  <2>. QED  BY <1>12, <2>1, TreesAssumption DEF e
<1>. QED
  BY <1>14, <1>15

LEMMA ShownMounts ==
  ASSUME TreeInv, NEW m \in DOMAIN Target, MountOk(m), NEW k \in DOMAIN Target,
         k = m \/ Shown(k), ~ (m = "sysfs" /\ k = "efivars")
  PROVE  Shown(k)'
<1>1. /\ sysfs' = sysfs /\ IsDir(tree', Target[m])
      /\ \E t : /\ IsTree(t) /\ DOMAIN t \subseteq Path /\ Extends(tree, t, Target[m])
                /\ Hides(t, tree', Target[m], DOMAIN Content(m))
  BY MountOkEffect
<1>2. PICK t : /\ IsTree(t) /\ DOMAIN t \subseteq Path /\ Extends(tree, t, Target[m])
               /\ Hides(t, tree', Target[m], DOMAIN Content(m))
  BY <1>1
<1>3. Content(k)' = Content(k)
  BY <1>1 DEF Content
<1>4. CASE k = m
  <2>1. \A p \in DOMAIN Content(k) : Target[k] \o p \in DOMAIN tree'
    BY <1>2, <1>4 DEF Hides
  <2>. QED  BY <1>1, <1>3, <1>4, <2>1 DEF Shown
<1>5. CASE k # m
  <2>1. sysfs \in Sysfs
    BY DEF TreeInv, TreeTypeOK
  <2>2. ASSUME NEW p \in DOMAIN Content(k) \cup {<<>>}
        PROVE  ~ IsStrictPrefix(Target[m], Target[k] \o p)
    BY <1>5, <2>1, Apart
  <2>3. Target[k] \o <<>> = Target[k]
    <3>1. Target[k] \in Path
      BY TargetPaths
    <3>. QED  BY <3>1 DEF Path
  <2>4. IsDir(tree', Target[k])
    <3>1. IsDir(tree, Target[k])
      BY <1>5 DEF Shown
    <3>2. IsDir(t, Target[k])
      BY <1>2, <3>1 DEF Extends, IsDir
    <3>3. ~ IsStrictPrefix(Target[m], Target[k])
      BY <2>2, <2>3
    <3>. QED  BY <1>2, <3>2, <3>3 DEF Hides, IsDir
  <2>5. ASSUME NEW p \in DOMAIN Content(k) PROVE Target[k] \o p \in DOMAIN tree'
    <3>1. Target[k] \o p \in DOMAIN t
      BY <1>2, <1>5 DEF Shown, Extends
    <3>2. ~ IsStrictPrefix(Target[m], Target[k] \o p)
      BY <2>2
    <3>. QED  BY <1>2, <3>1, <3>2 DEF Hides
  <2>. QED  BY <1>3, <2>4, <2>5 DEF Shown
<1>. QED
  BY <1>4, <1>5

(* What is under /sys is what sysfs shows, once it is mounted. *)
EfiDir == <<"sys", "firmware", "efi">>
EfiShown == <<"firmware", "efi">>

LEMMA EfiPaths ==
  /\ EfiDir \in Path /\ EfiShown \in Path /\ Len(EfiDir) = 3
  /\ EfiDir = <<"sys">> \o EfiShown
  /\ \A p \in Path : EfiDir = <<"sys">> \o p => p = EfiShown
<1>1. {"sys", "firmware", "efi"} \subseteq Name
  BY DEF Name
<1>2. EfiDir \in Path /\ EfiShown \in Path /\ <<"sys">> \in Path
  <2>. HIDE DEF Name
  <2>. QED  BY <1>1 DEF EfiDir, EfiShown, Path
<1>3. Len(EfiDir) = 3
  BY DEF EfiDir
<1>. DEFINE s == <<"sys">>
            c == s \o EfiShown
<1>4. /\ Len(s) = 1 /\ s[1] = "sys" /\ s \in Path
      /\ Len(EfiShown) = 2 /\ EfiShown[1] = "firmware" /\ EfiShown[2] = "efi"
      /\ EfiDir[1] = "sys" /\ EfiDir[2] = "firmware" /\ EfiDir[3] = "efi"
  BY <1>2 DEF EfiShown, EfiDir
<1>. HIDE DEF s
<1>5. c \in Path /\ Len(c) = 3 /\ c[1] = "sys" /\ c[2] = "firmware" /\ c[3] = "efi"
  <2>1. 1 \in 1..Len(s) /\ 1 \in 1..Len(EfiShown) /\ 2 \in 1..Len(EfiShown)
    BY <1>4
  <2>2. c \in Path /\ Len(c) = Len(s) + Len(EfiShown) /\ c[1] = s[1]
        /\ c[Len(s) + 1] = EfiShown[1] /\ c[Len(s) + 2] = EfiShown[2]
    BY <1>2, <1>4, <2>1, Joined
  <2>. HIDE DEF c
  <2>. QED  BY <1>4, <2>2
<1>. HIDE DEF c
<1>6. \A i \in 1..3 : i = 1 \/ i = 2 \/ i = 3
  OBVIOUS
<1>7. EfiDir = c
  BY <1>2, <1>3, <1>4, <1>5, <1>6, SamePath
<1>8. ASSUME NEW p \in Path, EfiDir = s \o p PROVE p = EfiShown
  <2>1. /\ Len(s \o p) = Len(s) + Len(p)
        /\ \A i \in 1..Len(p) : (s \o p)[Len(s) + i] = p[i]
    BY <1>4, Joined
  <2>2. Len(p) = 2
    <3>1. Len(p) \in Nat
      BY DEF Path
    <3>2. Len(EfiDir) = Len(s) + Len(p) /\ Len(s) = 1 /\ Len(EfiDir) = 3
      BY <1>3, <1>4, <1>8, <2>1
    <3>3. \A k, n : k = 1 /\ n = 3 => \A i \in Nat : n = k + i => i = 2
      OBVIOUS
    <3>. QED  BY <3>1, <3>2, <3>3
  <2>3. p[1] = "firmware" /\ p[2] = "efi"
    <3>1. EfiDir[Len(s) + 1] = p[1] /\ EfiDir[Len(s) + 2] = p[2]
      BY <1>8, <2>1, <2>2
    <3>. QED  BY <1>4, <3>1
  <2>4. \A i \in 1..2 : i = 1 \/ i = 2
    OBVIOUS
  <2>. QED  BY <1>2, <1>4, <2>2, <2>3, <2>4, SamePath
<1>. QED
  BY <1>2, <1>3, <1>7, <1>8 DEF s, c

LEMMA SysfsShowsEfi ==
  ASSUME TreeInv, MountOk("sysfs"), EfiDir \in DOMAIN tree'
  PROVE  EfiShown \in sysfs'
<1>1. /\ "sysfs" \in DOMAIN Target /\ Target["sysfs"] = <<"sys">>
      /\ DOMAIN Content("sysfs") = sysfs /\ sysfs \in Sysfs
  BY TargetPaths DEF Target, Content, TreeInv, TreeTypeOK
<1>2. PICK t : Hides(t, tree', <<"sys">>, sysfs)
  BY <1>1, MountOkEffect
<1>3. IsStrictPrefix(<<"sys">>, EfiDir)
  <2>1. <<"sys">> \in Path /\ Len(<<"sys">>) = 1 /\ <<"sys">>[1] = EfiDir[1]
    BY <1>1, TargetPaths DEF EfiDir
  <2>. DEFINE s == <<"sys">>
  <2>. HIDE DEF s
  <2>2. s \in Path /\ Len(s) = 1 /\ s[1] = EfiDir[1]
    BY <2>1 DEF s
  <2>3. s \in Prefixes(EfiDir) /\ s # EfiDir
    <3>1. \A i \in 1..1 : i = 1
      OBVIOUS
    <3>2. Len(s) <= Len(EfiDir) /\ Len(s) # Len(EfiDir)
      BY <2>2, EfiPaths
    <3>. QED  BY <2>2, <3>1, <3>2, EfiPaths, PrefixIs
  <2>. QED  BY <2>2, <2>3, EfiPaths, StrictPrefixIs DEF s
<1>4. PICK r \in sysfs : EfiDir = <<"sys">> \o r
  BY <1>2, <1>3 DEF Hides
<1>5. r \in Path /\ sysfs' = sysfs
  BY <1>1, ContentIs DEF MountOk
<1>. QED
  BY <1>4, <1>5, EfiPaths

LEMMA OthersAddNoEfi ==
  ASSUME TreeInv, NEW m \in {"proc", "run"}, MountOk(m), EfiDir \in DOMAIN tree'
  PROVE  EfiDir \in DOMAIN tree /\ sysfs' = sysfs
<1>1. /\ m \in DOMAIN Target /\ Target[m] \in Path /\ Len(Target[m]) = 1
      /\ Target[m][1] # "sys" /\ DOMAIN Content(m) = {}
  BY TargetPaths DEF Target, Content
<1>2. PICK t : Extends(tree, t, Target[m]) /\ Hides(t, tree', Target[m], {})
  BY <1>1, MountOkEffect
<1>3. EfiDir \in DOMAIN t
  BY <1>2 DEF Hides
<1>4. EfiDir \notin Prefixes(Target[m])
  <2>1. ~ (Len(EfiDir) <= Len(Target[m]))
    BY <1>1, EfiPaths
  <2>. QED  BY <1>1, <2>1, PrefixIs
<1>5. sysfs' = sysfs
  BY DEF MountOk
<1>. QED
  BY <1>2, <1>3, <1>4, <1>5 DEF Extends

=============================================================================
