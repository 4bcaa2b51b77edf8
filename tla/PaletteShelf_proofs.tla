------------------------- MODULE PaletteShelf_proofs -------------------------
(***************************************************************************)
(* That touching one palette gives no other field another palette, for any *)
(* number of palettes and fields.                                          *)
(***************************************************************************)
EXTENDS PaletteShelf, IntegerSets

(* What the shelf says of a field: the palette that lists it.              *)
LEMMA LookupListed ==
  ASSUME NEW s, ShelfOK(s), NEW n, NEW p \in DOMAIN s.pals, n \in s.pals[p].usual
  PROVE  /\ Lookup(s, n) = p
         /\ palette_for_param(s, n) \in DOMAIN s.stack
         /\ s.stack[palette_for_param(s, n)] = p
<1> DEFINE hits == {i \in DOMAIN s.stack : n \in s.pals[s.stack[i]].usual}
<1>1. s.stack \in Seq(DOMAIN s.pals)
  BY DEF ShelfOK
<1>2. PICK k \in DOMAIN s.stack : s.stack[k] = p
  BY DEF ShelfOK
<1>3. ASSUME NEW i \in hits
      PROVE  i = k
  <2>1. s.stack[i] \in DOMAIN s.pals
    BY <1>1
  <2>2. s.stack[i] = p
    BY <2>1 DEF ShelfOK, ListedOnce
  <2>3. QED
    BY <1>2, <2>2 DEF ShelfOK
<1>4. hits = {k}
  BY <1>2, <1>3
<1>5. k \in Nat /\ k # 0
  BY <1>1, <1>2
<1>6. First(hits) = k
  <2>1. (CHOOSE i \in hits : \A j \in hits : i <= j) = k
    BY <1>4, <1>5
  <2>2. QED
    BY <1>4, <2>1 DEF First
<1>7. palette_for_param(s, n) = k
  BY <1>6 DEF palette_for_param
<1>8. QED
  BY <1>2, <1>5, <1>7 DEF Lookup

(* A field no palette lists is not found.                                  *)
LEMMA LookupUnlisted ==
  ASSUME NEW s, ShelfOK(s), NEW n, \A p \in DOMAIN s.pals : n \notin s.pals[p].usual
  PROVE  palette_for_param(s, n) = 0 /\ Lookup(s, n) = 0
<1>1. s.stack \in Seq(DOMAIN s.pals)
  BY DEF ShelfOK
<1>2. {i \in DOMAIN s.stack : n \in s.pals[s.stack[i]].usual} = {}
  BY <1>1
<1>3. palette_for_param(s, n) = 0
  BY <1>2 DEF palette_for_param, First
<1>4. QED
  BY <1>3 DEF Lookup

(* A function on 1..n is a sequence of what it returns.                    *)
LEMMA SeqOf ==
  ASSUME NEW S, NEW n \in Nat, NEW f, f = [k \in 1..n |-> f[k]], \A k \in 1..n : f[k] \in S
  PROVE  f \in Seq(S)
<1>1. f \in [1..n -> S]
  OBVIOUS
<1>2. QED
  BY <1>1

(* A palette moved to the top.                                             *)
LEMMA MovedOK ==
  ASSUME NEW s, ShelfOK(s), NEW i \in DOMAIN s.stack
  PROVE  /\ ShelfOK(MovedToTop(s, i))
         /\ MovedToTop(s, i).pals = s.pals
         /\ Top(MovedToTop(s, i)) = s.stack[i]
<1> DEFINE r == MovedToTop(s, i)
           n == Len(s.stack)
<1>1. s.stack \in Seq(DOMAIN s.pals) /\ s = [pals |-> s.pals, stack |-> s.stack]
  BY DEF ShelfOK
<1>2. /\ n \in Nat /\ DOMAIN s.stack = 1..n
      /\ \A k \in 1..n : s.stack[k] \in DOMAIN s.pals
      /\ i \in 1..n
  BY <1>1
<1> DEFINE q == [k \in DOMAIN s.stack |-> IF k = 1 THEN s.stack[i]
                                          ELSE IF k <= i THEN s.stack[k - 1]
                                          ELSE s.stack[k]]
<1>3. r = [pals |-> s.pals, stack |-> r.stack] /\ r.stack = q
  <2>1. r = [s EXCEPT !.stack = q]
    BY DEF MovedToTop
  <2> HIDE DEF q, r, n
  <2>2. QED
    BY <1>1, <2>1
<1>4. r.stack = [k \in 1..n |-> IF k = 1 THEN s.stack[i]
                                ELSE IF k <= i THEN s.stack[k - 1] ELSE s.stack[k]]
  <2>1. r.stack = q /\ DOMAIN s.stack = 1..n
    BY <1>2, <1>3
  <2> HIDE DEF r, n
  <2>2. QED
    BY <2>1
<1>5. /\ r.stack[1] = s.stack[i]
      /\ \A k \in 1..n : k # 1 /\ k <= i => k - 1 \in 1..n /\ r.stack[k] = s.stack[k - 1]
      /\ \A k \in 1..n : k > i => r.stack[k] = s.stack[k]
  BY <1>2, <1>4
<1>6. r.stack \in Seq(DOMAIN s.pals)
  <2>1. ASSUME NEW k \in 1..n
        PROVE  r.stack[k] \in DOMAIN s.pals
    <3> HIDE DEF r, n
    <3>1. k = 1 \/ (k # 1 /\ k <= i) \/ k > i
      BY <1>2
    <3>2. QED
      BY <1>2, <1>5, <3>1
  <2> HIDE DEF r, n
  <2>2. r.stack = [k \in 1..n |-> r.stack[k]]
    BY <1>4
  <2>3. QED
    BY <1>2, <2>1, <2>2, SeqOf
<1>7. \A j, k \in 1..n : r.stack[j] = r.stack[k] => j = k
  <2>1. \A j, k \in 1..n : s.stack[j] = s.stack[k] => j = k
    BY <1>2 DEF ShelfOK
  <2>2. \A j \in 1..n : \E f \in 1..n : /\ r.stack[j] = s.stack[f]
                                       /\ f = IF j = 1 THEN i ELSE IF j <= i THEN j - 1 ELSE j
    BY <1>2, <1>5
  <2>3. SUFFICES ASSUME NEW j \in 1..n, NEW k \in 1..n, r.stack[j] = r.stack[k]
                 PROVE  j = k
    OBVIOUS
  <2> HIDE DEF r, n
  <2>4. (IF j = 1 THEN i ELSE IF j <= i THEN j - 1 ELSE j)
          = (IF k = 1 THEN i ELSE IF k <= i THEN k - 1 ELSE k)
    BY <2>1, <2>2, <2>3
  <2>5. QED
    BY <1>2, <2>3, <2>4
<1>8. \A p \in DOMAIN s.pals : \E k \in 1..n : r.stack[k] = p
  <2>1. SUFFICES ASSUME NEW p \in DOMAIN s.pals, NEW j \in 1..n, s.stack[j] = p
                 PROVE  \E k \in 1..n : r.stack[k] = p
    BY <1>2 DEF ShelfOK
  <2> HIDE DEF r, n
  <2>2. CASE j = i
    <3>1. 1 \in 1..n
      BY <1>2
    <3>2. QED
      BY <1>5, <2>1, <2>2, <3>1
  <2>3. CASE j < i
    <3>1. j + 1 \in 1..n /\ j + 1 # 1 /\ j + 1 <= i /\ (j + 1) - 1 = j
      BY <1>2, <2>3
    <3>2. r.stack[j + 1] = s.stack[j]
      BY <1>5, <3>1
    <3>3. QED
      BY <2>1, <3>1, <3>2
  <2>4. CASE j > i
    BY <1>5, <2>1, <2>4
  <2>5. QED
    BY <1>2, <2>2, <2>3, <2>4
<1>9. ShelfOK(r)
  <2>1. r.pals = s.pals /\ DOMAIN r.stack = 1..n
    BY <1>3, <1>4
  <2> HIDE DEF r
  <2>2. ListedOnce(r)
    BY <2>1 DEF ListedOnce, ShelfOK
  <2>3. r = [pals |-> r.pals, stack |-> r.stack]
    BY <1>3, <2>1
  <2>4. Len(r.pals) \in Nat /\ r.pals = [p \in 1..Len(r.pals) |-> r.pals[p]]
    BY <2>1 DEF ShelfOK
  <2>5. \A p \in DOMAIN r.pals : r.pals[p] = [name |-> r.pals[p].name,
                                              usual |-> r.pals[p].usual,
                                              items |-> r.pals[p].items]
    BY <2>1 DEF ShelfOK
  <2>6. QED
    BY <1>6, <1>7, <1>8, <2>1, <2>2, <2>3, <2>4, <2>5 DEF ShelfOK
<1>10. QED
  BY <1>3, <1>5, <1>9 DEF Top

(* A palette that is made, for fields no palette lists.                    *)
LEMMA MadeOK ==
  ASSUME NEW s, ShelfOK(s), NEW p_name, NEW usual,
         \A p \in DOMAIN s.pals : s.pals[p].usual \intersect usual = {}
  PROVE  LET r == Made(s, p_name, usual)
             new == Top(r)
         IN  /\ ShelfOK(r)
             /\ DOMAIN r.pals = DOMAIN s.pals \union {new}
             /\ new \notin DOMAIN s.pals
             /\ r.pals[new].usual = usual /\ r.pals[new].name = p_name
             /\ \A p \in DOMAIN s.pals : r.pals[p] = s.pals[p]
<1> DEFINE r == Made(s, p_name, usual)
           m == Len(s.pals)
           n == Len(s.stack)
           e == [name |-> p_name, usual |-> usual, items |-> Plain]
           T == {s.pals[p] : p \in DOMAIN s.pals} \union {e}
<1>1. /\ s.pals \in Seq(T) /\ m \in Nat /\ DOMAIN s.pals = 1..m
      /\ s.stack \in Seq(DOMAIN s.pals) /\ n \in Nat /\ DOMAIN s.stack = 1..n
  <2>1. /\ m \in Nat /\ s.pals = [p \in 1..m |-> s.pals[p]]
        /\ s.stack \in Seq(DOMAIN s.pals)
    BY DEF ShelfOK
  <2>2. DOMAIN s.pals = 1..m
    BY <2>1
  <2>3. \A p \in 1..m : s.pals[p] \in T
    BY <2>2
  <2>4. s.pals \in Seq(T)
    BY <2>1, <2>3
  <2>5. QED
    BY <2>1, <2>2, <2>4
<1>2. /\ r.pals = Append(s.pals, e)
      /\ r.stack = [k \in 1..(n + 1) |-> IF k = 1 THEN m + 1 ELSE s.stack[k - 1]]
      /\ r = [pals |-> r.pals, stack |-> r.stack]
  BY DEF Made
<1>3. /\ r.pals \in Seq(T) /\ DOMAIN r.pals = 1..(m + 1)
      /\ r.pals[m + 1] = e
      /\ \A p \in 1..m : r.pals[p] = s.pals[p]
  <2> HIDE DEF r, m, T, e
  <2>1. e \in T
    BY DEF T
  <2>2. QED
    BY <1>1, <1>2, <2>1 DEF m
<1>4. /\ r.stack[1] = m + 1 /\ DOMAIN r.stack = 1..(n + 1)
      /\ \A k \in 1..(n + 1) : k # 1 => k - 1 \in 1..n /\ r.stack[k] = s.stack[k - 1]
  BY <1>1, <1>2
<1>5. \A k \in 1..n : s.stack[k] \in 1..m
  BY <1>1
<1>6. \A j, k \in 1..n : s.stack[j] = s.stack[k] => j = k
  BY <1>1 DEF ShelfOK
<1>7. e = [name |-> e.name, usual |-> e.usual, items |-> e.items] /\ e.usual = usual
  OBVIOUS
<1>8. r.stack \in Seq(DOMAIN r.pals)
  <2>1. ASSUME NEW k \in 1..(n + 1)
        PROVE  r.stack[k] \in 1..(m + 1)
    <3> HIDE DEF r, m, n
    <3>1. CASE k = 1
      BY <1>1, <1>4, <3>1
    <3>2. CASE k # 1
      <4>1. k - 1 \in 1..n /\ r.stack[k] = s.stack[k - 1]
        BY <1>4, <3>2
      <4>2. QED
        BY <1>1, <1>5, <4>1
    <3>3. QED
      BY <3>1, <3>2
  <2> HIDE DEF r, m, n
  <2>2. r.stack = [k \in 1..(n + 1) |-> r.stack[k]]
    BY <1>2
  <2>3. n + 1 \in Nat
    BY <1>1
  <2>4. QED
    BY <1>3, <2>1, <2>2, <2>3, SeqOf
<1>9. \A j, k \in 1..(n + 1) : r.stack[j] = r.stack[k] => j = k
  <2> HIDE DEF r, m, n
  <2>1. SUFFICES ASSUME NEW j \in 1..(n + 1), NEW k \in 1..(n + 1), r.stack[j] = r.stack[k]
                 PROVE  j = k
    OBVIOUS
  <2>2. CASE j = 1 \/ k = 1
    <3>1. \A l \in 1..(n + 1) : l # 1 => r.stack[l] \in 1..m
      BY <1>4, <1>5
    <3>2. m + 1 \notin 1..m
      BY <1>1
    <3>3. QED
      BY <1>4, <2>1, <2>2, <3>1, <3>2
  <2>3. CASE j # 1 /\ k # 1
    <3>1. j - 1 = k - 1
      BY <1>4, <1>6, <2>1, <2>3
    <3>2. QED
      BY <1>1, <2>1, <3>1
  <2>4. QED
    BY <2>2, <2>3
<1>10. \A p \in 1..(m + 1) : \E k \in 1..(n + 1) : r.stack[k] = p
  <2>1. SUFFICES ASSUME NEW p \in 1..(m + 1)
                 PROVE  \E k \in 1..(n + 1) : r.stack[k] = p
    OBVIOUS
  <2> HIDE DEF r, m, n
  <2>2. CASE p = m + 1
    BY <1>1, <1>4, <2>2
  <2>3. CASE p # m + 1
    <3>1. p \in 1..m
      BY <1>1, <2>1, <2>3
    <3>2. PICK j \in 1..n : s.stack[j] = p
      BY <1>1, <3>1 DEF ShelfOK
    <3>3. j + 1 \in 1..(n + 1) /\ j + 1 # 1 /\ (j + 1) - 1 = j
      BY <1>1, <3>2
    <3>4. r.stack[j + 1] = p
      BY <1>4, <3>2, <3>3
    <3>5. QED
      BY <3>3, <3>4
  <2>4. QED
    BY <2>2, <2>3
<1>11. ListedOnce(r)
  <2>1. SUFFICES ASSUME NEW p \in 1..(m + 1), NEW q \in 1..(m + 1),
                        r.pals[p].usual \intersect r.pals[q].usual # {}
                 PROVE  p = q
    BY <1>3 DEF ListedOnce
  <2> HIDE DEF r, m, e
  <2>2. \A k \in 1..(m + 1) : k = m + 1 \/ k \in 1..m
    BY <1>1
  <2>3. \A k \in 1..m : s.pals[k].usual \intersect usual = {}
    BY <1>1
  <2>4. \A j, k \in 1..m : s.pals[j].usual \intersect s.pals[k].usual # {} => j = k
    BY <1>1 DEF ShelfOK, ListedOnce
  <2>5. QED
    BY <1>3, <1>7, <2>1, <2>2, <2>3, <2>4
<1>12. Len(r.pals) \in Nat /\ r.pals = [p \in 1..Len(r.pals) |-> r.pals[p]]
  <2> HIDE DEF r, m, e, T
  <2>1. QED
    BY <1>3
<1>13. \A p \in DOMAIN r.pals : r.pals[p] = [name |-> r.pals[p].name,
                                             usual |-> r.pals[p].usual,
                                             items |-> r.pals[p].items]
  <2> HIDE DEF r, m, e
  <2>1. \A p \in 1..m : s.pals[p] = [name |-> s.pals[p].name, usual |-> s.pals[p].usual,
                                     items |-> s.pals[p].items]
    BY <1>1 DEF ShelfOK
  <2>2. \A k \in 1..(m + 1) : k = m + 1 \/ k \in 1..m
    BY <1>1
  <2>3. QED
    BY <1>3, <1>7, <2>1, <2>2
<1>14. ShelfOK(r)
  <2> HIDE DEF r, m, n
  <2>1. QED
    BY <1>2, <1>3, <1>4, <1>8, <1>9, <1>10, <1>11, <1>12, <1>13 DEF ShelfOK
<1>15. QED
  <2>1. Top(r) = m + 1 /\ m + 1 \notin 1..m /\ 1..(m + 1) = (1..m) \union {m + 1}
    BY <1>1, <1>4 DEF Top
  <2>2. e.name = p_name
    OBVIOUS
  <2> HIDE DEF r, m, n, e
  <2>3. QED
    BY <1>1, <1>3, <1>7, <1>14, <2>1, <2>2 DEF r

(* A field moved from its palette to another one.                          *)
LEMMA SubscribedOK ==
  ASSUME NEW s, ShelfOK(s), NEW id \in DOMAIN s.pals, NEW name,
         NEW r, r = Subscribed(s, id, name)
  PROVE  /\ ShelfOK(r)
         /\ r.stack = s.stack
         /\ DOMAIN r.pals = DOMAIN s.pals
         /\ \A p \in DOMAIN s.pals : r.pals[p].name = s.pals[p].name
         /\ r.pals[id].usual = s.pals[id].usual \union {name}
         /\ \A p \in DOMAIN s.pals \ {id} : r.pals[p].usual = s.pals[p].usual \ {name}
<1> DEFINE m == Len(s.pals)
<1>1. /\ m \in Nat /\ DOMAIN s.pals = 1..m
      /\ s = [pals |-> s.pals, stack |-> s.stack]
      /\ \A p \in 1..m : s.pals[p] = [name |-> s.pals[p].name, usual |-> s.pals[p].usual,
                                      items |-> s.pals[p].items]
  <2>1. m \in Nat /\ s.pals = [p \in 1..m |-> s.pals[p]]
    BY DEF ShelfOK
  <2>2. DOMAIN s.pals = 1..m
    BY <2>1
  <2>3. QED
    BY <2>1, <2>2 DEF ShelfOK
<1>2. r = [pals |-> r.pals, stack |-> s.stack]
  <2> DEFINE q == [p \in DOMAIN s.pals |-> LET pal == s.pals[p]
                                           IN  [pal EXCEPT !.usual =
                                                  IF p = id THEN @ \union {name} ELSE @ \ {name}]]
  <2>1. r = [s EXCEPT !.pals = q]
    BY DEF Subscribed
  <2> HIDE DEF q
  <2>2. QED
    BY <1>1, <2>1
<1>3. r.pals = [p \in 1..m |-> LET pal == s.pals[p]
                              IN  [pal EXCEPT !.usual = IF p = id THEN @ \union {name}
                                                        ELSE @ \ {name}]]
  BY <1>1 DEF Subscribed
<1>4. ASSUME NEW p \in 1..m
      PROVE  /\ r.pals[p].name = s.pals[p].name
             /\ r.pals[p].usual = IF p = id THEN s.pals[p].usual \union {name}
                                  ELSE s.pals[p].usual \ {name}
             /\ r.pals[p] = [name |-> r.pals[p].name, usual |-> r.pals[p].usual,
                             items |-> r.pals[p].items]
  <2> DEFINE u == IF p = id THEN s.pals[p].usual \union {name} ELSE s.pals[p].usual \ {name}
             pal == s.pals[p]
  <2>1. r.pals[p] = [pal EXCEPT !.usual = u]
    <3> HIDE DEF m
    <3>1. QED
      BY <1>3
  <2>2. pal = [name |-> pal.name, usual |-> pal.usual, items |-> pal.items]
    BY <1>1
  <2> HIDE DEF m, u, pal
  <2>3. r.pals[p] = [name |-> pal.name, usual |-> u, items |-> pal.items]
    BY <2>1, <2>2
  <2>4. /\ r.pals[p].name = pal.name /\ r.pals[p].usual = u
        /\ r.pals[p] = [name |-> r.pals[p].name, usual |-> r.pals[p].usual,
                        items |-> r.pals[p].items]
    BY <2>3
  <2>5. QED
    BY <2>4 DEF u, pal
<1>5. DOMAIN r.pals = 1..m /\ Len(r.pals) = m /\ r.pals = [p \in 1..m |-> r.pals[p]]
  <2> HIDE DEF m
  <2>1. QED
    BY <1>1, <1>3
<1>6. ListedOnce(r)
  <2>1. SUFFICES ASSUME NEW p \in 1..m, NEW q \in 1..m,
                        NEW n \in r.pals[p].usual, n \in r.pals[q].usual
                 PROVE  p = q
    BY <1>5 DEF ListedOnce
  <2> HIDE DEF m
  <2>2. \A j, k \in 1..m : n \in s.pals[j].usual /\ n \in s.pals[k].usual => j = k
    BY <1>1 DEF ShelfOK, ListedOnce
  <2>3. ASSUME NEW k \in 1..m, n \in r.pals[k].usual
        PROVE  (n = name => k = id) /\ (n # name => n \in s.pals[k].usual)
    <3>1. r.pals[k].usual = IF k = id THEN s.pals[k].usual \union {name}
                            ELSE s.pals[k].usual \ {name}
      BY <1>4
    <3>2. QED
      BY <2>3, <3>1
  <2>4. (n = name => p = id) /\ (n # name => n \in s.pals[p].usual)
    BY <2>1, <2>3
  <2>5. (n = name => q = id) /\ (n # name => n \in s.pals[q].usual)
    BY <2>1, <2>3
  <2>6. QED
    BY <2>2, <2>4, <2>5
<1>7. ShelfOK(r)
  <2>1. r.stack = s.stack /\ r = [pals |-> r.pals, stack |-> r.stack]
    BY <1>2
  <2> HIDE DEF m
  <2>2. /\ s.stack \in Seq(DOMAIN s.pals)
        /\ \A i, j \in DOMAIN s.stack : s.stack[i] = s.stack[j] => i = j
        /\ \A p \in DOMAIN s.pals : \E i \in DOMAIN s.stack : s.stack[i] = p
    BY DEF ShelfOK
  <2>3. /\ DOMAIN r.pals = DOMAIN s.pals
        /\ Len(r.pals) \in Nat /\ r.pals = [p \in 1..Len(r.pals) |-> r.pals[p]]
        /\ \A p \in DOMAIN r.pals : r.pals[p] = [name |-> r.pals[p].name,
                                                 usual |-> r.pals[p].usual,
                                                 items |-> r.pals[p].items]
    BY <1>1, <1>4, <1>5
  <2>4. QED
    BY <1>6, <2>1, <2>2, <2>3 DEF ShelfOK
<1>8. r.stack = s.stack
  BY <1>2
<1>9. QED
  <2> HIDE DEF m
  <2>1. QED
    BY <1>1, <1>4, <1>5, <1>7, <1>8

(* A field listed where it was is found where it was.                      *)
LEMMA LookupSame ==
  ASSUME NEW s, ShelfOK(s), NEW r, ShelfOK(r), NEW n,
         DOMAIN s.pals \subseteq DOMAIN r.pals,
         \A p \in DOMAIN s.pals : n \in s.pals[p].usual => n \in r.pals[p].usual,
         Lookup(s, n) # 0
  PROVE  Lookup(r, n) = Lookup(s, n)
<1>1. PICK p \in DOMAIN s.pals : n \in s.pals[p].usual
  BY LookupUnlisted
<1>2. Lookup(s, n) = p
  BY <1>1, LookupListed
<1>3. p \in DOMAIN r.pals /\ n \in r.pals[p].usual
  BY <1>1
<1>4. Lookup(r, n) = p
  BY <1>3, LookupListed
<1>5. QED
  BY <1>2, <1>4

(* The first of some places of the stack is one of them.                   *)
LEMMA FirstIn ==
  ASSUME NEW s, ShelfOK(s), NEW places \in SUBSET (DOMAIN s.stack), First(places) # 0
  PROVE  First(places) \in places
<1>1. s.stack \in Seq(DOMAIN s.pals)
  BY DEF ShelfOK
<1>2. Len(s.stack) \in Nat /\ DOMAIN s.stack = 1..Len(s.stack)
  BY <1>1
<1>3. IsFiniteSet(1..Len(s.stack))
  BY <1>2, FS_Interval
<1>4. IsFiniteSet(places) /\ places \in SUBSET Int
  BY <1>2, <1>3, FS_Subset
<1>5. places # {}
  BY DEF First
<1>6. \E i \in places : \A j \in places : i <= j
  BY <1>4, <1>5, LeastElement
<1>7. QED
  BY <1>5, <1>6 DEF First

(* sii_set_palette, which every set-up of a frame for a plot calls: a      *)
(* field keeps the palette it has, one without is given a palette of its   *)
(* own, every other field keeps its palette, and the stack stays whole.    *)
THEOREM SetPaletteKeepsOthers ==
  ASSUME NEW s, ShelfOK(s), NEW name
  PROVE  LET r == SetPalette(s, name)
         IN  /\ ShelfOK(r)
             /\ Lookup(r, name) = Top(r)
             /\ \A n : Lookup(s, n) # 0 => Lookup(r, n) = Lookup(s, n)
<1> DEFINE i == palette_for_param(s, name)
           r == SetPalette(s, name)
<1>1. ASSUME NEW p \in DOMAIN s.pals, name \in s.pals[p].usual
      PROVE  /\ ShelfOK(r)
             /\ Lookup(r, name) = Top(r)
             /\ \A n : Lookup(s, n) # 0 => Lookup(r, n) = Lookup(s, n)
  <2>1. i \in DOMAIN s.stack /\ s.stack[i] = p
    BY <1>1, LookupListed
  <2>2. i # 0
    <3>1. s.stack \in Seq(DOMAIN s.pals)
      BY DEF ShelfOK
    <3>2. QED
      BY <2>1, <3>1
  <2>3. r = MovedToTop(s, i)
    BY <2>2 DEF SetPalette
  <2> HIDE DEF r, i
  <2>4. ShelfOK(r) /\ r.pals = s.pals /\ Top(r) = p
    BY <2>1, <2>3, MovedOK
  <2>5. Lookup(r, name) = p
    BY <1>1, <2>4, LookupListed
  <2>6. \A n : Lookup(s, n) # 0 => Lookup(r, n) = Lookup(s, n)
    BY <2>4, LookupSame
  <2>7. QED
    BY <2>4, <2>5, <2>6
<1>2. ASSUME \A p \in DOMAIN s.pals : name \notin s.pals[p].usual
      PROVE  /\ ShelfOK(r)
             /\ Lookup(r, name) = Top(r)
             /\ \A n : Lookup(s, n) # 0 => Lookup(r, n) = Lookup(s, n)
  <2>1. i = 0
    BY <1>2, LookupUnlisted
  <2>2. r = Made(s, "p_" \o name, {name})
    BY <2>1 DEF SetPalette
  <2>3. \A p \in DOMAIN s.pals : s.pals[p].usual \intersect {name} = {}
    BY <1>2
  <2> HIDE DEF r, i
  <2>4. /\ ShelfOK(r)
        /\ DOMAIN r.pals = DOMAIN s.pals \union {Top(r)}
        /\ r.pals[Top(r)].usual = {name}
        /\ \A p \in DOMAIN s.pals : r.pals[p] = s.pals[p]
    BY <2>2, <2>3, MadeOK
  <2>5. Lookup(r, name) = Top(r)
    BY <2>4, LookupListed
  <2>6. \A n : Lookup(s, n) # 0 => Lookup(r, n) = Lookup(s, n)
    BY <2>4, LookupSame
  <2>7. QED
    BY <2>4, <2>5, <2>6
<1>3. QED
  BY <1>1, <1>2

(* sii_new_palette_for_param, for a field that is named: the palette       *)
(* chosen for it is the one it is found with, has the name that was typed, *)
(* and no other field is given another palette.                            *)
THEOREM NewPaletteKeepsOthers ==
  ASSUME NEW s, ShelfOK(s), NEW p_name, NEW name, name # NoName
  PROVE  LET r == NewPaletteForParam(s, p_name, name)
         IN  /\ ShelfOK(r)
             /\ Lookup(r, name) = Top(r) /\ r.pals[Top(r)].name = p_name
             /\ \A n : n # name /\ Lookup(s, n) # 0 => Lookup(r, n) = Lookup(s, n)
<1> DEFINE i == palette_seek(s, p_name)
           top == IF i = 0 THEN Made(s, p_name, {}) ELSE MovedToTop(s, i)
           r == NewPaletteForParam(s, p_name, name)
<1>1. /\ ShelfOK(top)
      /\ DOMAIN s.pals \subseteq DOMAIN top.pals
      /\ \A p \in DOMAIN s.pals : top.pals[p].usual = s.pals[p].usual
      /\ Top(top) \in DOMAIN top.pals /\ top.pals[Top(top)].name = p_name
  <2>1. CASE i = 0
    <3>1. top = Made(s, p_name, {})
      BY <2>1
    <3>2. \A p \in DOMAIN s.pals : s.pals[p].usual \intersect {} = {}
      OBVIOUS
    <3> HIDE DEF top, i
    <3>3. QED
      BY <3>1, <3>2, MadeOK
  <2>2. CASE i # 0
    <3> DEFINE places == {k \in DOMAIN s.stack : s.pals[s.stack[k]].name = p_name}
    <3>1. i \in places
      BY <2>2, FirstIn DEF palette_seek
    <3>2. i \in DOMAIN s.stack /\ s.pals[s.stack[i]].name = p_name
      BY <3>1
    <3>3. s.stack[i] \in DOMAIN s.pals
      <4>1. s.stack \in Seq(DOMAIN s.pals)
        BY DEF ShelfOK
      <4> HIDE DEF i
      <4>2. QED
        BY <3>2, <4>1
    <3>4. top = MovedToTop(s, i)
      BY <2>2
    <3> HIDE DEF top, i
    <3>5. ShelfOK(top) /\ top.pals = s.pals /\ Top(top) = s.stack[i]
      BY <3>2, <3>4, MovedOK
    <3>6. QED
      BY <3>2, <3>3, <3>5
  <2>3. QED
    BY <2>1, <2>2
<1>2. r = Subscribed(top, Top(top), name)
  BY DEF NewPaletteForParam
<1> HIDE DEF top, r
<1>3. /\ ShelfOK(r) /\ r.stack = top.stack /\ DOMAIN r.pals = DOMAIN top.pals
      /\ \A p \in DOMAIN top.pals : r.pals[p].name = top.pals[p].name
      /\ r.pals[Top(top)].usual = top.pals[Top(top)].usual \union {name}
      /\ \A p \in DOMAIN top.pals \ {Top(top)} : r.pals[p].usual = top.pals[p].usual \ {name}
  BY <1>1, <1>2, SubscribedOK
<1>4. Top(r) = Top(top)
  BY <1>3 DEF Top
<1>5. name \in r.pals[Top(r)].usual /\ Top(r) \in DOMAIN r.pals
  BY <1>1, <1>3, <1>4
<1>6. Lookup(r, name) = Top(r)
  BY <1>3, <1>5, LookupListed
<1>7. ASSUME NEW n, n # name, Lookup(s, n) # 0
      PROVE  Lookup(r, n) = Lookup(s, n)
  <2>1. \A p \in DOMAIN s.pals : n \in s.pals[p].usual => n \in r.pals[p].usual
    BY <1>1, <1>3, <1>7
  <2>2. DOMAIN s.pals \subseteq DOMAIN r.pals
    BY <1>1, <1>3
  <2>3. QED
    BY <1>3, <1>7, <2>1, <2>2, LookupSame
<1>8. QED
  BY <1>1, <1>3, <1>4, <1>6, <1>7 DEF r

=============================================================================
