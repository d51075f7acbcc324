------------------------- MODULE ChapterBlocksProofs -------------------------
(***************************************************************************)
(* Proofs about ChapterBlocks, for every content and every list of         *)
(* operations.                                                             *)
(*                                                                         *)
(* The scanner: a block begins where a token is read at the top level, and *)
(* two contents that read the same from the same depth on have the same    *)
(* blocks from there on. So the blocks of a split are blocks in a row:     *)
(* each begins at its first token and at no other, wherever it stands.     *)
(* Joining: gluing is associative, and a content glued to blocks in a row  *)
(* has at most so many blocks more; where it has all of them, they are the *)
(* blocks that were joined.                                                *)
(* Edits: the operations are sorted from the back, so when those behind a  *)
(* block are done the blocks up to it stand where they stood, and what is  *)
(* behind it joins to what was meant.                                      *)
(*                                                                         *)
(* Induction: a statement about every number is a set of numbers, and a    *)
(* number outside it is refuted by the least of them. So the recursive     *)
(* functions of the model are functions.                                   *)
(***************************************************************************)
EXTENDS ChapterBlocks, TLAPS, WellFoundedInduction, SequenceTheorems, FiniteSetTheorems

-----------------------------------------------------------------------------
(* Induction, as least counterexamples.                                    *)

(* A set of numbers has a least one.                                      *)
LEMMA LeastOf ==
    ASSUME NEW T, T \subseteq Nat, T # {}
    PROVE  \E m \in T : \A k \in T : m <= k
<1> DEFINE R == {ss \in Nat \X Nat : ss[1] < ss[2]}
<1>1. OpToRel(<, Nat) = R
  BY DEF OpToRel
<1>2. IsWellFoundedOn(R, Nat)
  BY <1>1, NatLessThanWellFounded
<1>3. \E m \in T : \A k \in T : ~(<<k, m>> \in R)
  <2> HIDE DEF R
  <2> QED
    BY <1>2, WFMin
<1>4. PICK m \in T : \A k \in T : <<k, m>> \notin R
  BY <1>3
<1>5. ASSUME NEW k \in T, k < m
      PROVE  FALSE
  <2>1. <<k, m>> \in R
    BY <1>5
  <2> QED
    BY <1>4, <2>1
<1> QED
  BY <1>5

(* What holds of 0, and of n + 1 if of n, holds of every natural number.   *)
LEMMA Induction ==
    ASSUME NEW T, 0 \in T, \A n \in Nat : n \in T => n + 1 \in T
    PROVE  Nat \subseteq T
<1> SUFFICES ASSUME Nat \ T # {} PROVE FALSE
  OBVIOUS
<1>1. PICK m \in Nat \ T : \A k \in Nat \ T : m <= k
  BY LeastOf
<1>2. m - 1 \in Nat /\ m - 1 \notin T
  BY <1>1
<1> QED
  BY <1>1, <1>2

(* Every set of naturals under a bound has a greatest element: the least   *)
(* of its bounds.                                                          *)
LEMMA MaxOfBounded ==
    ASSUME NEW S, S \subseteq Nat, S # {}, NEW m \in Nat, \A s \in S : s <= m
    PROVE  Max(S) \in S /\ \A s \in S : s <= Max(S)
<1> DEFINE Bounds == {b \in Nat : \A s \in S : s <= b}
<1>1. PICK b \in Bounds : \A y \in Bounds : b <= y
  BY LeastOf
<1>2. b \in S
  <2> SUFFICES ASSUME b \notin S PROVE FALSE
    OBVIOUS
  <2>0. PICK s \in S : TRUE
    OBVIOUS
  <2>1. b - 1 \in Nat /\ \A x \in S : x <= b - 1
    BY <2>0
  <2>2. b - 1 \in Bounds
    BY <2>1
  <2> QED
    BY <1>1, <2>2
<1>3. \E x \in S : \A y \in S : x >= y
  BY <1>2
<1> QED
  BY <1>3 DEF Max

(* Min is one of the numbers, and below the others.                       *)
LEMMA MinOf ==
    ASSUME NEW S, S \subseteq Nat, S # {}
    PROVE  Min(S) \in S /\ \A s \in S : Min(S) <= s
BY LeastOf DEF Min

(* A function may be defined by what it is at 0 and by a step: for every n *)
(* there is one up to n, they agree, and together they are it.             *)
Iterates(f, S, first, step) ==
    f \in [Nat -> S] /\ f[0] = first /\ \A n \in Nat : f[n + 1] = step[<<n, f[n]>>]

(* There is such a function, whatever the step.                           *)
LEMMA Recursion ==
    ASSUME NEW S, NEW first \in S, NEW step \in [Nat \X S -> S]
    PROVE  \E f : Iterates(f, S, first, step)
<1> DEFINE UpTo(n, g) == /\ g \in [0 .. n -> S] /\ g[0] = first
                         /\ \A i \in 0 .. n - 1 : g[i + 1] = step[<<i, g[i]>>]
           T == {n \in Nat : \E g : UpTo(n, g)}
<1>1. Nat \subseteq T
  <2>1. 0 \in T
    <3>1. UpTo(0, [i \in 0 .. 0 |-> first])
      OBVIOUS
    <3> QED
      BY <3>1
  <2>2. ASSUME NEW n \in Nat, n \in T
        PROVE  n + 1 \in T
    <3>1. PICK g : UpTo(n, g)
      BY <2>2
    <3> DEFINE h == [i \in 0 .. n + 1 |-> IF i = n + 1 THEN step[<<n, g[n]>>] ELSE g[i]]
    <3>2. h \in [0 .. n + 1 -> S]
      BY <3>1
    <3>3. \A i \in 0 .. n : h[i + 1] = step[<<i, h[i]>>]
      <4> TAKE i \in 0 .. n
      <4>1. CASE i = n
        <5>1. h[n + 1] = step[<<n, g[n]>>] /\ h[n] = g[n]
          OBVIOUS
        <5> QED
          BY <4>1, <5>1
      <4>2. CASE i # n
        BY <3>1, <4>2
      <4> QED
        BY <4>1, <4>2
    <3>4. h[0] = first
      BY <3>1
    <3>5. \E k : UpTo(n + 1, k)
      <4> HIDE DEF h
      <4>1. UpTo(n + 1, h)
        BY <3>2, <3>3, <3>4
      <4> QED
        BY <4>1
    <3> QED
      BY <3>5
  <2> HIDE DEF T
  <2> QED
    BY <2>1, <2>2, Induction
<1>2. ASSUME NEW n \in Nat, NEW m \in Nat, NEW g, NEW h, UpTo(n, g), UpTo(m, h)
      PROVE  \A i \in Nat : i <= n /\ i <= m => g[i] = h[i]
  <2> DEFINE U == {i \in Nat : i <= n /\ i <= m => g[i] = h[i]}
  <2>1. 0 \in U
    BY <1>2
  <2>2. ASSUME NEW i \in Nat, i \in U
        PROVE  i + 1 \in U
    <3> SUFFICES ASSUME i + 1 <= n, i + 1 <= m PROVE g[i + 1] = h[i + 1]
      OBVIOUS
    <3>1. g[i] = h[i] /\ i \in 0 .. n - 1 /\ i \in 0 .. m - 1
      BY <2>2
    <3>2. g[i + 1] = step[<<i, g[i]>>] /\ h[i + 1] = step[<<i, h[i]>>]
      BY <1>2, <3>1
    <3> QED
      BY <3>1, <3>2
  <2>3. Nat \subseteq U
    <3> HIDE DEF U
    <3> QED
      BY <2>1, <2>2, Induction
  <2> QED
    BY <2>3
<1> DEFINE G(n) == CHOOSE g : UpTo(n, g)
           f == [n \in Nat |-> G(n)[n]]
<1>3. \A n \in Nat : UpTo(n, G(n))
  BY <1>1
<1>4. f \in [Nat -> S] /\ f[0] = first
  <2> HIDE DEF G
  <2>1. \A n \in Nat : G(n)[n] \in S
    BY <1>3
  <2> QED
    BY <1>3, <2>1
<1>5. ASSUME NEW n \in Nat
      PROVE  f[n + 1] = step[<<n, f[n]>>]
  <2> HIDE DEF G
  <2>1. G(n + 1)[n + 1] = step[<<n, G(n + 1)[n]>>]
    <3>1. UpTo(n + 1, G(n + 1))
      BY <1>3
    <3> QED
      BY <3>1
  <2>2. G(n + 1)[n] = G(n)[n]
    <3>1. UpTo(n + 1, G(n + 1)) /\ UpTo(n, G(n))
      BY <1>3
    <3> HIDE DEF UpTo
    <3> QED
      BY <1>2, <3>1
  <2> QED
    BY <2>1, <2>2
<1> QED
  BY <1>4, <1>5 DEF Iterates

(* The same for a function on 0 .. N, as TLA+ defines it by CHOOSE.        *)
RunsUpTo(f, N, S, first, step) ==
    f \in [0 .. N -> S] /\ f[0] = first /\ \A n \in 1 .. N : f[n] = step[<<n, f[n - 1]>>]

(* There is such a function, for every step.                               *)
LEMMA RecursionUpTo ==
    ASSUME NEW S, NEW first \in S, NEW N \in Nat, NEW step \in [(1 .. N) \X S -> S]
    PROVE  \E f : RunsUpTo(f, N, S, first, step)
<1> DEFINE next == [x \in Nat \X S |-> IF x[1] < N THEN step[<<x[1] + 1, x[2]>>] ELSE x[2]]
<1>1. next \in [Nat \X S -> S]
  <2>1. ASSUME NEW x \in Nat \X S
        PROVE  (IF x[1] < N THEN step[<<x[1] + 1, x[2]>>] ELSE x[2]) \in S
    <3>1. x[1] \in Nat /\ x[2] \in S
      OBVIOUS
    <3>2. CASE x[1] < N
      <4>1. <<x[1] + 1, x[2]>> \in (1 .. N) \X S
        BY <3>1, <3>2
      <4> QED
        BY <3>2, <4>1
    <3> QED
      BY <3>1, <3>2
  <2> QED
    BY <2>1
<1>2. PICK g : Iterates(g, S, first, next)
  <2> HIDE DEF next
  <2> QED
    BY <1>1, Recursion
<1> DEFINE h == [n \in 0 .. N |-> g[n]]
<1>3. RunsUpTo(h, N, S, first, step)
  <2>1. h \in [0 .. N -> S] /\ h[0] = first
    BY <1>2 DEF Iterates
  <2>2. ASSUME NEW n \in 1 .. N
        PROVE  h[n] = step[<<n, h[n - 1]>>]
    <3>1. n - 1 \in Nat /\ (n - 1) + 1 = n /\ n - 1 < N
      OBVIOUS
    <3>2. g[n] = next[<<n - 1, g[n - 1]>>] /\ g[n - 1] \in S
      <4>1. g[(n - 1) + 1] = next[<<n - 1, g[n - 1]>>] /\ g[n - 1] \in S
        <5> HIDE DEF next
        <5> QED
          BY <1>2, <3>1 DEF Iterates
      <4> QED
        BY <3>1, <4>1
    <3>3. next[<<n - 1, g[n - 1]>>] = step[<<n, g[n - 1]>>]
      BY <3>1, <3>2
    <3> QED
      BY <3>1, <3>2, <3>3
  <2> QED
    BY <2>1, <2>2 DEF RunsUpTo
<1> QED
  BY <1>3

(* And whatever runs so stays where its steps stay.                        *)
LEMMA StaysUpTo ==
    ASSUME NEW S, NEW N \in Nat, NEW F, DOMAIN F = 0 .. N, F = [n \in DOMAIN F |-> F[n]],
           F[0] \in S, \A n \in 1 .. N : F[n - 1] \in S => F[n] \in S
    PROVE  F \in [0 .. N -> S]
<1> DEFINE T == {n \in Nat : n <= N => F[n] \in S}
<1>1. 0 \in T
  OBVIOUS
<1>2. ASSUME NEW n \in Nat, n \in T
      PROVE  n + 1 \in T
  <2> SUFFICES ASSUME n + 1 <= N PROVE F[n + 1] \in S
    OBVIOUS
  <2>1. n + 1 \in 1 .. N /\ (n + 1) - 1 = n /\ F[n] \in S
    BY <1>2
  <2> QED
    BY <2>1
<1>3. Nat \subseteq T
  <2> HIDE DEF T
  <2> QED
    BY <1>1, <1>2, Induction
<1>4. \A n \in 0 .. N : F[n] \in S
  BY <1>3
<1> QED
  BY <1>4

-----------------------------------------------------------------------------
(* The scanner.                                                            *)

(* The strings of the model are spelled out: to the provers a literal is   *)
(* not known to be a string.                                               *)
Tags == STRING \union {"text", "p", "-"}
(* What a content is made of, as the provers can see it.                   *)
AnyToken == [kind : Kinds, tag : Tags]

(* The scanner's state.                                                    *)
Scans == [depth : Nat, textOpen : BOOLEAN, cuts : Seq([at : Nat, tag : Tags])]

(* A block begins at a token read at the top level, unless it goes on with *)
(* the text before it.                                                     *)
Begins(scan, token) ==
    /\ scan.depth = 0
    /\ \/ token.kind \in {"open", "void"}
       \/ token.kind \in {"close", "text"} /\ ~scan.textOpen

(* The tag of the block that begins at a token.                            *)
TagOf(token) == IF token.kind \in {"open", "void"} THEN token.tag ELSE "text"

(* The depth after a token.                                                *)
Deeper(depth, token) ==
    IF token.kind = "open" THEN depth + 1
    ELSE IF token.kind = "close" /\ depth # 0 THEN depth - 1 ELSE depth

(* Only the depth changes.                                                 *)
LEMMA DepthSet ==
    ASSUME NEW scan \in Scans, NEW d \in Nat
    PROVE  /\ [scan EXCEPT !.depth = d] \in Scans
           /\ [scan EXCEPT !.depth = d].depth = d
           /\ [scan EXCEPT !.depth = d].textOpen = scan.textOpen
           /\ [scan EXCEPT !.depth = d].cuts = scan.cuts
BY DEF Scans

(* One token, whatever came before it.                                     *)
LEMMA ReadsOne ==
    ASSUME NEW scan \in Scans, NEW token \in AnyToken, NEW i \in Nat
    PROVE  /\ Reads(scan, token, i) \in Scans
           /\ Reads(scan, token, i).depth = Deeper(scan.depth, token)
           /\ Begins(scan, token) =>
                /\ Reads(scan, token, i).textOpen <=> token.kind \in {"close", "text"}
                /\ Reads(scan, token, i).cuts
                     = Append(scan.cuts, [at |-> i, tag |-> TagOf(token)])
           /\ ~Begins(scan, token) =>
                /\ Reads(scan, token, i).textOpen = scan.textOpen
                /\ Reads(scan, token, i).cuts = scan.cuts
<1>1. token.tag \in Tags /\ token.kind \in Kinds
  BY DEF AnyToken
<1> PICK d \in Nat, t \in BOOLEAN, cuts \in Seq([at : Nat, tag : Tags]) :
         scan = [depth |-> d, textOpen |-> t, cuts |-> cuts]
  BY DEF Scans
<1>2. scan.depth = d /\ scan.textOpen = t /\ scan.cuts = cuts /\ scan \in Scans
  OBVIOUS
<1> DEFINE cut == [at |-> i, tag |-> TagOf(token)]
<1>3. Append(cuts, cut) \in Seq([at : Nat, tag : Tags])
  <2>1. cut \in [at : Nat, tag : Tags]
    <3>1. TagOf(token) \in Tags
      <4>1. "text" \in Tags
        BY DEF Tags
      <4>2. TagOf(token) = token.tag \/ TagOf(token) = "text"
        BY DEF TagOf
      <4> QED
        BY <1>1, <4>1, <4>2
    <3> QED
      BY <3>1
  <2> HIDE DEF cut
  <2> QED
    BY <2>1
<1> HIDE DEF cut
<1>4. CASE Begins(scan, token)
  <2>1. d = 0 /\ (token.kind \in {"open", "void"} \/ (token.kind \in {"close", "text"} /\ ~t))
    BY <1>2, <1>4 DEF Begins
  <2>2. CASE token.kind = "open"
    <3>1. Reads(scan, token, i) = [Cut(scan, i, token.tag, FALSE) EXCEPT !.depth = scan.depth + 1]
      BY <2>2 DEF Reads
    <3>2. Cut(scan, i, token.tag, FALSE)
            = [depth |-> 0, textOpen |-> FALSE, cuts |-> Append(cuts, cut)]
      BY <1>2, <2>1, <2>2 DEF Cut, cut, TagOf
    <3>3. PICK begun \in Scans :
             /\ begun = Cut(scan, i, token.tag, FALSE)
             /\ ~begun.textOpen /\ begun.cuts = Append(cuts, cut)
      <4>1. [depth |-> 0, textOpen |-> FALSE, cuts |-> Append(cuts, cut)] \in Scans
        BY <1>3 DEF Scans
      <4> QED
        BY <3>2, <4>1
    <3>4. scan.depth + 1 = 1
      BY <1>2, <2>1
    <3>5. Reads(scan, token, i) = [begun EXCEPT !.depth = 1]
      BY <3>1, <3>3, <3>4
    <3>6. Deeper(scan.depth, token) = 1
      BY <2>2, <3>4 DEF Deeper
    <3>7. /\ [begun EXCEPT !.depth = 1] \in Scans
          /\ [begun EXCEPT !.depth = 1].depth = 1
          /\ [begun EXCEPT !.depth = 1].textOpen = begun.textOpen
          /\ [begun EXCEPT !.depth = 1].cuts = begun.cuts
      BY DepthSet
    <3> QED
      BY <1>2, <1>4, <2>2, <3>3, <3>5, <3>6, <3>7 DEF cut
  <2>3. CASE token.kind = "void"
    <3>1. Reads(scan, token, i) = Cut(scan, i, token.tag, FALSE)
      BY <2>3 DEF Reads
    <3>2. Reads(scan, token, i) = [depth |-> 0, textOpen |-> FALSE, cuts |-> Append(cuts, cut)]
      BY <1>2, <2>1, <2>3, <3>1 DEF Cut, cut, TagOf
    <3>3. Deeper(scan.depth, token) = 0
      BY <1>2, <2>1, <2>3 DEF Deeper
    <3>4. [depth |-> 0, textOpen |-> FALSE, cuts |-> Append(cuts, cut)] \in Scans
      BY <1>3 DEF Scans
    <3> QED
      BY <1>2, <1>4, <2>3, <3>2, <3>3, <3>4 DEF cut
  <2>4. CASE token.kind \in {"close", "text"}
    <3>1. Reads(scan, token, i) = CutText(scan, i)
      BY <1>2, <2>1, <2>4 DEF Reads
    <3>2. CutText(scan, i) = Cut(scan, i, "text", TRUE)
      BY <1>2, <2>1, <2>4 DEF CutText
    <3>3. Reads(scan, token, i) = [depth |-> 0, textOpen |-> TRUE, cuts |-> Append(cuts, cut)]
      BY <1>2, <2>1, <2>4, <3>1, <3>2 DEF Cut, cut, TagOf
    <3>4. Deeper(scan.depth, token) = 0
      BY <1>2, <2>1, <2>4 DEF Deeper
    <3>5. [depth |-> 0, textOpen |-> TRUE, cuts |-> Append(cuts, cut)] \in Scans
      BY <1>3 DEF Scans
    <3> QED
      BY <1>2, <1>4, <2>4, <3>3, <3>4, <3>5 DEF cut
  <2> QED
    BY <2>1, <2>2, <2>3, <2>4
<1>5. CASE ~Begins(scan, token)
  <2>1. d # 0 \/ (token.kind \notin {"open", "void"} /\ (token.kind \in {"close", "text"} => t))
    BY <1>2, <1>5 DEF Begins
  <2>2. CASE token.kind = "open"
    <3>1. Reads(scan, token, i) = [Cut(scan, i, token.tag, FALSE) EXCEPT !.depth = scan.depth + 1]
      BY <2>2 DEF Reads
    <3>2. Cut(scan, i, token.tag, FALSE) = scan
      BY <1>2, <2>1, <2>2 DEF Cut
    <3>3. Reads(scan, token, i) = [scan EXCEPT !.depth = d + 1]
      BY <1>2, <3>1, <3>2
    <3>4. Deeper(scan.depth, token) = d + 1 /\ d + 1 \in Nat
      BY <1>2, <2>2 DEF Deeper
    <3> QED
      BY <1>2, <1>5, <3>3, <3>4, DepthSet
  <2>3. CASE token.kind = "close" /\ d # 0
    <3>1. Reads(scan, token, i) = [scan EXCEPT !.depth = scan.depth - 1]
      BY <1>2, <2>3 DEF Reads
    <3>2. Reads(scan, token, i) = [depth |-> d - 1, textOpen |-> t, cuts |-> cuts]
      BY <3>1
    <3>3. Deeper(scan.depth, token) = d - 1 /\ d - 1 \in Nat
      BY <1>2, <2>3 DEF Deeper
    <3> QED
      BY <1>2, <1>5, <3>2, <3>3 DEF Scans
  <2>4. CASE ~(token.kind = "open" \/ (token.kind = "close" /\ d # 0))
    <3>1. token.kind # "open"
      BY <2>4
    <3>2. Deeper(scan.depth, token) = scan.depth
      BY <1>2, <2>4 DEF Deeper
    <3>3. Reads(scan, token, i) = scan
      <4>1. CASE token.kind = "void"
        <5>1. Cut(scan, i, token.tag, FALSE) = scan
          BY <1>2, <2>1, <4>1 DEF Cut
        <5> QED
          BY <4>1, <5>1 DEF Reads
      <4>2. CASE token.kind \in {"close", "text"}
        <5>1. CutText(scan, i) = scan
          BY <1>2, <2>1, <4>2 DEF CutText, Cut
        <5> QED
          BY <1>2, <2>4, <4>2, <5>1 DEF Reads
      <4>3. CASE token.kind \in {"ws", "voidclose"}
        BY <4>3 DEF Reads
      <4> QED
        BY <1>1, <3>1, <4>1, <4>2, <4>3 DEF Kinds
    <3> QED
      BY <1>2, <1>5, <3>2, <3>3
  <2> QED
    BY <2>2, <2>3, <2>4
<1> QED
  BY <1>4, <1>5

(* The scanner, token after token.                                         *)
LEMMA ScansAll ==
    ASSUME NEW content \in Seq(AnyToken)
    PROVE  /\ Scanned(content) \in [0 .. Len(content) -> Scans]
           /\ Scanned(content)[0] = Unread
           /\ \A n \in 1 .. Len(content) :
                Scanned(content)[n] = Reads(Scanned(content)[n - 1], content[n], n)
<1> DEFINE N == Len(content)
           step == [x \in (1 .. N) \X Scans |-> Reads(x[2], content[x[1]], x[1])]
           Body(f) == [n \in 0 .. N |-> IF n = 0 THEN Unread ELSE Reads(f[n - 1], content[n], n)]
           Scan == CHOOSE f : f = Body(f)
<1>1. N \in Nat /\ \A n \in 1 .. N : n \in Nat /\ content[n] \in AnyToken
  OBVIOUS
<1>2. Unread \in Scans
  BY DEF Unread, Scans
<1>3. step \in [(1 .. N) \X Scans -> Scans]
  <2>1. ASSUME NEW x \in (1 .. N) \X Scans
        PROVE  Reads(x[2], content[x[1]], x[1]) \in Scans
    <3>1. x[1] \in 1 .. N /\ x[2] \in Scans
      OBVIOUS
    <3>2. x[1] \in Nat /\ content[x[1]] \in AnyToken
      BY <1>1, <3>1
    <3> QED
      BY <3>1, <3>2, ReadsOne
  <2> QED
    BY <2>1
<1>4. PICK F : RunsUpTo(F, N, Scans, Unread, step)
  <2> HIDE DEF step, N
  <2> QED
    BY <1>1, <1>2, <1>3, RecursionUpTo
<1>5. \A n \in 1 .. N, scan \in Scans : step[<<n, scan>>] = Reads(scan, content[n], n)
  OBVIOUS
<1>6. F = Body(F)
  <2> HIDE DEF step, N
  <2>1. ASSUME NEW n \in 1 .. N
        PROVE  F[n] = Reads(F[n - 1], content[n], n)
    <3>1. n - 1 \in 0 .. N
      BY <1>1
    <3>2. F[n - 1] \in Scans /\ F[n] = step[<<n, F[n - 1]>>]
      BY <1>4, <3>1 DEF RunsUpTo
    <3> QED
      BY <1>5, <3>2
  <2> QED
    BY <1>1, <1>4, <2>1 DEF RunsUpTo
<1>7. Scan = Body(Scan)
  <2> HIDE DEF Body
  <2> QED
    BY <1>6
<1>8. /\ DOMAIN Scan = 0 .. N /\ Scan = [n \in DOMAIN Scan |-> Scan[n]]
      /\ \A n \in 0 .. N :
            Scan[n] = IF n = 0 THEN Unread ELSE Reads(Scan[n - 1], content[n], n)
  <2> HIDE DEF Scan, N
  <2> QED
    BY <1>7
<1> HIDE DEF Scan, step, Body
<1>9. Scan[0] = Unread
  BY <1>1, <1>8
<1>10. ASSUME NEW n \in 1 .. N
       PROVE  Scan[n] = Reads(Scan[n - 1], content[n], n)
  <2>1. n \in 0 .. N /\ n # 0
    BY <1>1
  <2> QED
    BY <1>8, <2>1
<1>11. Scan \in [0 .. N -> Scans]
  <2>1. \A n \in 1 .. N : Scan[n - 1] \in Scans => Scan[n] \in Scans
    BY <1>1, <1>10, ReadsOne
  <2>2. Scan[0] \in Scans
    BY <1>2, <1>9
  <2> HIDE DEF N
  <2> QED
    BY <1>1, <1>8, <2>1, <2>2, StaysUpTo
<1>12. Scanned(content) = Scan
  BY DEF Scanned, Scan, Body
<1> QED
  BY <1>9, <1>10, <1>11, <1>12

(* The scanner before token i: whether a block begins there.               *)
BlockAt(content, i) == Begins(Scanned(content)[i - 1], content[i])

(* What one token of a content does to the scanner.                        *)
LEMMA StepOf ==
    ASSUME NEW content \in Seq(AnyToken), NEW n \in 1 .. Len(content)
    PROVE  LET was == Scanned(content)[n - 1]
               is  == Scanned(content)[n]
           IN /\ was \in Scans /\ is \in Scans /\ content[n] \in AnyToken
              /\ is.depth = Deeper(was.depth, content[n])
              /\ BlockAt(content, n) =>
                   /\ is.textOpen <=> content[n].kind \in {"close", "text"}
                   /\ is.cuts = Append(was.cuts, [at |-> n, tag |-> TagOf(content[n])])
              /\ ~BlockAt(content, n) => is.textOpen = was.textOpen /\ is.cuts = was.cuts
<1>1. n \in 0 .. Len(content) /\ n - 1 \in 0 .. Len(content) /\ n \in Nat /\ content[n] \in AnyToken
  OBVIOUS
<1>2. Scanned(content)[n - 1] \in Scans /\ Scanned(content)[n] \in Scans
      /\ Scanned(content)[n] = Reads(Scanned(content)[n - 1], content[n], n)
  BY <1>1, ScansAll
<1> PICK was \in Scans, is \in Scans, token \in AnyToken :
       was = Scanned(content)[n - 1] /\ is = Scanned(content)[n] /\ token = content[n]
  BY <1>1, <1>2
<1>3. is = Reads(was, token, n) /\ (BlockAt(content, n) <=> Begins(was, token))
  BY <1>2 DEF BlockAt
<1>4. /\ is.depth = Deeper(was.depth, token)
      /\ Begins(was, token) =>
           /\ is.textOpen <=> token.kind \in {"close", "text"}
           /\ is.cuts = Append(was.cuts, [at |-> n, tag |-> TagOf(token)])
      /\ ~Begins(was, token) => is.textOpen = was.textOpen /\ is.cuts = was.cuts
  <2>1. /\ Reads(was, token, n).depth = Deeper(was.depth, token)
        /\ Begins(was, token) =>
             /\ Reads(was, token, n).textOpen <=> token.kind \in {"close", "text"}
             /\ Reads(was, token, n).cuts = Append(was.cuts, [at |-> n, tag |-> TagOf(token)])
        /\ ~Begins(was, token) =>
             /\ Reads(was, token, n).textOpen = was.textOpen
             /\ Reads(was, token, n).cuts = was.cuts
    BY <1>1, ReadsOne
  <2> QED
    BY <1>3, <2>1
<1> QED
  BY <1>3, <1>4

(* Two contents that begin alike are scanned alike.                        *)
LEMMA ScansAlike ==
    ASSUME NEW content \in Seq(AnyToken), NEW other \in Seq(AnyToken),
           NEW n \in 0 .. Len(content), n <= Len(other),
           \A i \in 1 .. n : content[i] = other[i]
    PROVE  \A i \in 0 .. n : Scanned(content)[i] = Scanned(other)[i]
<1>0. n \in Nat /\ Len(content) \in Nat /\ Len(other) \in Nat
  OBVIOUS
<1> DEFINE T == {i \in Nat : i <= n => Scanned(content)[i] = Scanned(other)[i]}
<1>1. 0 \in T
  BY ScansAll
<1>2. ASSUME NEW i \in Nat, i \in T
      PROVE  i + 1 \in T
  <2> SUFFICES ASSUME i + 1 <= n PROVE Scanned(content)[i + 1] = Scanned(other)[i + 1]
    OBVIOUS
  <2>1. /\ i + 1 \in 1 .. Len(content) /\ i + 1 \in 1 .. Len(other) /\ i + 1 \in 1 .. n
        /\ (i + 1) - 1 = i /\ Scanned(content)[i] = Scanned(other)[i]
    BY <1>0, <1>2
  <2>2. Scanned(content)[i + 1] = Reads(Scanned(content)[i], content[i + 1], i + 1)
    BY <2>1, ScansAll
  <2>3. Scanned(other)[i + 1] = Reads(Scanned(other)[i], other[i + 1], i + 1)
    BY <2>1, ScansAll
  <2> QED
    BY <2>1, <2>2, <2>3
<1>3. Nat \subseteq T
  <2> HIDE DEF T
  <2> QED
    BY <1>1, <1>2, Induction
<1> QED
  BY <1>0, <1>3

(* Where no block begins, no cut is made.                                  *)
LEMMA NoCuts ==
    ASSUME NEW content \in Seq(AnyToken), NEW a \in 0 .. Len(content), NEW b \in a .. Len(content),
           \A i \in a + 1 .. b : ~BlockAt(content, i)
    PROVE  /\ Scanned(content)[b].cuts = Scanned(content)[a].cuts
           /\ Scanned(content)[b].textOpen = Scanned(content)[a].textOpen
<1>0. a \in Nat /\ b \in Nat /\ a <= b /\ b <= Len(content) /\ Len(content) \in Nat
  OBVIOUS
<1> DEFINE T == {i \in Nat : a + i <= b =>
                   /\ Scanned(content)[a + i].cuts = Scanned(content)[a].cuts
                   /\ Scanned(content)[a + i].textOpen = Scanned(content)[a].textOpen}
<1>1. 0 \in T
  <2>1. a + 0 = a
    BY <1>0
  <2> QED
    BY <2>1
<1>2. ASSUME NEW i \in Nat, i \in T
      PROVE  i + 1 \in T
  <2> SUFFICES ASSUME a + (i + 1) <= b
               PROVE  /\ Scanned(content)[a + (i + 1)].cuts = Scanned(content)[a].cuts
                      /\ Scanned(content)[a + (i + 1)].textOpen = Scanned(content)[a].textOpen
    OBVIOUS
  <2>1. /\ a + (i + 1) \in 1 .. Len(content) /\ a + (i + 1) \in a + 1 .. b
        /\ (a + (i + 1)) - 1 = a + i /\ a + i <= b
    BY <1>0
  <2>2. /\ Scanned(content)[a + (i + 1)].cuts = Scanned(content)[a + i].cuts
        /\ Scanned(content)[a + (i + 1)].textOpen = Scanned(content)[a + i].textOpen
    BY <2>1, StepOf
  <2> QED
    BY <1>2, <2>1, <2>2
<1>3. Nat \subseteq T
  <2> HIDE DEF T
  <2> QED
    BY <1>1, <1>2, Induction
<1>4. b - a \in T /\ a + (b - a) = b
  <2>1. b - a \in Nat /\ a + (b - a) = b
    BY <1>0
  <2> HIDE DEF T
  <2> QED
    BY <1>3, <2>1
<1> QED
  BY <1>0, <1>4

(* From where two scanners agree on the depth and the text, they go on to  *)
(* agree for as long as they read the same.                                *)
Agree(content, i, other, j) ==
    /\ Scanned(content)[i].depth = Scanned(other)[j].depth
    /\ Scanned(content)[i].textOpen = Scanned(other)[j].textOpen

(* They agree behind a token that both read.                               *)
LEMMA ReadAlike ==
    ASSUME NEW content \in Seq(AnyToken), NEW i \in 1 .. Len(content),
           NEW other \in Seq(AnyToken), NEW j \in 1 .. Len(other),
           content[i] = other[j], Agree(content, i - 1, other, j - 1)
    PROVE  Agree(content, i, other, j) /\ (BlockAt(content, i) <=> BlockAt(other, j))
<1>1. BlockAt(content, i) <=> BlockAt(other, j)
  BY DEF Agree, BlockAt, Begins
<1>2. Scanned(content)[i].depth = Scanned(other)[j].depth
  <2>1. Scanned(content)[i].depth = Deeper(Scanned(content)[i - 1].depth, content[i])
    BY StepOf
  <2>2. Scanned(other)[j].depth = Deeper(Scanned(other)[j - 1].depth, other[j])
    BY StepOf
  <2> QED
    BY <2>1, <2>2 DEF Agree
<1>3. Scanned(content)[i].textOpen = Scanned(other)[j].textOpen
  <2>1. CASE BlockAt(content, i)
    <3>1. Scanned(content)[i].textOpen <=> content[i].kind \in {"close", "text"}
      BY <2>1, StepOf
    <3>2. Scanned(other)[j].textOpen <=> other[j].kind \in {"close", "text"}
      BY <1>1, <2>1, StepOf
    <3>3. Scanned(content)[i].textOpen \in BOOLEAN /\ Scanned(other)[j].textOpen \in BOOLEAN
      <4>1. Scanned(content)[i] \in Scans /\ Scanned(other)[j] \in Scans
        BY StepOf
      <4> QED
        BY <4>1 DEF Scans
    <3> QED
      BY <3>1, <3>2, <3>3
  <2>2. CASE ~BlockAt(content, i)
    <3>1. Scanned(content)[i].textOpen = Scanned(content)[i - 1].textOpen
      BY <2>2, StepOf
    <3>2. Scanned(other)[j].textOpen = Scanned(other)[j - 1].textOpen
      BY <1>1, <2>2, StepOf
    <3> QED
      BY <3>1, <3>2 DEF Agree
  <2> QED
    BY <2>1, <2>2
<1> QED
  BY <1>1, <1>2, <1>3 DEF Agree

(* And so behind a stretch of the same tokens.                             *)
LEMMA ScansOnAlike ==
    ASSUME NEW content \in Seq(AnyToken), NEW other \in Seq(AnyToken),
           NEW o \in Nat, NEW n \in 1 .. Len(other), o + n <= Len(content),
           \A j \in 1 .. n : content[o + j] = other[j],
           Agree(content, o + 1, other, 1)
    PROVE  /\ \A j \in 1 .. n : Agree(content, o + j, other, j)
           /\ \A j \in 2 .. n : BlockAt(content, o + j) <=> BlockAt(other, j)
<1>0. n \in Nat /\ Len(content) \in Nat /\ Len(other) \in Nat /\ n <= Len(other)
  OBVIOUS
<1>1. ASSUME NEW j \in 2 .. n, Agree(content, o + (j - 1), other, j - 1)
      PROVE  Agree(content, o + j, other, j) /\ (BlockAt(content, o + j) <=> BlockAt(other, j))
  <2>1. /\ o + j \in 1 .. Len(content) /\ j \in 1 .. Len(other) /\ j \in 1 .. n
        /\ (o + j) - 1 = o + (j - 1)
    BY <1>0
  <2> PICK i \in 1 .. Len(content) : i = o + j
    BY <2>1
  <2>2. content[i] = other[j] /\ Agree(content, i - 1, other, j - 1)
    BY <1>1, <2>1
  <2>3. Agree(content, i, other, j) /\ (BlockAt(content, i) <=> BlockAt(other, j))
    BY <2>1, <2>2, ReadAlike
  <2> QED
    BY <2>3
<1> DEFINE T == {j \in Nat : j + 1 <= n => Agree(content, o + (j + 1), other, j + 1)}
<1>2. 0 \in T
  OBVIOUS
<1>3. ASSUME NEW j \in Nat, j \in T
      PROVE  j + 1 \in T
  <2> SUFFICES ASSUME (j + 1) + 1 <= n
               PROVE  Agree(content, o + ((j + 1) + 1), other, (j + 1) + 1)
    OBVIOUS
  <2> PICK k \in 2 .. n : k = (j + 1) + 1 /\ k - 1 = j + 1
    BY <1>0
  <2>1. Agree(content, o + (k - 1), other, k - 1)
    BY <1>0, <1>3
  <2> QED
    BY <1>1, <2>1
<1>4. Nat \subseteq T
  <2> HIDE DEF T
  <2> QED
    BY <1>2, <1>3, Induction
<1>5. \A j \in 1 .. n : Agree(content, o + j, other, j)
  <2> TAKE j \in 1 .. n
  <2>1. j - 1 \in T /\ (j - 1) + 1 = j
    <3>1. j - 1 \in Nat /\ (j - 1) + 1 = j
      OBVIOUS
    <3> HIDE DEF T
    <3> QED
      BY <1>4, <3>1
  <2> QED
    BY <2>1
<1>6. ASSUME NEW j \in 2 .. n
      PROVE  BlockAt(content, o + j) <=> BlockAt(other, j)
  <2>1. j - 1 \in 1 .. n
    OBVIOUS
  <2> QED
    BY <1>1, <1>5, <2>1
<1> QED
  BY <1>5, <1>6

(* Numbers up to the next one.                                             *)
LEMMA LastOrBefore ==
    ASSUME NEW n \in Nat, NEW k \in 1 .. n + 1
    PROVE  k = n + 1 \/ k \in 1 .. n
OBVIOUS

(* A number is before the next one.                                        *)
LEMMA BeforeNext ==
    ASSUME NEW n \in Nat, NEW k \in 1 .. n
    PROVE  k < n + 1 /\ k \in 1 .. n + 1
OBVIOUS

(* The cuts are the places where a block begins, in order, and no others.  *)
CutsSound(content, n) ==
    LET cuts == Scanned(content)[n].cuts
    IN /\ \A k \in 1 .. Len(cuts) :
             /\ cuts[k].at \in 1 .. n
             /\ BlockAt(content, cuts[k].at)
             /\ cuts[k].tag = TagOf(content[cuts[k].at])
       /\ \A k, m \in 1 .. Len(cuts) : k < m => cuts[k].at < cuts[m].at
       /\ \A i \in 1 .. n : BlockAt(content, i) => \E k \in 1 .. Len(cuts) : cuts[k].at = i

(* However far a content is read.                                          *)
LEMMA CutsFound ==
    ASSUME NEW content \in Seq(AnyToken)
    PROVE  \A n \in 0 .. Len(content) : CutsSound(content, n)
<1>0. Len(content) \in Nat
  OBVIOUS
<1> DEFINE T == {n \in Nat : n <= Len(content) => CutsSound(content, n)}
<1>1. 0 \in T
  <2>1. Scanned(content)[0].cuts = <<>>
    BY ScansAll DEF Unread
  <2> QED
    BY <2>1 DEF CutsSound
<1>2. ASSUME NEW n \in Nat, n \in T
      PROVE  n + 1 \in T
  <2> SUFFICES ASSUME n + 1 <= Len(content) PROVE CutsSound(content, n + 1)
    OBVIOUS
  <2>1. n + 1 \in 1 .. Len(content) /\ (n + 1) - 1 = n /\ CutsSound(content, n)
    BY <1>0, <1>2
  <2> PICK m \in 1 .. Len(content) : m = n + 1 /\ m - 1 = n
    BY <2>1
  <2>2. Scanned(content)[n] \in Scans /\ content[m] \in AnyToken
    BY StepOf
  <2> PICK cuts \in Seq([at : Nat, tag : Tags]) : cuts = Scanned(content)[n].cuts
    BY <2>2 DEF Scans
  <2>3. /\ \A k \in 1 .. Len(cuts) :
              /\ cuts[k].at \in 1 .. n
              /\ BlockAt(content, cuts[k].at)
              /\ cuts[k].tag = TagOf(content[cuts[k].at])
        /\ \A k, l \in 1 .. Len(cuts) : k < l => cuts[k].at < cuts[l].at
        /\ \A i \in 1 .. n : BlockAt(content, i) => \E k \in 1 .. Len(cuts) : cuts[k].at = i
    BY <2>1 DEF CutsSound
  <2>6. \A i \in 1 .. n : i \in 1 .. m
    <3>1. n \in Nat /\ m = n + 1
      OBVIOUS
    <3> QED
      BY <3>1
  <2>4. CASE BlockAt(content, m)
    <3> PICK cut : cut = [at |-> m, tag |-> TagOf(content[m])]
      OBVIOUS
    <3>1. cut \in [at : Nat, tag : Tags] /\ cut.at = m /\ cut.tag = TagOf(content[m])
      BY <2>2 DEF AnyToken, TagOf, Tags
    <3> PICK more \in Seq([at : Nat, tag : Tags]) : more = Append(cuts, cut)
      <4>1. Append(cuts, cut) \in Seq([at : Nat, tag : Tags])
        BY <3>1, AppendProperties
      <4> QED
        BY <4>1
    <3>2. Scanned(content)[m].cuts = more
      BY <2>4, StepOf
    <3>3. /\ Len(more) = Len(cuts) + 1 /\ Len(cuts) \in Nat /\ more[Len(cuts) + 1] = cut
          /\ \A k \in 1 .. Len(cuts) : more[k] = cuts[k]
      BY <3>1, AppendProperties
    <3>8. PICK c \in Nat : c = Len(cuts) /\ Len(more) = c + 1
      BY <3>3
    <3>9. \A k \in 1 .. Len(more) : k = c + 1 \/ k \in 1 .. c
      BY <3>8, LastOrBefore
    <3>4. ASSUME NEW k \in 1 .. Len(more)
          PROVE  /\ more[k].at \in 1 .. m
                 /\ BlockAt(content, more[k].at)
                 /\ more[k].tag = TagOf(content[more[k].at])
      <4>1. CASE k = Len(cuts) + 1
        BY <2>4, <3>1, <3>3, <4>1
      <4>2. CASE k \in 1 .. Len(cuts)
        <5>1. cuts[k].at \in 1 .. n
          BY <2>3, <4>2
        <5>2. cuts[k].at \in 1 .. m
          BY <2>6, <5>1
        <5> QED
          BY <2>3, <3>3, <4>2, <5>2
      <4>3. k = Len(cuts) + 1 \/ k \in 1 .. Len(cuts)
        BY <3>8, <3>9
      <4> QED
        BY <4>1, <4>2, <4>3
    <3>5. ASSUME NEW k \in 1 .. Len(more), NEW l \in 1 .. Len(more), k < l
          PROVE  more[k].at < more[l].at
      <4>1. k \in 1 .. Len(cuts) /\ more[k] = cuts[k] /\ cuts[k].at \in 1 .. n
        <5>1. k \in 1 .. Len(cuts)
          <6>1. k \in Nat /\ k < l /\ l <= Len(cuts) + 1 /\ k >= 1 /\ l \in Nat
            BY <3>3, <3>5
          <6> QED
            BY <3>3, <6>1
        <5> QED
          BY <2>3, <3>3, <5>1
      <4>2. CASE l = Len(cuts) + 1
        <5>1. more[l].at = m
          BY <3>1, <3>3, <4>2
        <5>2. more[k].at < n + 1
          BY <1>2, <4>1, BeforeNext
        <5> QED
          BY <5>1, <5>2
      <4>3. CASE l \in 1 .. Len(cuts)
        BY <2>3, <3>3, <3>5, <4>1, <4>3
      <4> QED
        BY <3>8, <3>9, <4>2, <4>3
    <3>6. ASSUME NEW i \in 1 .. m, BlockAt(content, i)
          PROVE  \E k \in 1 .. Len(more) : more[k].at = i
      <4>1. CASE i = m
        <5>1. Len(cuts) + 1 \in 1 .. Len(more)
          BY <3>3
        <5> QED
          BY <3>1, <3>3, <4>1, <5>1
      <4>2. CASE i # m
        <5>1. i \in 1 .. n
          BY <4>2
        <5>2. PICK k \in 1 .. Len(cuts) : cuts[k].at = i
          BY <2>3, <3>6, <5>1
        <5>3. k \in 1 .. Len(more)
          BY <3>3
        <5> QED
          BY <3>3, <5>2, <5>3
      <4> QED
        BY <4>1, <4>2
    <3>7. CutsSound(content, m)
      BY <3>2, <3>4, <3>5, <3>6 DEF CutsSound
    <3> QED
      BY <3>7
  <2>5. CASE ~BlockAt(content, m)
    <3>1. Scanned(content)[m].cuts = cuts
      BY <2>5, StepOf
    <3>2. ASSUME NEW k \in 1 .. Len(cuts)
          PROVE  cuts[k].at \in 1 .. m
      <4>1. cuts[k].at \in 1 .. n
        BY <2>3
      <4> QED
        BY <2>6, <4>1
    <3>3. ASSUME NEW i \in 1 .. m, BlockAt(content, i)
          PROVE  \E k \in 1 .. Len(cuts) : cuts[k].at = i
      <4>1. i \in 1 .. n
        BY <2>5, <3>3
      <4> QED
        BY <2>3, <3>3, <4>1
    <3>4. CutsSound(content, m)
      BY <2>3, <3>1, <3>2, <3>3 DEF CutsSound
    <3> QED
      BY <3>4
  <2> QED
    BY <2>4, <2>5
<1>3. Nat \subseteq T
  <2> HIDE DEF T
  <2> QED
    BY <1>1, <1>2, Induction
<1> QED
  BY <1>0, <1>3

(* Stripped of the whitespace at its end.                                  *)
LEMMA StrippedIs ==
    ASSUME NEW html \in Seq(AnyToken), NEW n \in 0 .. Len(html),
           \A i \in n + 1 .. Len(html) : html[i].kind = "ws",
           n # 0 => html[n].kind # "ws"
    PROVE  Stripped(html) = SubSeq(html, 1, n)
<1> DEFINE solid == {i \in DOMAIN html : html[i].kind # "ws"}
<1>1. DOMAIN html = 1 .. Len(html) /\ Len(html) \in Nat /\ n \in Nat
  OBVIOUS
<1>2. n \in solid \union {0} /\ \A i \in solid \union {0} : i \in Nat /\ i <= n
  BY <1>1
<1>3. Max(solid \union {0}) = n
  <2> HIDE DEF solid
  <2> PICK S : S = solid \union {0}
    OBVIOUS
  <2>1. Max(S) \in S /\ \A s \in S : s <= Max(S)
    BY <1>1, <1>2, MaxOfBounded
  <2>2. Max(S) <= n /\ n <= Max(S) /\ Max(S) \in Nat
    BY <1>2, <2>1
  <2> QED
    BY <1>1, <2>2
<1> QED
  BY <1>3 DEF Stripped

(* Stripping takes the whitespace at the end, and nothing else.            *)
LEMMA StripsTo ==
    ASSUME NEW html \in Seq(AnyToken)
    PROVE  \E n \in 0 .. Len(html) :
              /\ Stripped(html) = SubSeq(html, 1, n)
              /\ \A i \in n + 1 .. Len(html) : html[i].kind = "ws"
              /\ n # 0 => html[n].kind # "ws"
<1> DEFINE solid == {i \in DOMAIN html : html[i].kind # "ws"}
           S == solid \union {0}
<1>1. DOMAIN html = 1 .. Len(html) /\ Len(html) \in Nat
  OBVIOUS
<1>2. S \subseteq Nat /\ S # {} /\ \A s \in S : s <= Len(html)
  BY <1>1
<1>3. Max(S) \in S /\ \A s \in S : s <= Max(S)
  <2> HIDE DEF S
  <2> QED
    BY <1>1, <1>2, MaxOfBounded
<1> PICK n \in Nat : n = Max(S) /\ n \in S
  BY <1>2, <1>3
<1>4. n \in 0 .. Len(html) /\ (n # 0 => html[n].kind # "ws")
  BY <1>1
<1>5. ASSUME NEW i \in n + 1 .. Len(html)
      PROVE  html[i].kind = "ws"
  <2>1. i \in DOMAIN html /\ ~(i <= n)
    BY <1>1
  <2> QED
    BY <1>3, <2>1
<1>6. Stripped(html) = SubSeq(html, 1, n)
  BY DEF Stripped
<1> QED
  BY <1>4, <1>5, <1>6

-----------------------------------------------------------------------------
(* Splitting.                                                              *)

(* What a split is made of.                                                *)
BlockSet == [tag : Tags, html : Seq(AnyToken)]

(* Where block n ends, before whitespace is stripped.                      *)
Ends(content, n) ==
    IF n < Len(Cuts(content)) THEN Cuts(content)[n + 1].at - 1 ELSE Len(content)

(* What is left is a content, and no longer.                               *)
LEMMA StripsTyped ==
    ASSUME NEW html \in Seq(AnyToken)
    PROVE  Stripped(html) \in Seq(AnyToken) /\ Len(Stripped(html)) <= Len(html)
<1>1. PICK n \in 0 .. Len(html) : Stripped(html) = SubSeq(html, 1, n)
  BY StripsTo
<1>2. n \in Int /\ Len(html) \in Nat /\ \A i \in 1 .. n : html[i] \in AnyToken
  BY <1>1
<1> HIDE DEF AnyToken
<1>3. SubSeq(html, 1, n) \in Seq(AnyToken) /\ Len(SubSeq(html, 1, n)) = IF 1 <= n THEN n - 1 + 1 ELSE 0
  BY <1>2, SubSeqProperties
<1> QED
  BY <1>1, <1>2, <1>3

(* Where block n begins, and where it ends.                                *)
LEMMA CutOfBlock ==
    ASSUME NEW content \in Seq(AnyToken), NEW n \in 1 .. Len(Cuts(content))
    PROVE  /\ Cuts(content)[n].at \in 1 .. Len(content)
           /\ BlockAt(content, Cuts(content)[n].at)
           /\ Cuts(content)[n].tag = TagOf(content[Cuts(content)[n].at])
           /\ Ends(content, n) \in Cuts(content)[n].at .. Len(content)
           /\ \A i \in Cuts(content)[n].at + 1 .. Ends(content, n) : ~BlockAt(content, i)
<1> PICK cuts : cuts = Cuts(content)
  OBVIOUS
<1>0. PICK length \in Nat : length = Len(content)
  OBVIOUS
<1>1. CutsSound(content, length) /\ cuts = Scanned(content)[length].cuts
  BY <1>0, CutsFound DEF Cuts
<1>2. PICK N \in Nat : N = Len(cuts)
  <2>1. Scanned(content)[length] \in Scans
    BY <1>0, ScansAll
  <2>2. cuts \in Seq([at : Nat, tag : Tags])
    BY <1>1, <2>1 DEF Scans
  <2> QED
    BY <2>2
<1>3. /\ \A k \in 1 .. N :
            /\ cuts[k].at \in 1 .. length
            /\ BlockAt(content, cuts[k].at)
            /\ cuts[k].tag = TagOf(content[cuts[k].at])
      /\ \A k, m \in 1 .. N : k < m => cuts[k].at < cuts[m].at
      /\ \A i \in 1 .. length : BlockAt(content, i) => \E k \in 1 .. N : cuts[k].at = i
  BY <1>1, <1>2 DEF CutsSound
<1>4. PICK a \in 1 .. length : a = cuts[n].at
  BY <1>2, <1>3
<1>5. PICK e \in a .. length : /\ e = Ends(content, n)
                               /\ \A k \in 1 .. N : n < k => e < cuts[k].at
  <2>1. CASE n < N
    <3>1. n + 1 \in 1 .. N /\ n < n + 1 /\ n \in 1 .. N
      BY <1>2, <2>1
    <3> PICK b \in 1 .. length : b = cuts[n + 1].at
      BY <1>3, <3>1
    <3>2. a < b
      BY <1>3, <1>4, <3>1
    <3>3. Ends(content, n) = b - 1 /\ b - 1 \in a .. length
      BY <1>0, <1>2, <1>4, <2>1, <3>2 DEF Ends
    <3>4. ASSUME NEW k \in 1 .. N, n < k
          PROVE  b - 1 < cuts[k].at
      <4>1. cuts[k].at \in 1 .. length
        BY <1>3
      <4>2. k = n + 1 \/ n + 1 < k
        BY <1>2, <3>4
      <4>3. b <= cuts[k].at
        <5>1. CASE k = n + 1
          BY <5>1, <4>1
        <5>2. CASE n + 1 < k
          <6>1. b < cuts[k].at
            BY <1>3, <3>1, <5>2
          <6> QED
            BY <4>1, <6>1
        <5> QED
          BY <4>2, <5>1, <5>2
      <4> QED
        BY <4>1, <4>3
    <3> QED
      BY <3>3, <3>4
  <2>2. CASE ~(n < N)
    <3>1. Ends(content, n) = length /\ length \in a .. length
      BY <1>0, <1>2, <1>4, <2>2 DEF Ends
    <3>2. \A k \in 1 .. N : ~(n < k)
      BY <1>2, <2>2
    <3> QED
      BY <3>1, <3>2
  <2> QED
    BY <2>1, <2>2
<1>6. ASSUME NEW i \in a + 1 .. e, BlockAt(content, i)
      PROVE  FALSE
  <2>1. i \in 1 .. length /\ a < i /\ i <= e
    BY <1>4, <1>5
  <2>2. PICK k \in 1 .. N : cuts[k].at = i
    BY <1>3, <1>6, <2>1
  <2>3. n \in 1 .. N
    BY <1>2
  <2>4. n < k
    <3>1. CASE k = n
      BY <1>4, <2>1, <2>2, <3>1
    <3>2. CASE k < n
      <4>1. i < a
        BY <1>3, <1>4, <2>2, <2>3, <3>2
      <4> QED
        BY <1>4, <2>1, <4>1
    <3> QED
      BY <1>2, <2>2, <2>3, <3>1, <3>2
  <2>5. e < i
    BY <1>5, <2>2, <2>4
  <2> QED
    BY <1>4, <1>5, <2>1, <2>5
<1> QED
  BY <1>0, <1>2, <1>3, <1>4, <1>5, <1>6

(* The blocks of a content, one for every cut.                             *)
LEMMA SplitIs ==
    ASSUME NEW content \in Seq(AnyToken)
    PROVE  /\ Cuts(content) \in Seq([at : Nat, tag : Tags])
           /\ SplitBlocks(content) \in Seq(BlockSet)
           /\ Len(SplitBlocks(content)) = Len(Cuts(content))
           /\ \A n \in 1 .. Len(Cuts(content)) :
                SplitBlocks(content)[n] =
                  [tag  |-> Cuts(content)[n].tag,
                   html |-> Stripped(SubSeq(content, Cuts(content)[n].at, Ends(content, n)))]
<1>1. Cuts(content) \in Seq([at : Nat, tag : Tags])
  <2>1. Len(content) \in 0 .. Len(content)
    OBVIOUS
  <2>2. Scanned(content)[Len(content)] \in Scans
    BY <2>1, ScansAll
  <2> QED
    BY <2>2 DEF Scans, Cuts
<1> PICK cuts \in Seq([at : Nat, tag : Tags]) : cuts = Cuts(content)
  BY <1>1
<1> DEFINE block(n) == [tag  |-> cuts[n].tag,
                        html |-> Stripped(SubSeq(content, cuts[n].at, Ends(content, n)))]
<1>2. SplitBlocks(content) = [n \in 1 .. Len(cuts) |-> block(n)]
  <2>1. DOMAIN cuts = 1 .. Len(cuts)
    OBVIOUS
  <2> QED
    BY <2>1 DEF SplitBlocks, Ends
<1>3. ASSUME NEW n \in 1 .. Len(cuts)
      PROVE  block(n) \in BlockSet
  <2>1. cuts[n].tag \in Tags
    <3>1. cuts[n] \in [at : Nat, tag : Tags]
      BY ElementOfSeq
    <3> QED
      BY <3>1
  <2>5. cuts[n].at \in 1 .. Len(content) /\ Ends(content, n) \in cuts[n].at .. Len(content)
    BY CutOfBlock
  <2>2. PICK a \in 1 .. Len(content), e \in 1 .. Len(content) :
          a <= e /\ a = cuts[n].at /\ e = Ends(content, n)
    BY <2>5
  <2>3. a \in Int /\ e \in Int /\ \A i \in a .. e : content[i] \in AnyToken
    BY <2>2
  <2>4. SubSeq(content, a, e) \in Seq(AnyToken)
    <3> HIDE DEF AnyToken
    <3> QED
      BY <2>3, SubSeqProperties
  <2> QED
    BY <2>1, <2>2, <2>4, StripsTyped DEF BlockSet
<1> HIDE DEF block
<1>4. Len(cuts) \in Nat
  OBVIOUS
<1>5. [n \in 1 .. Len(cuts) |-> block(n)] \in Seq(BlockSet)
      /\ Len([n \in 1 .. Len(cuts) |-> block(n)]) = Len(cuts)
  BY <1>3, <1>4
<1>6. \A n \in 1 .. Len(cuts) : SplitBlocks(content)[n] = block(n)
  BY <1>2
<1> QED
  BY <1>1, <1>2, <1>5, <1>6 DEF block

(* Pieces of contents that are alike.                                      *)
LEMMA PieceAlike ==
    ASSUME NEW content \in Seq(AnyToken), NEW other \in Seq(AnyToken),
           NEW a \in Nat \ {0}, NEW e \in Nat, e <= Len(content), e <= Len(other),
           \A i \in a .. e : content[i] = other[i]
    PROVE  SubSeq(content, a, e) = SubSeq(other, a, e) /\ SubSeq(content, a, e) \in Seq(AnyToken)
<1>1. /\ a \in Int /\ e \in Int
      /\ \A i \in a .. e : content[i] \in AnyToken /\ other[i] \in AnyToken
  OBVIOUS
<1>2. /\ SubSeq(content, a, e) \in Seq(AnyToken)
      /\ Len(SubSeq(content, a, e)) = IF a <= e THEN e - a + 1 ELSE 0
      /\ \A i \in 1 .. e - a + 1 : SubSeq(content, a, e)[i] = content[a + i - 1]
  <2> HIDE DEF AnyToken
  <2> QED
    BY <1>1, SubSeqProperties
<1>3. /\ SubSeq(other, a, e) \in Seq(AnyToken)
      /\ Len(SubSeq(other, a, e)) = IF a <= e THEN e - a + 1 ELSE 0
      /\ \A i \in 1 .. e - a + 1 : SubSeq(other, a, e)[i] = other[a + i - 1]
  <2> HIDE DEF AnyToken
  <2> QED
    BY <1>1, SubSeqProperties
<1>4. ASSUME NEW i \in 1 .. Len(SubSeq(content, a, e))
      PROVE  SubSeq(content, a, e)[i] = SubSeq(other, a, e)[i]
  <2>1. i \in 1 .. e - a + 1 /\ a + i - 1 \in a .. e
    BY <1>2
  <2> QED
    BY <1>2, <1>3, <2>1
<1>5. Len(SubSeq(content, a, e)) = Len(SubSeq(other, a, e))
  BY <1>2, <1>3
<1> QED
  BY <1>2, <1>3, <1>4, <1>5, SeqEqual

(* Whitespace behind a block does not change it.                           *)
LEMMA StrippedMore ==
    ASSUME NEW html \in Seq(AnyToken), NEW more \in Seq(AnyToken), Len(html) <= Len(more),
           \A i \in 1 .. Len(html) : more[i] = html[i],
           \A i \in Len(html) + 1 .. Len(more) : more[i].kind = "ws"
    PROVE  Stripped(more) = Stripped(html)
<1>0. Len(html) \in Nat /\ Len(more) \in Nat
  OBVIOUS
<1>1. PICK n \in 0 .. Len(html) : /\ Stripped(html) = SubSeq(html, 1, n)
                                  /\ \A i \in n + 1 .. Len(html) : html[i].kind = "ws"
                                  /\ n # 0 => html[n].kind # "ws"
  BY StripsTo
<1>2. n \in 0 .. Len(more) /\ n \in Nat /\ n <= Len(html) /\ n <= Len(more)
  BY <1>0, <1>1
<1>3. ASSUME NEW i \in n + 1 .. Len(more)
      PROVE  more[i].kind = "ws"
  <2>1. i \in 1 .. Len(more) /\ (i \in n + 1 .. Len(html) \/ i \in Len(html) + 1 .. Len(more))
    BY <1>0, <1>2
  <2>2. CASE i \in n + 1 .. Len(html)
    <3>1. i \in 1 .. Len(html)
      BY <1>2, <2>2
    <3> QED
      BY <1>1, <2>2, <3>1
  <2> QED
    BY <2>1, <2>2
<1>4. n # 0 => more[n].kind # "ws"
  <2> HAVE n # 0
  <2>1. n \in 1 .. Len(html)
    BY <1>2
  <2> QED
    BY <1>1, <2>1
<1>5. Stripped(more) = SubSeq(more, 1, n)
  BY <1>2, <1>3, <1>4, StrippedIs
<1>6. \A i \in 1 .. n : more[i] = html[i]
  BY <1>0, <1>2
<1>7. SubSeq(more, 1, n) = SubSeq(html, 1, n)
  BY <1>2, <1>6, PieceAlike
<1> QED
  BY <1>1, <1>5, <1>7

(* What follows a content and begins no block.                             *)
LEMMA CutsKept ==
    ASSUME NEW content \in Seq(AnyToken), NEW whole \in Seq(AnyToken),
           NEW n \in Len(content) .. Len(whole),
           \A i \in 1 .. Len(content) : whole[i] = content[i],
           \A i \in Len(content) + 1 .. n : ~BlockAt(whole, i)
    PROVE  Scanned(whole)[n].cuts = Cuts(content)
<1>1. /\ Len(content) \in Nat /\ Len(content) \in 0 .. Len(content) /\ Len(content) <= Len(whole)
      /\ Len(content) \in 0 .. Len(whole)
  OBVIOUS
<1>2. Scanned(content)[Len(content)] = Scanned(whole)[Len(content)]
  <2>1. \A i \in 1 .. Len(content) : content[i] = whole[i]
    OBVIOUS
  <2> QED
    BY <1>1, <2>1, ScansAlike
<1>3. Scanned(whole)[n].cuts = Scanned(whole)[Len(content)].cuts
  BY <1>1, NoCuts
<1> QED
  BY <1>2, <1>3 DEF Cuts

(* Where no block begins in what is new, there is none more.               *)
LEMMA NoLaterBlock ==
    ASSUME NEW content \in Seq(AnyToken), NEW whole \in Seq(AnyToken),
           Len(content) <= Len(whole),
           \A i \in 1 .. Len(content) : whole[i] = content[i],
           \A i \in Len(content) + 1 .. Len(whole) : ~BlockAt(whole, i)
    PROVE  BlockCount(whole) = BlockCount(content)
<1>1. Len(whole) \in Len(content) .. Len(whole)
  OBVIOUS
<1>2. Cuts(whole) = Cuts(content)
  BY <1>1, CutsKept DEF Cuts
<1> QED
  BY <1>2, SplitIs DEF BlockCount

(* What follows a content and begins one block more.                       *)
LEMMA LaterBlock ==
    ASSUME NEW content \in Seq(AnyToken), NEW whole \in Seq(AnyToken),
           \A i \in 1 .. Len(content) : whole[i] = content[i],
           NEW s \in Len(content) + 1 .. Len(whole),
           \A i \in Len(content) + 1 .. s - 1 : whole[i].kind = "ws",
           BlockAt(whole, s),
           \A i \in s + 1 .. Len(whole) : ~BlockAt(whole, i)
    PROVE  SplitBlocks(whole) =
             Append(SplitBlocks(content),
                    [tag |-> TagOf(whole[s]),
                     html |-> Stripped(SubSeq(whole, s, Len(whole)))])
<1>0. PICK L \in Nat, W \in Nat :
         /\ L = Len(content) /\ W = Len(whole) /\ L < s /\ s <= W /\ s \in Nat
         /\ s - 1 \in L .. W /\ s \in 1 .. W /\ s \in 0 .. W /\ W \in s .. W
  OBVIOUS
<1>1. Scanned(whole)[s - 1].cuts = Cuts(content)
  <2>1. ASSUME NEW i \in Len(content) + 1 .. s - 1
        PROVE  ~BlockAt(whole, i)
    BY <2>1 DEF BlockAt, Begins
  <2> QED
    BY <1>0, <2>1, CutsKept
<1>2. Scanned(whole)[s].cuts = Append(Cuts(content), [at |-> s, tag |-> TagOf(whole[s])])
  <2>1. s \in 1 .. Len(whole)
    BY <1>0
  <2>2. Scanned(whole)[s].cuts
          = Append(Scanned(whole)[s - 1].cuts, [at |-> s, tag |-> TagOf(whole[s])])
    BY <2>1, StepOf
  <2> QED
    BY <1>1, <2>2
<1>3. Cuts(whole) = Append(Cuts(content), [at |-> s, tag |-> TagOf(whole[s])])
  <2>1. Scanned(whole)[W].cuts = Scanned(whole)[s].cuts
    BY <1>0, NoCuts
  <2> QED
    BY <1>0, <1>2, <2>1 DEF Cuts
<1> PICK cut : cut = [at |-> s, tag |-> TagOf(whole[s])]
  OBVIOUS
<1>4. cut \in [at : Nat, tag : Tags] /\ cut.at = s /\ cut.tag = TagOf(whole[s])
  <2>1. whole[s] \in AnyToken
    BY <1>0
  <2>2. TagOf(whole[s]) \in Tags
    BY <2>1 DEF TagOf, AnyToken, Tags
  <2> QED
    BY <1>0, <2>2
<1>5. PICK N \in Nat : N = Len(Cuts(content))
  BY SplitIs
<1>6. /\ Len(Cuts(whole)) = N + 1 /\ Cuts(whole)[N + 1] = cut
      /\ \A n \in 1 .. N : Cuts(whole)[n] = Cuts(content)[n]
  BY <1>3, <1>4, <1>5, SplitIs, AppendProperties
<1> PICK last : last = [tag |-> TagOf(whole[s]), html |-> Stripped(SubSeq(whole, s, Len(whole)))]
  OBVIOUS
<1>7. SplitBlocks(whole)[N + 1] = last
  <2>1. N + 1 \in 1 .. Len(Cuts(whole)) /\ Ends(whole, N + 1) = W
    BY <1>0, <1>5, <1>6 DEF Ends
  <2>2. SplitBlocks(whole)[N + 1] =
          [tag  |-> Cuts(whole)[N + 1].tag,
           html |-> Stripped(SubSeq(whole, Cuts(whole)[N + 1].at, Ends(whole, N + 1)))]
    BY <2>1, SplitIs
  <2> QED
    BY <1>0, <1>4, <1>6, <2>1, <2>2
<1>8. ASSUME NEW n \in 1 .. N
      PROVE  SplitBlocks(whole)[n] = SplitBlocks(content)[n]
  <2>1. /\ n \in 1 .. Len(Cuts(content)) /\ n \in 1 .. Len(Cuts(whole))
        /\ Cuts(whole)[n] = Cuts(content)[n] /\ n \in Nat
    BY <1>5, <1>6
  <2>2. PICK a \in 1 .. L : a = Cuts(content)[n].at
    BY <1>0, <2>1, CutOfBlock
  <2>3. PICK e \in a .. L : e = Ends(content, n)
    BY <1>0, <2>1, <2>2, CutOfBlock
  <2>4. /\ a \in Nat \ {0} /\ e \in Nat /\ e <= L /\ e <= W /\ a <= e
        /\ \A i \in a .. e : i \in 1 .. L
    BY <1>0, <2>2, <2>3
  <2>5. Stripped(SubSeq(whole, a, Ends(whole, n))) = Stripped(SubSeq(content, a, e))
    <3>1. SubSeq(whole, a, e) = SubSeq(content, a, e) /\ SubSeq(content, a, e) \in Seq(AnyToken)
      <4>1. \A i \in a .. e : content[i] = whole[i]
        BY <1>0, <2>4
      <4> QED
        BY <1>0, <2>4, <4>1, PieceAlike
    <3>2. CASE n < N
      <4>1. n + 1 \in 1 .. N
        BY <1>5, <3>2
      <4>2. Ends(whole, n) = e
        BY <1>5, <1>6, <2>1, <2>3, <3>2, <4>1 DEF Ends
      <4> QED
        BY <3>1, <4>2
    <3>3. CASE n = N
      <4>1. Ends(whole, n) = s - 1 /\ e = L
        BY <1>0, <1>4, <1>5, <1>6, <2>3, <3>3 DEF Ends
      <4> PICK z \in Nat : z = s - 1
        BY <1>0
      <4>2. z <= W /\ z \in Int /\ e <= z
        BY <1>0, <2>4, <4>1
      <4>3. /\ SubSeq(whole, a, z) \in Seq(AnyToken)
            /\ Len(SubSeq(whole, a, z)) = z - a + 1
            /\ \A i \in 1 .. z - a + 1 : SubSeq(whole, a, z)[i] = whole[a + i - 1]
        <5>1. a \in Int /\ z \in Int /\ a <= z /\ \A i \in a .. z : whole[i] \in AnyToken
          BY <1>0, <2>4, <4>2
        <5> HIDE DEF AnyToken
        <5>2. /\ SubSeq(whole, a, z) \in Seq(AnyToken)
              /\ Len(SubSeq(whole, a, z)) = IF a <= z THEN z - a + 1 ELSE 0
              /\ \A i \in 1 .. z - a + 1 : SubSeq(whole, a, z)[i] = whole[a + i - 1]
          BY <5>1, SubSeqProperties
        <5> QED
          BY <5>1, <5>2
      <4>4. /\ Len(SubSeq(content, a, e)) = e - a + 1
            /\ \A i \in 1 .. e - a + 1 : SubSeq(content, a, e)[i] = content[a + i - 1]
        <5>1. a \in Int /\ e \in Int /\ a <= e /\ \A i \in a .. e : content[i] \in AnyToken
          BY <1>0, <2>4
        <5> HIDE DEF AnyToken
        <5>2. /\ Len(SubSeq(content, a, e)) = IF a <= e THEN e - a + 1 ELSE 0
              /\ \A i \in 1 .. e - a + 1 : SubSeq(content, a, e)[i] = content[a + i - 1]
          BY <5>1, SubSeqProperties
        <5> QED
          BY <5>1, <5>2
      <4>5. \A i \in 1 .. e - a + 1 : SubSeq(whole, a, z)[i] = SubSeq(content, a, e)[i]
        <5> TAKE i \in 1 .. e - a + 1
        <5>1. i \in 1 .. z - a + 1 /\ a + i - 1 \in 1 .. L
          BY <1>0, <2>4, <4>2
        <5> QED
          BY <1>0, <4>3, <4>4, <5>1
      <4>6. \A i \in (e - a + 1) + 1 .. z - a + 1 : SubSeq(whole, a, z)[i].kind = "ws"
        <5> TAKE i \in (e - a + 1) + 1 .. z - a + 1
        <5>1. i \in 1 .. z - a + 1 /\ a + i - 1 \in L + 1 .. z
          BY <1>0, <2>4, <4>1, <4>2
        <5> QED
          BY <1>0, <4>3, <5>1
      <4>7. Stripped(SubSeq(whole, a, z)) = Stripped(SubSeq(content, a, e))
        <5> PICK html \in Seq(AnyToken), more \in Seq(AnyToken) :
               html = SubSeq(content, a, e) /\ more = SubSeq(whole, a, z)
          BY <3>1, <4>3
        <5>1. Len(html) <= Len(more)
          BY <2>4, <4>2, <4>3, <4>4
        <5>2. \A i \in 1 .. Len(html) : more[i] = html[i]
          BY <4>4, <4>5
        <5>3. \A i \in Len(html) + 1 .. Len(more) : more[i].kind = "ws"
          BY <4>3, <4>4, <4>6
        <5> QED
          BY <5>1, <5>2, <5>3, StrippedMore
      <4> QED
        BY <4>1, <4>7
    <3> QED
      BY <1>5, <2>1, <3>2, <3>3
  <2>6. SplitBlocks(whole)[n] =
          [tag  |-> Cuts(whole)[n].tag,
           html |-> Stripped(SubSeq(whole, Cuts(whole)[n].at, Ends(whole, n)))]
    BY <2>1, SplitIs
  <2>7. SplitBlocks(content)[n] =
          [tag  |-> Cuts(content)[n].tag,
           html |-> Stripped(SubSeq(content, Cuts(content)[n].at, Ends(content, n)))]
    BY <2>1, SplitIs
  <2> QED
    BY <2>1, <2>2, <2>3, <2>5, <2>6, <2>7
<1>9. PICK blocks \in Seq(BlockSet), all \in Seq(BlockSet) :
         /\ blocks = SplitBlocks(content) /\ Len(blocks) = N
         /\ all = SplitBlocks(whole) /\ Len(all) = N + 1
  BY <1>5, <1>6, SplitIs
<1>10. last \in BlockSet
  <2>1. N + 1 \in 1 .. Len(all)
    BY <1>5, <1>9
  <2>2. all[N + 1] \in BlockSet
    BY <1>9, <2>1, ElementOfSeq
  <2> QED
    BY <1>7, <1>9, <2>2
<1>11. /\ Append(blocks, last) \in Seq(BlockSet) /\ Len(Append(blocks, last)) = N + 1
       /\ \A n \in 1 .. N : Append(blocks, last)[n] = blocks[n]
       /\ Append(blocks, last)[N + 1] = last
  <2> HIDE DEF BlockSet
  <2> QED
    BY <1>9, <1>10, AppendProperties
<1>12. ASSUME NEW n \in 1 .. N + 1
       PROVE  all[n] = Append(blocks, last)[n]
  <2>1. n = N + 1 \/ n \in 1 .. N
    BY <1>5, LastOrBefore
  <2> QED
    BY <1>7, <1>8, <1>9, <1>11, <2>1
<1>13. all = Append(blocks, last)
  BY <1>9, <1>11, <1>12, SeqEqual
<1> QED
  BY <1>9, <1>13

-----------------------------------------------------------------------------
(* Contents that are one block.                                            *)

(* A block begins at its first token and at no other.                      *)
OneBlock(html) ==
    /\ html \in Seq(AnyToken) /\ html # <<>>
    /\ BlockAt(html, 1)
    /\ \A i \in 2 .. Len(html) : ~BlockAt(html, i)
    /\ html[Len(html)].kind # "ws"

(* How many elements are still open at the end of a content.               *)
Final(content) == Scanned(content)[Len(content)].depth

(* An element around text: what the tools write.                           *)
Wraps(html) ==
    /\ html \in Seq(AnyToken) /\ Len(html) >= 2
    /\ html[1].kind = "open" /\ html[Len(html)].kind = "close"
    /\ \A i \in 2 .. Len(html) - 1 : html[i].kind \in {"text", "ws"}

(* Wherever it stands it leaves the depth as it was, and inside it no      *)
(* block begins.                                                           *)
LEMMA WrapsIn ==
    ASSUME NEW content \in Seq(AnyToken), NEW html, Wraps(html),
           NEW o \in Nat, o + Len(html) <= Len(content),
           \A j \in 1 .. Len(html) : content[o + j] = html[j]
    PROVE  /\ \A j \in 2 .. Len(html) : ~BlockAt(content, o + j)
           /\ Scanned(content)[o].depth # 0 => ~BlockAt(content, o + 1)
           /\ Scanned(content)[o + Len(html)].depth = Scanned(content)[o].depth
<1>0. PICK w \in Nat, C \in Nat : w = Len(html) /\ C = Len(content) /\ w >= 2 /\ o + w <= C
  BY DEF Wraps
<1>1. o \in 0 .. C /\ \A j \in 1 .. w : o + j \in 1 .. C /\ (o + j) - 1 = o + (j - 1)
  BY <1>0
<1>2. PICK d \in Nat : d = Scanned(content)[o].depth
  <2>1. Scanned(content)[o] \in Scans
    BY <1>0, <1>1, ScansAll
  <2> QED
    BY <2>1 DEF Scans
<1>3. ASSUME NEW j \in 1 .. w
      PROVE  Scanned(content)[o + j].depth = Deeper(Scanned(content)[o + (j - 1)].depth, html[j])
  <2> PICK i \in 1 .. C : i = o + j /\ i - 1 = o + (j - 1)
    BY <1>1
  <2>1. content[i] = html[j]
    BY <1>0
  <2>2. Scanned(content)[i].depth = Deeper(Scanned(content)[i - 1].depth, content[i])
    BY <1>0, StepOf
  <2> QED
    BY <2>1, <2>2
<1> DEFINE T == {k \in Nat : k + 2 <= w => Scanned(content)[o + (k + 1)].depth = d + 1}
<1>4. 0 \in T
  <2>1. 1 \in 1 .. w /\ o + (1 - 1) = o /\ 0 + 1 = 1
    BY <1>0
  <2>2. html[1].kind = "open"
    BY DEF Wraps
  <2>3. Scanned(content)[o + 1].depth = d + 1
    BY <1>2, <1>3, <2>1, <2>2 DEF Deeper
  <2> QED
    BY <2>1, <2>3
<1>5. ASSUME NEW k \in Nat, k \in T
      PROVE  k + 1 \in T
  <2> SUFFICES ASSUME (k + 1) + 2 <= w
               PROVE  Scanned(content)[o + ((k + 1) + 1)].depth = d + 1
    OBVIOUS
  <2>1. /\ (k + 1) + 1 \in 1 .. w /\ (k + 1) + 1 \in 2 .. w - 1
        /\ ((k + 1) + 1) - 1 = k + 1 /\ k + 2 <= w
    BY <1>0
  <2>2. Scanned(content)[o + (k + 1)].depth = d + 1
    BY <1>5, <2>1
  <2>3. html[(k + 1) + 1].kind \in {"text", "ws"}
    BY <1>0, <2>1 DEF Wraps
  <2>4. Scanned(content)[o + ((k + 1) + 1)].depth
          = Deeper(Scanned(content)[o + (((k + 1) + 1) - 1)].depth, html[(k + 1) + 1])
    BY <1>3, <2>1
  <2> QED
    BY <2>1, <2>2, <2>3, <2>4 DEF Deeper
<1>6. Nat \subseteq T
  <2> HIDE DEF T
  <2> QED
    BY <1>4, <1>5, Induction
<1>7. ASSUME NEW j \in 2 .. w
      PROVE  Scanned(content)[o + (j - 1)].depth = d + 1
  <2>1. j - 2 \in Nat /\ (j - 2) + 2 <= w /\ (j - 2) + 1 = j - 1
    BY <1>0
  <2>2. j - 2 \in T
    <3> HIDE DEF T
    <3> QED
      BY <1>6, <2>1
  <2> QED
    BY <2>1, <2>2
<1>8. ASSUME NEW j \in 1 .. w, BlockAt(content, o + j)
      PROVE  Scanned(content)[o + (j - 1)].depth = 0
  BY <1>1, <1>8 DEF BlockAt, Begins
<1>9. ASSUME NEW j \in 2 .. w
      PROVE  ~BlockAt(content, o + j)
  <2>1. j \in 1 .. w /\ d + 1 # 0
    BY <1>0, <1>2
  <2> QED
    BY <1>7, <1>8, <2>1
<1>10. d # 0 => ~BlockAt(content, o + 1)
  <2>1. 1 \in 1 .. w /\ o + (1 - 1) = o
    BY <1>0
  <2>2. BlockAt(content, o + 1) => Scanned(content)[o].depth = 0
    BY <1>8, <2>1
  <2> QED
    BY <1>2, <2>2
<1>11. Scanned(content)[o + w].depth = d
  <2>1. w \in 1 .. w /\ w \in 2 .. w
    BY <1>0
  <2>2. html[w].kind = "close"
    BY <1>0 DEF Wraps
  <2>3. Scanned(content)[o + w].depth = Deeper(d + 1, html[w])
    BY <1>3, <1>7, <2>1
  <2>4. d + 1 # 0 /\ (d + 1) - 1 = d
    BY <1>2
  <2> QED
    BY <2>2, <2>3, <2>4 DEF Deeper
<1> QED
  BY <1>0, <1>2, <1>9, <1>10, <1>11

(* So alone it is one block, and closed.                                   *)
LEMMA WrapsOne ==
    ASSUME NEW html, Wraps(html)
    PROVE  OneBlock(html) /\ Final(html) = 0
<1>0. html \in Seq(AnyToken) /\ Len(html) \in Nat /\ Len(html) >= 2 /\ html # <<>>
  BY DEF Wraps
<1>1. /\ \A j \in 1 .. Len(html) : 0 + j = j
      /\ 0 + Len(html) = Len(html) /\ Len(html) <= Len(html)
  BY <1>0
<1>2. Scanned(html)[0].depth = 0
  BY <1>0, ScansAll DEF Unread
<1>3. /\ \A j \in 2 .. Len(html) : ~BlockAt(html, 0 + j)
      /\ Scanned(html)[0 + Len(html)].depth = Scanned(html)[0].depth
  BY <1>0, <1>1, WrapsIn
<1>4. \A j \in 2 .. Len(html) : 0 + j = j
  BY <1>0
<1>5. BlockAt(html, 1)
  <2>1. 1 - 1 = 0 /\ html[1].kind = "open"
    BY DEF Wraps
  <2> QED
    BY <1>2, <2>1 DEF BlockAt, Begins
<1>6. html[Len(html)].kind # "ws"
  BY DEF Wraps
<1> QED
  BY <1>0, <1>1, <1>2, <1>3, <1>4, <1>5, <1>6 DEF OneBlock, Final

(* What Element writes.                                                    *)
LEMMA ElementWraps ==
    ASSUME NEW tag \in Tags, NEW inline \in Seq(Inline)
    PROVE  Wraps(Element(tag, inline)) /\ Element(tag, inline)[1] = Open(tag)
<1>1. Open(tag) \in AnyToken /\ Close(tag) \in AnyToken
  BY DEF Open, Close, AnyToken, Kinds
<1>2. inline \in Seq(AnyToken)
  <2>1. Inline \subseteq AnyToken
    BY DEF Inline, Token, AnyToken, Tags
  <2> QED
    BY <2>1, SeqMonotonic
<1>3. PICK n \in Nat : n = Len(inline)
  OBVIOUS
<1>4. PICK first \in Seq(AnyToken), last \in Seq(AnyToken) :
         /\ first = <<Open(tag)>> /\ Len(first) = 1 /\ first[1] = Open(tag)
         /\ last = <<Close(tag)>> /\ Len(last) = 1 /\ last[1] = Close(tag)
  <2>1. ASSUME NEW token \in AnyToken
        PROVE  <<token>> \in Seq(AnyToken) /\ Len(<<token>>) = 1 /\ <<token>>[1] = token
    OBVIOUS
  <2> QED
    BY <1>1, <2>1
<1>5. PICK begun \in Seq(AnyToken) :
         /\ begun = first \o inline /\ Len(begun) = n + 1
         /\ begun[1] = Open(tag)
         /\ \A i \in 2 .. n + 1 : begun[i] = inline[i - 1]
  <2>1. /\ first \o inline \in Seq(AnyToken) /\ Len(first \o inline) = 1 + n
        /\ \A i \in 1 .. 1 + n : (first \o inline)[i] = IF i <= 1 THEN first[i] ELSE inline[i - 1]
    <3> HIDE DEF AnyToken
    <3> QED
      BY <1>2, <1>3, <1>4, ConcatProperties
  <2>2. 1 \in 1 .. 1 + n /\ 1 + n = n + 1 /\ \A i \in 2 .. n + 1 : i \in 1 .. 1 + n /\ ~(i <= 1)
    BY <1>3
  <2> DEFINE s == first \o inline
  <2>3. s \in Seq(AnyToken) /\ Len(s) = n + 1 /\ s[1] = Open(tag)
    BY <1>4, <2>1, <2>2
  <2>4. \A i \in 2 .. n + 1 : s[i] = inline[i - 1]
    BY <2>1, <2>2
  <2> HIDE DEF s
  <2>5. \E begun \in Seq(AnyToken) :
          /\ begun = s /\ Len(begun) = n + 1
          /\ begun[1] = Open(tag)
          /\ \A i \in 2 .. n + 1 : begun[i] = inline[i - 1]
    BY <2>3, <2>4
  <2> QED
    BY <2>5 DEF s
<1>6. PICK html \in Seq(AnyToken) :
         /\ html = begun \o last /\ Len(html) = n + 2
         /\ html[n + 2] = Close(tag)
         /\ \A i \in 1 .. n + 1 : html[i] = begun[i]
  <2>1. /\ begun \o last \in Seq(AnyToken) /\ Len(begun \o last) = (n + 1) + 1
        /\ \A i \in 1 .. (n + 1) + 1 :
              (begun \o last)[i] = IF i <= n + 1 THEN begun[i] ELSE last[i - (n + 1)]
    <3> HIDE DEF AnyToken
    <3> QED
      BY <1>4, <1>5, ConcatProperties
  <2>2. /\ (n + 1) + 1 = n + 2 /\ n + 2 \in 1 .. (n + 1) + 1 /\ ~(n + 2 <= n + 1)
        /\ (n + 2) - (n + 1) = 1
        /\ \A i \in 1 .. n + 1 : i \in 1 .. (n + 1) + 1 /\ i <= n + 1
    BY <1>3
  <2> DEFINE s == begun \o last
  <2>3. s \in Seq(AnyToken) /\ Len(s) = n + 2 /\ s[n + 2] = Close(tag)
    BY <1>4, <2>1, <2>2
  <2>4. \A i \in 1 .. n + 1 : s[i] = begun[i]
    BY <2>1, <2>2
  <2> HIDE DEF s
  <2>5. \E html \in Seq(AnyToken) :
          /\ html = s /\ Len(html) = n + 2
          /\ html[n + 2] = Close(tag)
          /\ \A i \in 1 .. n + 1 : html[i] = begun[i]
    BY <2>3, <2>4
  <2> QED
    BY <2>5 DEF s
<1>7. Element(tag, inline) = html
  BY <1>4, <1>5, <1>6 DEF Element
<1>8. html[1] = Open(tag)
  <2>1. 1 \in 1 .. n + 1
    BY <1>3
  <2> QED
    BY <1>5, <1>6, <2>1
<1>9. ASSUME NEW i \in 2 .. (n + 2) - 1
      PROVE  html[i].kind \in {"text", "ws"}
  <2>1. i \in 1 .. n + 1 /\ i \in 2 .. n + 1 /\ i - 1 \in 1 .. n
    BY <1>3
  <2>2. inline[i - 1] \in Inline
    BY <1>3, <2>1
  <2> QED
    BY <1>5, <1>6, <2>1, <2>2 DEF Inline
<1>10. Open(tag).kind = "open" /\ Close(tag).kind = "close" /\ n + 2 >= 2
  BY <1>3 DEF Open, Close
<1> QED
  BY <1>6, <1>7, <1>8, <1>9, <1>10 DEF Wraps

(* Gluing is concatenation with whitespace between, of what is not empty.  *)
LEMMA GlueIs ==
    ASSUME NEW content \in Seq(AnyToken), NEW part \in Seq(AnyToken)
    PROVE  /\ Glue(content, part) \in Seq(AnyToken)
           /\ part = <<>> => Glue(content, part) = content
           /\ content = <<>> => Glue(content, part) = part
           /\ content # <<>> /\ part # <<>> =>
                /\ Glue(content, part) = content \o (<<WS>> \o part)
                /\ Len(Glue(content, part)) = Len(content) + 1 + Len(part)
                /\ \A i \in 1 .. Len(content) : Glue(content, part)[i] = content[i]
                /\ Glue(content, part)[Len(content) + 1] = WS
                /\ \A i \in 1 .. Len(part) :
                      Glue(content, part)[Len(content) + 1 + i] = part[i]
<1>1. WS \in AnyToken
  BY DEF WS, AnyToken, Kinds, Tags
<1>2. PICK ws \in Seq(AnyToken) : ws = <<WS>> /\ Len(ws) = 1 /\ ws[1] = WS
  <2>1. ASSUME NEW token \in AnyToken
        PROVE  <<token>> \in Seq(AnyToken) /\ Len(<<token>>) = 1 /\ <<token>>[1] = token
    OBVIOUS
  <2> QED
    BY <1>1, <2>1
<1> HIDE DEF AnyToken
<1>3. PICK n \in Nat, m \in Nat : n = Len(content) /\ m = Len(part)
  OBVIOUS
<1>4. /\ content \o ws \in Seq(AnyToken) /\ Len(content \o ws) = n + 1
      /\ \A i \in 1 .. n + 1 : (content \o ws)[i] = IF i <= n THEN content[i] ELSE ws[i - n]
  BY <1>2, <1>3, ConcatProperties
<1> DEFINE s == content \o ws
<1>5. /\ s \in Seq(AnyToken) /\ Len(s) = n + 1 /\ s[n + 1] = WS
      /\ \A i \in 1 .. n : s[i] = content[i]
  <2>1. /\ n + 1 \in 1 .. n + 1 /\ ~(n + 1 <= n) /\ (n + 1) - n = 1
        /\ \A i \in 1 .. n : i \in 1 .. n + 1 /\ i <= n
    BY <1>3
  <2> QED
    BY <1>2, <1>4, <2>1
<1> DEFINE t == s \o part
<1>6. /\ t \in Seq(AnyToken) /\ Len(t) = (n + 1) + m
      /\ \A i \in 1 .. (n + 1) + m : t[i] = IF i <= n + 1 THEN s[i] ELSE part[i - (n + 1)]
  <2> HIDE DEF s
  <2>1. /\ s \o part \in Seq(AnyToken) /\ Len(s \o part) = Len(s) + Len(part)
        /\ \A i \in 1 .. Len(s) + Len(part) :
              (s \o part)[i] = IF i <= Len(s) THEN s[i] ELSE part[i - Len(s)]
    BY <1>5, ConcatProperties
  <2>2. Len(s) = n + 1 /\ Len(part) = m
    BY <1>3, <1>5
  <2> QED
    BY <2>1, <2>2
<1>7. t = content \o (ws \o part)
  BY <1>2, ConcatAssociative
<1> HIDE DEF s, t
<1>8. /\ Len(t) = n + 1 + m /\ t[n + 1] = WS
      /\ \A i \in 1 .. n : t[i] = content[i]
      /\ \A i \in 1 .. m : t[n + 1 + i] = part[i]
  <2>1. /\ (n + 1) + m = n + 1 + m /\ n + 1 \in 1 .. (n + 1) + m
        /\ \A i \in 1 .. n : i \in 1 .. (n + 1) + m /\ i <= n + 1
    BY <1>3
  <2>2. ASSUME NEW i \in 1 .. m
        PROVE  t[n + 1 + i] = part[i]
    <3>1. PICK k \in Nat : k = n + 1 + i /\ k \in 1 .. (n + 1) + m /\ ~(k <= n + 1) /\ k - (n + 1) = i
      BY <1>3
    <3> QED
      BY <1>6, <3>1
  <2>3. t[n + 1] = s[n + 1]
    BY <1>3, <1>6, <2>1
  <2>4. \A i \in 1 .. n : t[i] = s[i]
    BY <1>6, <2>1
  <2>5. Len(t) = n + 1 + m
    BY <1>6, <2>1
  <2>6. t[n + 1] = WS
    BY <1>5, <2>3
  <2>7. \A i \in 1 .. n : t[i] = content[i]
    BY <1>5, <2>4
  <2> QED
    BY <2>2, <2>5, <2>6, <2>7
<1>9. content # <<>> /\ part # <<>> => Glue(content, part) = t
  BY <1>2 DEF Glue, s, t
<1>10. /\ part = <<>> => Glue(content, part) = content
       /\ content = <<>> => Glue(content, part) = part
  BY DEF Glue
<1> QED
  BY <1>2, <1>3, <1>6, <1>7, <1>8, <1>9, <1>10

(* One block more at the end: it is the last block there is, or none.      *)
LEMMA GlueOne ==
    ASSUME NEW content \in Seq(AnyToken), NEW html, OneBlock(html),
           Final(content) = 0 \/ Wraps(html)
    PROVE  /\ \/ BlockCount(Glue(content, html)) = BlockCount(content)
              \/ SplitBlocks(Glue(content, html)) =
                   Append(SplitBlocks(content), [tag |-> TagOf(html[1]), html |-> html])
           /\ Final(content) = 0 /\ Final(html) = 0 => Final(Glue(content, html)) = 0
<1>0. html \in Seq(AnyToken) /\ html # <<>> /\ Len(html) \in Nat \ {0} /\ Len(content) \in Nat
  BY EmptySeq DEF OneBlock
<1> PICK whole \in Seq(AnyToken) : whole = Glue(content, html)
  BY <1>0, GlueIs
<1>1. Stripped(SubSeq(html, 1, Len(html))) = html
  <2>1. SubSeq(html, 1, Len(html)) = html
    BY <1>0, SubSeqFull
  <2>2. Stripped(html) = SubSeq(html, 1, Len(html))
    <3>1. Len(html) \in 0 .. Len(html) /\ \A i \in Len(html) + 1 .. Len(html) : html[i].kind = "ws"
      BY <1>0
    <3> QED
      BY <1>0, <3>1, StrippedIs DEF OneBlock
  <2> QED
    BY <2>1, <2>2
<1>2. CASE content = <<>>
  <2>1. whole = html /\ Len(content) = 0
    BY <1>0, <1>2, GlueIs
  <2>2. /\ \A i \in 1 .. Len(content) : whole[i] = content[i]
        /\ 1 \in Len(content) + 1 .. Len(whole)
        /\ \A i \in Len(content) + 1 .. 1 - 1 : whole[i].kind = "ws"
        /\ BlockAt(whole, 1)
        /\ \A i \in 1 + 1 .. Len(whole) : ~BlockAt(whole, i)
    BY <1>0, <2>1 DEF OneBlock
  <2>3. SplitBlocks(whole) =
             Append(SplitBlocks(content),
                    [tag |-> TagOf(whole[1]),
                     html |-> Stripped(SubSeq(whole, 1, Len(whole)))])
    BY <2>2, LaterBlock
  <2> QED
    BY <1>1, <2>1, <2>3
<1>3. CASE content # <<>>
  <2>1. PICK L \in Nat, m \in Nat, o \in Nat :
           L = Len(content) /\ m = Len(html) /\ m >= 1 /\ o = L + 1
    BY <1>0
  <2>2. /\ Len(whole) = o + m /\ whole[o] = WS
        /\ \A i \in 1 .. L : whole[i] = content[i]
        /\ \A i \in 1 .. m : whole[o + i] = html[i]
    <3>1. /\ Len(Glue(content, html)) = Len(content) + 1 + Len(html)
          /\ Glue(content, html)[Len(content) + 1] = WS
          /\ \A i \in 1 .. Len(content) : Glue(content, html)[i] = content[i]
          /\ \A i \in 1 .. Len(html) : Glue(content, html)[Len(content) + 1 + i] = html[i]
      BY <1>0, <1>3, GlueIs, Zenon
    <3> QED
      BY <2>1, <3>1
  <2>3. Scanned(whole)[L] = Scanned(content)[L]
    <3>1. L \in 0 .. Len(content) /\ L <= Len(whole) /\ \A i \in 1 .. L : content[i] = whole[i]
      BY <2>1, <2>2
    <3>2. L \in 0 .. L
      BY <2>1
    <3> QED
      BY <3>1, <3>2, ScansAlike
  <2>4. /\ ~BlockAt(whole, o)
        /\ Scanned(whole)[o].depth = Final(content)
        /\ Scanned(whole)[o] \in Scans
    <3>1. o \in 1 .. Len(whole) /\ o - 1 = L
      BY <2>1, <2>2
    <3>2. ~BlockAt(whole, o)
      BY <2>2 DEF BlockAt, Begins, WS
    <3>3. Scanned(whole)[o].depth = Deeper(Scanned(whole)[o - 1].depth, whole[o])
          /\ Scanned(whole)[o] \in Scans
      BY <3>1, StepOf
    <3> QED
      BY <2>1, <2>2, <2>3, <3>1, <3>2, <3>3 DEF Deeper, WS, Final
  <2>5. /\ o + m <= Len(whole) /\ Len(html) = m /\ m \in 1 .. Len(html)
        /\ \A j \in 1 .. m : whole[o + j] = html[j]
        /\ o + 1 \in Len(content) + 1 .. Len(whole) /\ o + 1 \in 1 .. Len(whole)
        /\ (o + 1) - 1 = o
        /\ Len(content) <= Len(whole)
        /\ \A i \in 1 .. Len(content) : whole[i] = content[i]
    BY <2>1, <2>2
  <2>6. ASSUME \A j \in 2 .. m : ~BlockAt(whole, o + j), ~BlockAt(whole, o + 1)
        PROVE  BlockCount(whole) = BlockCount(content)
    <3>1. ASSUME NEW i \in Len(content) + 1 .. Len(whole)
          PROVE  ~BlockAt(whole, i)
      <4>1. i = o \/ i = o + 1 \/ (i - o \in 2 .. m /\ o + (i - o) = i)
        BY <2>1, <2>2
      <4> QED
        BY <2>4, <2>6, <4>1
    <3> QED
      BY <2>5, <3>1, NoLaterBlock
  <2>7. CASE Final(content) = 0
    <3>1. /\ Scanned(html)[0].depth = 0 /\ ~Scanned(html)[0].textOpen
          /\ 1 - 1 = 0 /\ 1 \in 1 .. Len(html)
      BY <1>0, ScansAll DEF Unread
    <3>2. Begins(Scanned(html)[0], html[1])
      BY <3>1 DEF OneBlock, BlockAt
    <3>3. html[1].kind \in {"open", "void", "close", "text"}
      BY <3>2 DEF Begins
    <3>4. /\ Scanned(html)[1].depth = Deeper(0, html[1])
          /\ Scanned(html)[1].textOpen <=> html[1].kind \in {"close", "text"}
          /\ Scanned(html)[1] \in Scans
      <4>1. BlockAt(html, 1)
        BY DEF OneBlock
      <4>2. Scanned(html)[1].depth = Deeper(Scanned(html)[1 - 1].depth, html[1])
            /\ Scanned(html)[1] \in Scans
        BY <1>0, <3>1, StepOf
      <4>3. Scanned(html)[1].textOpen <=> html[1].kind \in {"close", "text"}
        BY <1>0, <3>1, <4>1, StepOf
      <4> QED
        BY <3>1, <4>2, <4>3
    <3>5. whole[o + 1] = html[1]
      BY <2>1, <2>5
    <3>6. /\ Scanned(whole)[o + 1].depth = Deeper(0, html[1])
          /\ Scanned(whole)[o + 1] \in Scans
          /\ BlockAt(whole, o + 1) =>
               (Scanned(whole)[o + 1].textOpen <=> html[1].kind \in {"close", "text"})
          /\ ~BlockAt(whole, o + 1) => Scanned(whole)[o + 1].textOpen = Scanned(whole)[o].textOpen
      <4> PICK i \in 1 .. Len(whole) : i = o + 1 /\ i - 1 = o
        BY <2>5
      <4>1. /\ Scanned(whole)[i].depth = Deeper(Scanned(whole)[i - 1].depth, whole[i])
            /\ Scanned(whole)[i] \in Scans
            /\ BlockAt(whole, i) =>
                 (Scanned(whole)[i].textOpen <=> whole[i].kind \in {"close", "text"})
            /\ ~BlockAt(whole, i) => Scanned(whole)[i].textOpen = Scanned(whole)[i - 1].textOpen
        BY StepOf
      <4>2. Scanned(whole)[o + 1].depth = Deeper(0, html[1]) /\ Scanned(whole)[o + 1] \in Scans
        BY <2>4, <2>7, <3>5, <4>1
      <4>3. ASSUME BlockAt(whole, o + 1)
            PROVE  Scanned(whole)[o + 1].textOpen <=> html[1].kind \in {"close", "text"}
        BY <3>5, <4>1, <4>3
      <4>4. ASSUME ~BlockAt(whole, o + 1)
            PROVE  Scanned(whole)[o + 1].textOpen = Scanned(whole)[o].textOpen
        BY <4>1, <4>4
      <4>5. BlockAt(whole, o + 1) =>
               (Scanned(whole)[o + 1].textOpen <=> html[1].kind \in {"close", "text"})
        BY <4>3
      <4>6. ~BlockAt(whole, o + 1) => Scanned(whole)[o + 1].textOpen = Scanned(whole)[o].textOpen
        BY <4>4
      <4> QED
        BY <4>2, <4>5, <4>6
    <3>7. ~BlockAt(whole, o + 1) =>
            Scanned(whole)[o].textOpen /\ html[1].kind \in {"close", "text"}
      BY <2>4, <2>5, <2>7, <3>3, <3>5 DEF BlockAt, Begins
    <3>8. Agree(whole, o + 1, html, 1)
      <4>1. Scanned(whole)[o + 1].textOpen <=> html[1].kind \in {"close", "text"}
        BY <3>6, <3>7
      <4>2. Scanned(whole)[o + 1].textOpen \in BOOLEAN /\ Scanned(html)[1].textOpen \in BOOLEAN
        BY <3>4, <3>6 DEF Scans
      <4>3. Scanned(whole)[o + 1].textOpen = Scanned(html)[1].textOpen
        BY <3>4, <4>1, <4>2
      <4> QED
        BY <3>4, <3>6, <4>3 DEF Agree
    <3>9. /\ \A j \in 1 .. m : Agree(whole, o + j, html, j)
          /\ \A j \in 2 .. m : BlockAt(whole, o + j) <=> BlockAt(html, j)
      <4>1. /\ o \in Nat /\ m \in 1 .. Len(html) /\ o + m <= Len(whole)
            /\ \A j \in 1 .. m : whole[o + j] = html[j]
        BY <2>1, <2>5
      <4> QED
        BY <1>0, <3>8, <4>1, ScansOnAlike
    <3>10. \A j \in 2 .. m : ~BlockAt(whole, o + j)
      BY <2>5, <3>9 DEF OneBlock
    <3>11. Final(html) = 0 => Final(whole) = 0
      <4>1. Agree(whole, o + m, html, m)
        BY <2>5, <3>9
      <4> QED
        BY <2>2, <2>5, <4>1 DEF Agree, Final
    <3>12. CASE BlockAt(whole, o + 1)
      <4>1. \A i \in Len(content) + 1 .. (o + 1) - 1 : whole[i].kind = "ws"
        <5>1. \A i \in Len(content) + 1 .. (o + 1) - 1 : i = o
          BY <2>1
        <5> QED
          BY <2>2, <5>1 DEF WS
      <4>2. ASSUME NEW i \in (o + 1) + 1 .. Len(whole)
            PROVE  ~BlockAt(whole, i)
        <5>1. i - o \in 2 .. m /\ o + (i - o) = i
          BY <2>1, <2>2
        <5> QED
          BY <3>10, <5>1
      <4>3. SplitBlocks(whole) =
             Append(SplitBlocks(content),
                    [tag |-> TagOf(whole[o + 1]),
                     html |-> Stripped(SubSeq(whole, o + 1, Len(whole)))])
        BY <2>5, <3>12, <4>1, <4>2, LaterBlock
      <4>4. SubSeq(whole, o + 1, Len(whole)) = html
        <5>1. /\ o + 1 \in Int /\ o + m \in Int /\ o + 1 <= o + m /\ (o + m) - (o + 1) + 1 = m
              /\ \A i \in o + 1 .. o + m : whole[i] \in AnyToken
          BY <2>1, <2>2
        <5>2. /\ SubSeq(whole, o + 1, o + m) \in Seq(AnyToken)
              /\ Len(SubSeq(whole, o + 1, o + m)) = m
              /\ \A i \in 1 .. m : SubSeq(whole, o + 1, o + m)[i] = whole[(o + 1) + i - 1]
          <6>1. /\ SubSeq(whole, o + 1, o + m) \in Seq(AnyToken)
                /\ Len(SubSeq(whole, o + 1, o + m))
                     = IF o + 1 <= o + m THEN (o + m) - (o + 1) + 1 ELSE 0
                /\ \A i \in 1 .. (o + m) - (o + 1) + 1 :
                     SubSeq(whole, o + 1, o + m)[i] = whole[(o + 1) + i - 1]
            <7> HIDE DEF AnyToken
            <7> QED
              BY <5>1, SubSeqProperties
          <6> QED
            BY <5>1, <6>1
        <5>3. \A i \in 1 .. m : (o + 1) + i - 1 = o + i
          BY <2>1
        <5>4. \A i \in 1 .. m : SubSeq(whole, o + 1, o + m)[i] = html[i]
          BY <2>5, <5>2, <5>3
        <5>5. SubSeq(whole, o + 1, o + m) = html
          BY <1>0, <2>1, <5>2, <5>4, SeqEqual
        <5> QED
          BY <2>2, <5>5
      <4> QED
        BY <1>0, <1>1, <3>5, <3>11, <4>3, <4>4, SubSeqFull
    <3>13. CASE ~BlockAt(whole, o + 1)
      BY <2>6, <3>10, <3>11, <3>13
    <3> QED
      BY <3>12, <3>13
  <2>8. CASE Final(content) # 0 /\ Wraps(html)
    <3>1. /\ \A j \in 2 .. Len(html) : ~BlockAt(whole, o + j)
          /\ Scanned(whole)[o].depth # 0 => ~BlockAt(whole, o + 1)
      <4>1. /\ o \in Nat /\ o + Len(html) <= Len(whole)
            /\ \A j \in 1 .. Len(html) : whole[o + j] = html[j]
        BY <2>1, <2>5
      <4> QED
        BY <2>8, <4>1, WrapsIn
    <3>2. BlockCount(whole) = BlockCount(content)
      BY <2>4, <2>5, <2>6, <2>8, <3>1
    <3> QED
      BY <2>8, <3>2
  <2> QED
    BY <2>7, <2>8
<1> QED
  BY <1>2, <1>3

-----------------------------------------------------------------------------
(* Joining.                                                                *)

(* A sequence of one.                                                      *)
LEMMA OneAlone ==
    ASSUME NEW S, NEW x \in S
    PROVE  <<x>> \in Seq(S) /\ Len(<<x>>) = 1 /\ <<x>>[1] = x /\ <<>> \in Seq(S)
           /\ <<x>> # <<>>
OBVIOUS

(* What is empty is not glued.                                             *)
LEMMA GlueNothing ==
    ASSUME NEW html
    PROVE  Glue(html, <<>>) = html /\ Glue(<<>>, html) = html
BY DEF Glue

(* What is glued of two parts.                                             *)
LEMMA GlueParts ==
    ASSUME NEW a \in Seq(AnyToken), NEW b \in Seq(AnyToken), a # <<>>, b # <<>>
    PROVE  /\ Glue(a, b) = a \o (<<WS>> \o b)
           /\ Glue(a, b) \in Seq(AnyToken) /\ Glue(a, b) # <<>>
<1>1. /\ Glue(a, b) \in Seq(AnyToken)
      /\ Glue(a, b) = a \o (<<WS>> \o b)
      /\ Len(Glue(a, b)) = Len(a) + 1 + Len(b)
  BY GlueIs
<1>2. PICK n \in Nat, m \in Nat : n = Len(a) /\ m = Len(b)
  OBVIOUS
<1>3. n + 1 + m # 0
  BY <1>2
<1>4. Len(Glue(a, b)) # 0
  BY <1>1, <1>2, <1>3
<1>5. Len(<<>>) = 0
  OBVIOUS
<1> QED
  BY <1>1, <1>4, <1>5

(* Concatenation, of whatever set.                                         *)
LEMMA ConcatClosed ==
    ASSUME NEW S, NEW a \in Seq(S), NEW b \in Seq(S)
    PROVE  a \o b \in Seq(S)
OBVIOUS

(* It is associative.                                                      *)
LEMMA ConcatThree ==
    ASSUME NEW S, NEW a \in Seq(S), NEW b \in Seq(S), NEW c \in Seq(S)
    PROVE  (a \o b) \o c = a \o (b \o c)
OBVIOUS

(* So of tokens.                                                           *)
LEMMA TokensThree ==
    ASSUME NEW a \in Seq(AnyToken), NEW b \in Seq(AnyToken), NEW c \in Seq(AnyToken)
    PROVE  (a \o b) \o c = a \o (b \o c)
OBVIOUS

(* Gluing is associative too, because what is empty is left out.           *)
LEMMA GlueAssociative ==
    ASSUME NEW a \in Seq(AnyToken), NEW b \in Seq(AnyToken), NEW c \in Seq(AnyToken)
    PROVE  Glue(Glue(a, b), c) = Glue(a, Glue(b, c))
<1>1. CASE a = <<>> \/ b = <<>> \/ c = <<>>
  BY <1>1, GlueNothing
<1>2. CASE a # <<>> /\ b # <<>> /\ c # <<>>
  <2>1. Glue(a, b) = a \o (<<WS>> \o b) /\ Glue(a, b) \in Seq(AnyToken) /\ Glue(a, b) # <<>>
    BY <1>2, GlueParts
  <2>2. Glue(b, c) = b \o (<<WS>> \o c) /\ Glue(b, c) \in Seq(AnyToken) /\ Glue(b, c) # <<>>
    BY <1>2, GlueParts
  <2>3. Glue(Glue(a, b), c) = (a \o (<<WS>> \o b)) \o (<<WS>> \o c)
    <3> PICK ab \in Seq(AnyToken) : ab = Glue(a, b) /\ ab # <<>>
      BY <2>1
    <3>1. Glue(ab, c) = ab \o (<<WS>> \o c)
      BY <1>2, GlueParts
    <3> QED
      BY <2>1, <3>1
  <2>4. Glue(a, Glue(b, c)) = a \o (<<WS>> \o (b \o (<<WS>> \o c)))
    <3> PICK bc \in Seq(AnyToken) : bc = Glue(b, c) /\ bc # <<>>
      BY <2>2
    <3>1. Glue(a, bc) = a \o (<<WS>> \o bc)
      BY <1>2, GlueParts
    <3> QED
      BY <2>2, <3>1
  <2>5. (a \o (<<WS>> \o b)) \o (<<WS>> \o c) = a \o (<<WS>> \o (b \o (<<WS>> \o c)))
    <3>1. WS \in AnyToken
      BY DEF WS, AnyToken, Kinds, Tags
    <3> DEFINE w == <<WS>>
    <3>2. w \in Seq(AnyToken)
      BY <3>1, OneAlone
    <3> HIDE DEF w
    <3>3. \A x \in Seq(AnyToken), y \in Seq(AnyToken) : (a \o x) \o y = a \o (x \o y)
      <4> TAKE x \in Seq(AnyToken), y \in Seq(AnyToken)
      <4> QED
        BY TokensThree
    <3>4. w \o b \in Seq(AnyToken)
      BY <3>2, ConcatClosed
    <3>5. w \o c \in Seq(AnyToken)
      BY <3>2, ConcatClosed
    <3>6. (a \o (w \o b)) \o (w \o c) = a \o ((w \o b) \o (w \o c))
      BY <3>3, <3>4, <3>5, Zenon
    <3>7. (w \o b) \o (w \o c) = w \o (b \o (w \o c))
      BY <3>2, <3>5, TokensThree
    <3>8. (a \o (w \o b)) \o (w \o c) = a \o (w \o (b \o (w \o c)))
      BY <3>6, <3>7, Zenon
    <3> QED
      BY <3>8 DEF w
  <2> QED
    BY <2>3, <2>4, <2>5, Zenon
<1> QED
  BY <1>1, <1>2

(* What is joined after each part.                                         *)
Joined(parts) ==
    LET Glued[n \in 0 .. Len(parts)] ==
          IF n = 0 THEN <<>> ELSE Glue(Glued[n - 1], parts[n])
    IN Glued

(* Joining glues part after part.                                          *)
LEMMA JoinsAll ==
    ASSUME NEW parts \in Seq(Seq(AnyToken))
    PROVE  /\ Joined(parts) \in [0 .. Len(parts) -> Seq(AnyToken)]
           /\ Joined(parts)[0] = <<>>
           /\ \A n \in 1 .. Len(parts) :
                Joined(parts)[n] = Glue(Joined(parts)[n - 1], parts[n])
           /\ JoinBlocks(parts) = Joined(parts)[Len(parts)]
<1> DEFINE S == Seq(AnyToken)
           N == Len(parts)
           step == [x \in (1 .. N) \X S |-> Glue(x[2], parts[x[1]])]
           Body(f) == [n \in 0 .. N |-> IF n = 0 THEN <<>> ELSE Glue(f[n - 1], parts[n])]
           Glued == CHOOSE f : f = Body(f)
<1>1. N \in Nat /\ \A n \in 1 .. N : parts[n] \in S
  OBVIOUS
<1>2. <<>> \in S
  OBVIOUS
<1>3. step \in [(1 .. N) \X S -> S]
  <2>1. ASSUME NEW x \in (1 .. N) \X S
        PROVE  Glue(x[2], parts[x[1]]) \in S
    <3>1. x[1] \in 1 .. N /\ x[2] \in S
      OBVIOUS
    <3> QED
      BY <1>1, <3>1, GlueIs
  <2> QED
    BY <2>1
<1>4. PICK F : RunsUpTo(F, N, S, <<>>, step)
  <2> HIDE DEF step, N, S
  <2> QED
    BY <1>1, <1>2, <1>3, RecursionUpTo
<1>5. \A n \in 1 .. N, s \in S : step[<<n, s>>] = Glue(s, parts[n])
  OBVIOUS
<1>6. F = Body(F)
  <2> HIDE DEF step, N, S
  <2>1. ASSUME NEW n \in 1 .. N
        PROVE  F[n] = Glue(F[n - 1], parts[n])
    <3>1. n - 1 \in 0 .. N
      BY <1>1
    <3>2. F[n - 1] \in S /\ F[n] = step[<<n, F[n - 1]>>]
      BY <1>4, <3>1 DEF RunsUpTo
    <3> QED
      BY <1>5, <3>2
  <2> QED
    BY <1>1, <1>4, <2>1 DEF RunsUpTo
<1>7. Glued = Body(Glued)
  <2> HIDE DEF Body
  <2> QED
    BY <1>6
<1>8. /\ DOMAIN Glued = 0 .. N /\ Glued = [n \in DOMAIN Glued |-> Glued[n]]
      /\ \A n \in 0 .. N :
            Glued[n] = IF n = 0 THEN <<>> ELSE Glue(Glued[n - 1], parts[n])
  <2> HIDE DEF Glued, N
  <2> QED
    BY <1>7
<1> HIDE DEF Glued, step, Body
<1>9. Glued[0] = <<>>
  BY <1>1, <1>8
<1>10. ASSUME NEW n \in 1 .. N
       PROVE  Glued[n] = Glue(Glued[n - 1], parts[n])
  <2>1. n \in 0 .. N /\ n # 0
    BY <1>1
  <2> QED
    BY <1>8, <2>1
<1>11. Glued \in [0 .. N -> S]
  <2>1. ASSUME NEW n \in 1 .. N, Glued[n - 1] \in S
        PROVE  Glued[n] \in S
    <3>1. Glued[n] = Glue(Glued[n - 1], parts[n]) /\ parts[n] \in S
      BY <1>1, <1>10
    <3> QED
      BY <2>1, <3>1, GlueIs
  <2>2. Glued[0] \in S
    BY <1>2, <1>9
  <2> HIDE DEF N, S
  <2> QED
    BY <1>1, <1>8, <2>1, <2>2, StaysUpTo
<1>12. Joined(parts) = Glued
  BY DEF Joined, Glued, Body
<1>13. JoinBlocks(parts) = Glued[N]
  BY DEF JoinBlocks, Glued, Body
<1> QED
  BY <1>9, <1>10, <1>11, <1>12, <1>13

(* One part is joined to itself, and none to nothing.                      *)
LEMMA JoinOne ==
    ASSUME NEW html \in Seq(AnyToken)
    PROVE  /\ JoinBlocks(<<html>>) = html /\ JoinBlocks(<<>>) = <<>>
           /\ <<html>> \in Seq(Seq(AnyToken)) /\ <<>> \in Seq(Seq(AnyToken))
<1>1. <<html>> \in Seq(Seq(AnyToken)) /\ <<>> \in Seq(Seq(AnyToken))
      /\ Len(<<html>>) = 1 /\ <<html>>[1] = html
  BY OneAlone
<1>2. PICK parts \in Seq(Seq(AnyToken)) : parts = <<html>>
  BY <1>1
<1>3. PICK none \in Seq(Seq(AnyToken)) : none = <<>> /\ Len(none) = 0
  BY <1>1
<1>4. 1 \in 1 .. Len(parts) /\ 1 - 1 = 0 /\ Len(parts) = 1 /\ parts[1] = html
  BY <1>1, <1>2
<1>5. Joined(parts)[1] = Glue(Joined(parts)[0], html) /\ Joined(parts)[0] = <<>>
      /\ JoinBlocks(parts) = Joined(parts)[1]
  BY <1>4, JoinsAll
<1>6. JoinBlocks(none) = <<>>
  BY <1>3, JoinsAll
<1> QED
  BY <1>1, <1>2, <1>3, <1>5, <1>6, GlueNothing

(* Parts joined apart and glued are the parts joined.                      *)
LEMMA JoinConcat ==
    ASSUME NEW parts \in Seq(Seq(AnyToken)), NEW more \in Seq(Seq(AnyToken))
    PROVE  /\ JoinBlocks(parts) \in Seq(AnyToken) /\ parts \o more \in Seq(Seq(AnyToken))
           /\ JoinBlocks(parts \o more) = Glue(JoinBlocks(parts), JoinBlocks(more))
<1>0. PICK n \in Nat, m \in Nat : n = Len(parts) /\ m = Len(more)
  OBVIOUS
<1>1. PICK all \in Seq(Seq(AnyToken)) :
        /\ all = parts \o more /\ Len(all) = n + m
        /\ \A i \in 1 .. n + m : all[i] = IF i <= n THEN parts[i] ELSE more[i - n]
  <2> DEFINE S == Seq(AnyToken)
  <2>1. parts \in Seq(S) /\ more \in Seq(S)
    OBVIOUS
  <2> HIDE DEF S
  <2>2. /\ parts \o more \in Seq(S) /\ Len(parts \o more) = Len(parts) + Len(more)
        /\ \A i \in 1 .. Len(parts) + Len(more) :
              (parts \o more)[i] = IF i <= Len(parts) THEN parts[i] ELSE more[i - Len(parts)]
    BY <2>1, ConcatProperties
  <2> QED
    BY <1>0, <2>2 DEF S
<1>2. /\ \A i \in 0 .. n : Joined(parts)[i] \in Seq(AnyToken)
      /\ \A i \in 0 .. m : Joined(more)[i] \in Seq(AnyToken)
  BY <1>0, JoinsAll
<1> DEFINE T == {i \in Nat : i <= n => Joined(all)[i] = Joined(parts)[i]}
<1>3. 0 \in T
  BY JoinsAll
<1>4. ASSUME NEW i \in Nat, i \in T
      PROVE  i + 1 \in T
  <2> SUFFICES ASSUME i + 1 <= n PROVE Joined(all)[i + 1] = Joined(parts)[i + 1]
    OBVIOUS
  <2> PICK k \in Nat : k = i + 1
    BY <1>4
  <2>1. /\ k \in 1 .. Len(all) /\ k \in 1 .. Len(parts) /\ k - 1 = i /\ i <= n
        /\ k \in 1 .. n + m /\ k <= n
    BY <1>0, <1>1, <1>4
  <2>2. all[k] = parts[k]
    BY <1>1, <2>1
  <2>3. Joined(all)[k] = Glue(Joined(all)[k - 1], all[k])
    BY <2>1, JoinsAll
  <2>4. Joined(parts)[k] = Glue(Joined(parts)[k - 1], parts[k])
    BY <2>1, JoinsAll
  <2> QED
    BY <1>4, <2>1, <2>2, <2>3, <2>4
<1>5. Nat \subseteq T
  <2> HIDE DEF T
  <2> QED
    BY <1>3, <1>4, Induction
<1>6. Joined(all)[n] = Joined(parts)[n]
  BY <1>0, <1>5
<1> DEFINE U == {j \in Nat : j <= m =>
                   Joined(all)[n + j] = Glue(Joined(parts)[n], Joined(more)[j])}
<1>7. 0 \in U
  <2>1. n + 0 = n /\ n \in 0 .. n
    BY <1>0
  <2>2. Joined(more)[0] = <<>> /\ <<>> \in Seq(AnyToken)
    BY JoinsAll
  <2>3. Glue(Joined(parts)[n], <<>>) = Joined(parts)[n]
    BY <1>2, <2>1, <2>2, GlueIs
  <2> QED
    BY <1>6, <2>1, <2>2, <2>3
<1>8. ASSUME NEW j \in Nat, j \in U
      PROVE  j + 1 \in U
  <2> SUFFICES ASSUME j + 1 <= m
               PROVE  Joined(all)[n + (j + 1)] = Glue(Joined(parts)[n], Joined(more)[j + 1])
    OBVIOUS
  <2>0. PICK k \in Nat, l \in Nat : k = j + 1 /\ l = n + k
    <3>1. j + 1 \in Nat /\ n + (j + 1) \in Nat
      BY <1>0, <1>8
    <3> QED
      BY <3>1
  <2>1. /\ l \in 1 .. Len(all) /\ k \in 1 .. Len(more) /\ k - 1 = j /\ l - 1 = n + j /\ j <= m
        /\ l \in 1 .. n + m /\ ~(l <= n) /\ l - n = k /\ j \in 0 .. m /\ n \in 0 .. n
    BY <1>0, <1>1, <1>8, <2>0
  <2>2. all[l] = more[k]
    BY <1>1, <2>1
  <2>3. Joined(all)[l] = Glue(Joined(all)[l - 1], all[l])
    BY <2>1, JoinsAll
  <2>4. Joined(more)[k] = Glue(Joined(more)[k - 1], more[k])
    BY <2>1, JoinsAll
  <2>5. Joined(all)[n + j] = Glue(Joined(parts)[n], Joined(more)[j])
    BY <1>8, <2>1
  <2>6. more[k] \in Seq(AnyToken)
    BY <2>1
  <2>7. Glue(Glue(Joined(parts)[n], Joined(more)[j]), more[k])
          = Glue(Joined(parts)[n], Glue(Joined(more)[j], more[k]))
    BY <1>2, <2>1, <2>6, GlueAssociative
  <2> QED
    BY <2>0, <2>1, <2>2, <2>3, <2>4, <2>5, <2>7
<1>9. Nat \subseteq U
  <2> HIDE DEF U
  <2> QED
    BY <1>7, <1>8, Induction
<1>10. Joined(all)[n + m] = Glue(Joined(parts)[n], Joined(more)[m])
  BY <1>0, <1>9
<1>11. /\ JoinBlocks(parts) = Joined(parts)[n] /\ JoinBlocks(more) = Joined(more)[m]
       /\ JoinBlocks(all) = Joined(all)[n + m]
  BY <1>0, <1>1, JoinsAll
<1>12. n \in 0 .. n
  BY <1>0
<1> QED
  BY <1>1, <1>2, <1>10, <1>11, <1>12

(* Blocks in a row, as splitting finds them and edits leave them: each is  *)
(* one block, and behind one that leaves a tag open there are only         *)
(* elements around text.                                                   *)
Formed(blocks) ==
    /\ blocks \in Seq(BlockSet)
    /\ \A n \in 1 .. Len(blocks) :
          /\ OneBlock(blocks[n].html)
          /\ blocks[n].tag = TagOf(blocks[n].html[1])
          /\ Wraps(blocks[n].html) \/ \A m \in 1 .. n - 1 : Final(blocks[m].html) = 0

(* The parts of blocks.                                                    *)
LEMMA HtmlIs ==
    ASSUME NEW blocks \in Seq(BlockSet)
    PROVE  /\ Html(blocks) \in Seq(Seq(AnyToken)) /\ Len(Html(blocks)) = Len(blocks)
           /\ \A n \in 1 .. Len(blocks) :
                /\ Html(blocks)[n] = blocks[n].html /\ blocks[n].html \in Seq(AnyToken)
                /\ blocks[n] = [tag |-> blocks[n].tag, html |-> blocks[n].html]
<1>1. ASSUME NEW n \in 1 .. Len(blocks)
      PROVE  /\ blocks[n].html \in Seq(AnyToken)
             /\ blocks[n] = [tag |-> blocks[n].tag, html |-> blocks[n].html]
  <2> PICK block \in BlockSet : block = blocks[n]
    OBVIOUS
  <2>1. block.html \in Seq(AnyToken) /\ block = [tag |-> block.tag, html |-> block.html]
    BY DEF BlockSet
  <2> QED
    BY <2>1
<1>2. Len(blocks) \in Nat /\ DOMAIN blocks = 1 .. Len(blocks)
  OBVIOUS
<1> DEFINE S == Seq(AnyToken)
<1>3. \A n \in 1 .. Len(blocks) : blocks[n].html \in S
  BY <1>1
<1>4. Html(blocks) \in Seq(S) /\ Len(Html(blocks)) = Len(blocks)
      /\ \A n \in 1 .. Len(blocks) : Html(blocks)[n] = blocks[n].html
  <2> HIDE DEF S
  <2> QED
    BY <1>2, <1>3 DEF Html
<1> QED
  BY <1>1, <1>4

(* An empty content has no blocks.                                         *)
LEMMA NothingSplits ==
    /\ SplitBlocks(<<>>) = <<>> /\ BlockCount(<<>>) = 0 /\ Final(<<>>) = 0
    /\ <<>> \in Seq(AnyToken)
<1>0. <<>> \in Seq(AnyToken) /\ Len(<<>>) = 0
  OBVIOUS
<1>1. PICK none \in Seq(AnyToken) : none = <<>> /\ Len(none) = 0
  BY <1>0
<1>2. Scanned(none)[0] = Unread
  BY ScansAll
<1>3. Cuts(none) = <<>> /\ Final(none) = 0
  BY <1>1, <1>2 DEF Cuts, Final, Unread
<1>4. Len(SplitBlocks(none)) = 0 /\ SplitBlocks(none) \in Seq(BlockSet)
  BY <1>3, SplitIs
<1>5. SplitBlocks(none) = <<>>
  BY <1>4
<1> QED
  BY <1>1, <1>3, <1>4, <1>5 DEF BlockCount

(* A content that has the blocks of another and then n more.               *)
Adds(content, whole, blocks, n) ==
    /\ BlockCount(whole) <= BlockCount(content) + n
    /\ BlockCount(whole) = BlockCount(content) + n =>
         /\ \A i \in 1 .. BlockCount(content) : SplitBlocks(whole)[i] = SplitBlocks(content)[i]
         /\ \A i \in 1 .. n : SplitBlocks(whole)[BlockCount(content) + i] = blocks[i]

(* One block more, or none.                                                *)
LEMMA AddsOne ==
    ASSUME NEW content \in Seq(AnyToken), NEW blocks \in Seq(BlockSet),
           NEW n \in 1 .. Len(blocks), NEW whole \in Seq(AnyToken), NEW more \in Seq(AnyToken),
           Adds(content, whole, blocks, n - 1),
           \/ BlockCount(more) = BlockCount(whole)
           \/ SplitBlocks(more) = Append(SplitBlocks(whole), blocks[n])
    PROVE  Adds(content, more, blocks, n)
<1>1. /\ SplitBlocks(content) \in Seq(BlockSet) /\ SplitBlocks(whole) \in Seq(BlockSet)
      /\ SplitBlocks(more) \in Seq(BlockSet) /\ blocks[n] \in BlockSet
  BY SplitIs
<1>2. PICK c \in Nat, w \in Nat, m \in Nat :
        c = BlockCount(content) /\ w = BlockCount(whole) /\ m = BlockCount(more)
  BY <1>1 DEF BlockCount
<1>3. w <= c + (n - 1)
  BY <1>2 DEF Adds
<1>4. CASE m = w
  <2>1. m <= c + n /\ m # c + n
    BY <1>3, <1>4
  <2> QED
    BY <1>2, <2>1 DEF Adds
<1>5. CASE SplitBlocks(more) = Append(SplitBlocks(whole), blocks[n])
  <2>1. /\ m = w + 1 /\ \A i \in 1 .. w : SplitBlocks(more)[i] = SplitBlocks(whole)[i]
        /\ SplitBlocks(more)[w + 1] = blocks[n]
    BY <1>1, <1>2, <1>5, AppendProperties DEF BlockCount
  <2>2. ASSUME m = c + n
        PROVE  /\ \A i \in 1 .. c : SplitBlocks(more)[i] = SplitBlocks(content)[i]
               /\ \A i \in 1 .. n : SplitBlocks(more)[c + i] = blocks[i]
    <3>0. n \in Nat /\ c \in Nat /\ w \in Nat /\ m = w + 1
      <4>1. m = w + 1
        BY <2>1
      <4> QED
        BY <4>1
    <3>1. w = c + (n - 1) /\ w + 1 = c + n
      BY <2>2, <3>0
    <3>2. /\ \A i \in 1 .. c : SplitBlocks(whole)[i] = SplitBlocks(content)[i]
          /\ \A i \in 1 .. n - 1 : SplitBlocks(whole)[c + i] = blocks[i]
      BY <1>2, <3>1 DEF Adds
    <3>3. \A i \in 1 .. c : i \in 1 .. w
      BY <3>0, <3>1
    <3>4. ASSUME NEW i \in 1 .. n
          PROVE  SplitBlocks(more)[c + i] = blocks[i]
      <4>1. CASE i = n
        BY <2>1, <3>1, <4>1
      <4>2. CASE i # n
        <5>1. i \in 1 .. n - 1 /\ c + i \in 1 .. w
          BY <3>1, <4>2
        <5> QED
          BY <2>1, <3>2, <5>1
      <4> QED
        BY <4>1, <4>2
    <3> QED
      BY <2>1, <3>2, <3>3, <3>4
  <2>3. m <= c + n
    BY <1>3, <2>1
  <2> QED
    BY <1>2, <2>2, <2>3 DEF Adds
<1> QED
  BY <1>2, <1>4, <1>5

(* Blocks joined to a content are the blocks found behind the ones it has, *)
(* or fewer are found, as where top-level text runs into the text before   *)
(* it: a block count that is the expected one says what the blocks are     *)
(* (join_blocks and split_blocks, blocks.py).                              *)
THEOREM JoinedBlocksHold ==
    ASSUME NEW content \in Seq(AnyToken), NEW blocks, Formed(blocks),
           \/ Final(content) = 0
           \/ \A n \in 1 .. Len(blocks) : Wraps(blocks[n].html)
    PROVE  LET whole == Glue(content, JoinBlocks(Html(blocks)))
           IN /\ whole \in Seq(AnyToken)
              /\ BlockCount(whole) <= BlockCount(content) + Len(blocks)
              /\ BlockCount(whole) = BlockCount(content) + Len(blocks) =>
                   SplitBlocks(whole) = SplitBlocks(content) \o blocks
<1>0. blocks \in Seq(BlockSet)
  BY DEF Formed
<1>1. PICK parts \in Seq(Seq(AnyToken)) :
        /\ parts = Html(blocks) /\ Len(parts) = Len(blocks)
        /\ \A n \in 1 .. Len(blocks) :
             /\ parts[n] = blocks[n].html /\ parts[n] \in Seq(AnyToken)
             /\ blocks[n] = [tag |-> blocks[n].tag, html |-> blocks[n].html]
  BY <1>0, HtmlIs
<1>2. PICK N \in Nat : N = Len(blocks)
  BY <1>0
<1>3. \A n \in 0 .. N : Joined(parts)[n] \in Seq(AnyToken)
  BY <1>1, <1>2, JoinsAll
<1> DEFINE J(n) == Glue(content, Joined(parts)[n])
           Closed(n) == \A m \in 1 .. n : Final(blocks[m].html) = 0
           T == {n \in Nat : n <= N =>
                   /\ J(n) \in Seq(AnyToken) /\ Adds(content, J(n), blocks, n)
                   /\ Final(content) = 0 /\ Closed(n) => Final(J(n)) = 0}
<1>4. 0 \in T
  <2>1. J(0) = content
    BY JoinsAll, GlueNothing
  <2>2. BlockCount(content) \in Nat
    BY SplitIs DEF BlockCount
  <2>3. Adds(content, content, blocks, 0)
    BY <2>2 DEF Adds
  <2> QED
    BY <2>1, <2>3
<1>5. ASSUME NEW n \in Nat, n \in T
      PROVE  n + 1 \in T
  <2> SUFFICES ASSUME n + 1 <= N
               PROVE  /\ J(n + 1) \in Seq(AnyToken) /\ Adds(content, J(n + 1), blocks, n + 1)
                      /\ Final(content) = 0 /\ Closed(n + 1) => Final(J(n + 1)) = 0
    OBVIOUS
  <2>0. PICK k \in 1 .. N : k = n + 1 /\ k - 1 = n
    BY <1>2, <1>5
  <2>1. PICK whole \in Seq(AnyToken) :
          /\ whole = J(n) /\ Adds(content, whole, blocks, n)
          /\ Final(content) = 0 /\ Closed(n) => Final(whole) = 0
    <3>1. n <= N
      BY <2>0
    <3> QED
      BY <1>5, <3>1
  <2>2. PICK html \in Seq(AnyToken) :
          /\ html = parts[k] /\ html = blocks[k].html /\ OneBlock(html)
          /\ blocks[k] = [tag |-> TagOf(html[1]), html |-> html]
          /\ Wraps(html) \/ Closed(n)
    <3>1. k \in 1 .. Len(blocks)
      BY <1>2, <2>0
    <3>2. /\ OneBlock(blocks[k].html) /\ blocks[k].tag = TagOf(blocks[k].html[1])
          /\ Wraps(blocks[k].html) \/ \A m \in 1 .. k - 1 : Final(blocks[m].html) = 0
      BY <3>1 DEF Formed
    <3> QED
      BY <1>1, <2>0, <3>1, <3>2
  <2>3. J(k) = Glue(whole, html)
    <3>1. k \in 1 .. Len(parts) /\ n \in 0 .. N
      BY <1>1, <1>2, <2>0
    <3>2. Joined(parts)[k] = Glue(Joined(parts)[k - 1], parts[k])
      BY <3>1, JoinsAll
    <3>3. Glue(Glue(content, Joined(parts)[n]), html) = Glue(content, Glue(Joined(parts)[n], html))
      BY <1>3, <2>2, <3>1, GlueAssociative
    <3> QED
      BY <2>0, <2>1, <2>2, <3>2, <3>3
  <2>4. Final(whole) = 0 \/ Wraps(html)
    <3>1. Final(content) = 0 \/ Wraps(html)
      <4>1. k \in 1 .. Len(blocks)
        BY <1>2, <2>0
      <4> QED
        BY <2>2, <4>1
    <3> QED
      BY <2>1, <2>2, <3>1
  <2>5. /\ \/ BlockCount(Glue(whole, html)) = BlockCount(whole)
           \/ SplitBlocks(Glue(whole, html)) =
                Append(SplitBlocks(whole), [tag |-> TagOf(html[1]), html |-> html])
        /\ Final(whole) = 0 /\ Final(html) = 0 => Final(Glue(whole, html)) = 0
    BY <2>2, <2>4, GlueOne
  <2>6. Glue(whole, html) \in Seq(AnyToken)
    BY <2>1, <2>2, GlueIs
  <2>7. Adds(content, Glue(whole, html), blocks, k)
    <3>1. PICK more \in Seq(AnyToken) : more = Glue(whole, html)
      BY <2>6
    <3>2. k \in 1 .. Len(blocks)
      BY <1>2, <2>0
    <3>3. \/ BlockCount(more) = BlockCount(whole)
          \/ SplitBlocks(more) = Append(SplitBlocks(whole), blocks[k])
      BY <2>2, <2>5, <3>1
    <3>4. Adds(content, whole, blocks, k - 1)
      BY <2>0, <2>1
    <3>5. Adds(content, more, blocks, k)
      BY <1>0, <2>1, <3>1, <3>2, <3>3, <3>4, AddsOne
    <3> QED
      BY <3>1, <3>5
  <2>8. ASSUME Final(content) = 0, Closed(k)
        PROVE  Final(Glue(whole, html)) = 0
    <3>1. Closed(n) /\ k \in 1 .. k
      <4>1. \A m \in 1 .. n : m \in 1 .. k
        BY <2>0
      <4> QED
        BY <2>0, <2>8, <4>1
    <3>2. Final(html) = 0
      BY <2>2, <2>8, <3>1
    <3> QED
      BY <2>1, <2>5, <2>8, <3>1, <3>2
  <2> HIDE DEF J, Closed
  <2>9. J(k) \in Seq(AnyToken) /\ Adds(content, J(k), blocks, k)
        /\ (Final(content) = 0 /\ Closed(k) => Final(J(k)) = 0)
    BY <2>3, <2>6, <2>7, <2>8
  <2> QED
    BY <2>0, <2>9
<1>6. Nat \subseteq T
  <2> HIDE DEF T
  <2> QED
    BY <1>4, <1>5, Induction
<1>7. PICK whole \in Seq(AnyToken) :
        whole = Glue(content, JoinBlocks(Html(blocks))) /\ Adds(content, whole, blocks, N)
  <2>1. J(N) \in Seq(AnyToken) /\ Adds(content, J(N), blocks, N)
    <3>1. N \in T /\ N <= N
      BY <1>2, <1>6
    <3> HIDE DEF J
    <3> QED
      BY <3>1
  <2>2. JoinBlocks(parts) = Joined(parts)[N]
    BY <1>1, <1>2, JoinsAll
  <2> QED
    BY <1>1, <2>1, <2>2
<1>8. SplitBlocks(content) \in Seq(BlockSet) /\ SplitBlocks(whole) \in Seq(BlockSet)
  BY <1>7, SplitIs
<1>9. ASSUME BlockCount(whole) = BlockCount(content) + N
      PROVE  SplitBlocks(whole) = SplitBlocks(content) \o blocks
  <2>1. PICK c \in Nat : c = BlockCount(content) /\ c = Len(SplitBlocks(content))
    BY <1>8 DEF BlockCount
  <2>2. /\ \A i \in 1 .. c : SplitBlocks(whole)[i] = SplitBlocks(content)[i]
        /\ \A i \in 1 .. N : SplitBlocks(whole)[c + i] = blocks[i]
        /\ Len(SplitBlocks(whole)) = c + N
    BY <1>7, <1>9, <2>1 DEF Adds, BlockCount
  <2>3. /\ SplitBlocks(content) \o blocks \in Seq(BlockSet)
        /\ Len(SplitBlocks(content) \o blocks) = c + N
        /\ \A i \in 1 .. c + N : (SplitBlocks(content) \o blocks)[i] =
              IF i <= c THEN SplitBlocks(content)[i] ELSE blocks[i - c]
    BY <1>0, <1>2, <1>8, <2>1, ConcatProperties
  <2>4. \A i \in 1 .. c + N : SplitBlocks(whole)[i] = (SplitBlocks(content) \o blocks)[i]
    <3> TAKE i \in 1 .. c + N
    <3>1. CASE i <= c
      <4>1. i \in 1 .. c
        BY <2>1, <3>1
      <4> QED
        BY <2>2, <2>3, <3>1, <4>1
    <3>2. CASE ~(i <= c)
      <4>1. i - c \in 1 .. N /\ c + (i - c) = i
        BY <1>2, <2>1, <3>2
      <4>2. SplitBlocks(whole)[c + (i - c)] = blocks[i - c]
        BY <2>2, <4>1
      <4> QED
        BY <2>3, <3>2, <4>1, <4>2
    <3> QED
      BY <3>1, <3>2
  <2> QED
    BY <1>8, <2>2, <2>3, <2>4, SeqEqual
<1>10. BlockCount(whole) <= BlockCount(content) + Len(blocks)
  BY <1>2, <1>7 DEF Adds
<1> QED
  BY <1>2, <1>7, <1>9, <1>10

(* Whitespace leaves the depth as it is.                                   *)
LEMMA WhitespaceKeeps ==
    ASSUME NEW content \in Seq(AnyToken), NEW a \in 0 .. Len(content), NEW b \in a .. Len(content),
           \A i \in a + 1 .. b : content[i].kind = "ws"
    PROVE  Scanned(content)[b].depth = Scanned(content)[a].depth
<1>0. a \in Nat /\ b \in Nat /\ a <= b /\ b <= Len(content) /\ Len(content) \in Nat
  OBVIOUS
<1> DEFINE T == {i \in Nat : a + i <= b =>
                   Scanned(content)[a + i].depth = Scanned(content)[a].depth}
<1>1. 0 \in T
  <2>1. a + 0 = a
    BY <1>0
  <2> QED
    BY <2>1
<1>2. ASSUME NEW i \in Nat, i \in T
      PROVE  i + 1 \in T
  <2> SUFFICES ASSUME a + (i + 1) <= b
               PROVE  Scanned(content)[a + (i + 1)].depth = Scanned(content)[a].depth
    OBVIOUS
  <2>1. /\ a + (i + 1) \in 1 .. Len(content) /\ a + (i + 1) \in a + 1 .. b
        /\ (a + (i + 1)) - 1 = a + i /\ a + i <= b
    BY <1>0
  <2> PICK c \in 1 .. Len(content) : c = a + (i + 1) /\ c - 1 = a + i
    BY <2>1
  <2>2. Scanned(content)[c].depth = Deeper(Scanned(content)[c - 1].depth, content[c])
    BY StepOf
  <2>3. content[c].kind = "ws"
    BY <2>1
  <2>4. Scanned(content)[a + (i + 1)].depth = Scanned(content)[a + i].depth
    BY <2>2, <2>3 DEF Deeper
  <2> QED
    BY <1>2, <2>1, <2>4
<1>3. Nat \subseteq T
  <2> HIDE DEF T
  <2> QED
    BY <1>1, <1>2, Induction
<1>4. b - a \in T /\ a + (b - a) = b
  <2>1. b - a \in Nat /\ a + (b - a) = b
    BY <1>0
  <2> HIDE DEF T
  <2> QED
    BY <1>3, <2>1
<1> QED
  BY <1>0, <1>4

(* A piece cut out of a content from a place where a block begins: it is   *)
(* scanned alone as it was where it stood.                                 *)
LEMMA CutOut ==
    ASSUME NEW content \in Seq(AnyToken), NEW html \in Seq(AnyToken), NEW o \in Nat,
           html # <<>>, o + Len(html) <= Len(content),
           \A j \in 1 .. Len(html) : content[o + j] = html[j],
           BlockAt(content, o + 1),
           \A j \in 2 .. Len(html) : ~BlockAt(content, o + j)
    PROVE  /\ BlockAt(html, 1) /\ \A j \in 2 .. Len(html) : ~BlockAt(html, j)
           /\ Final(html) = Scanned(content)[o + Len(html)].depth
<1>1. PICK n \in Nat : n = Len(html) /\ 1 <= n /\ o + n <= Len(content)
  OBVIOUS
<1>2. /\ 1 \in 1 .. Len(html) /\ o + 1 \in 1 .. Len(content) /\ (o + 1) - 1 = o
      /\ n \in 1 .. n /\ 1 - 1 = 0 /\ n \in 1 .. Len(html)
  BY <1>1
<1>3. content[o + 1] = html[1]
  BY <1>2
<1>4. /\ Scanned(content)[o].depth = 0
      /\ html[1].kind \in {"open", "void", "close", "text"}
  BY <1>2, <1>3 DEF BlockAt, Begins
<1>5. Scanned(html)[0] = Unread
  BY ScansAll
<1>6. BlockAt(html, 1)
  BY <1>2, <1>4, <1>5 DEF BlockAt, Begins, Unread
<1>7. Agree(content, o + 1, html, 1)
  <2>1. /\ Scanned(content)[o + 1] \in Scans
        /\ Scanned(content)[o + 1].depth = Deeper(Scanned(content)[o].depth, content[o + 1])
        /\ Scanned(content)[o + 1].textOpen <=> content[o + 1].kind \in {"close", "text"}
    <3> PICK i \in 1 .. Len(content) : i = o + 1 /\ i - 1 = o
      BY <1>2
    <3>1. /\ Scanned(content)[i] \in Scans
          /\ Scanned(content)[i].depth = Deeper(Scanned(content)[i - 1].depth, content[i])
          /\ Scanned(content)[i].textOpen <=> content[i].kind \in {"close", "text"}
      BY StepOf
    <3> QED
      BY <3>1
  <2>2. /\ Scanned(html)[1] \in Scans
        /\ Scanned(html)[1].depth = Deeper(Scanned(html)[0].depth, html[1])
        /\ Scanned(html)[1].textOpen <=> html[1].kind \in {"close", "text"}
    <3> PICK one \in 1 .. Len(html) : one = 1 /\ one - 1 = 0
      BY <1>2
    <3>1. BlockAt(html, one)
      BY <1>6
    <3>2. /\ Scanned(html)[one] \in Scans
          /\ Scanned(html)[one].depth = Deeper(Scanned(html)[one - 1].depth, html[one])
          /\ Scanned(html)[one].textOpen <=> html[one].kind \in {"close", "text"}
      BY <3>1, StepOf
    <3> QED
      BY <3>2
  <2>3. Scanned(html)[0].depth = 0
    BY <1>5 DEF Unread
  <2>4. Scanned(content)[o + 1].textOpen \in BOOLEAN /\ Scanned(html)[1].textOpen \in BOOLEAN
    BY <2>1, <2>2 DEF Scans
  <2> QED
    BY <1>3, <1>4, <2>1, <2>2, <2>3, <2>4 DEF Agree
<1>8. /\ \A j \in 1 .. n : Agree(content, o + j, html, j)
      /\ \A j \in 2 .. n : BlockAt(content, o + j) <=> BlockAt(html, j)
  BY <1>1, <1>2, <1>7, ScansOnAlike
<1> QED
  BY <1>1, <1>2, <1>6, <1>8 DEF Agree, Final

(* Places in a piece, and in the content it is cut from.                   *)
LEMMA PieceBounds ==
    ASSUME NEW a \in Nat, NEW e \in Nat, NEW k \in Nat, NEW m \in Nat, NEW o \in Nat,
           NEW N \in Nat, k = e - a + 1, m <= k, 1 <= m, o + 1 = a, e <= N
    PROVE  /\ o + m <= N /\ m # 0 /\ o + m \in 0 .. N /\ e \in o + m .. N
           /\ \A j \in 1 .. m : /\ j \in 1 .. k /\ a + j - 1 = o + j
           /\ \A j \in 2 .. m : o + j \in a + 1 .. e
           /\ \A j \in (o + m) + 1 .. e :
                /\ j - o \in 1 .. k /\ j - o \in m + 1 .. k /\ a + (j - o) - 1 = j
OBVIOUS

(* One block of a content.                                                 *)
LEMMA BlockOf ==
    ASSUME NEW content \in Seq(AnyToken), NEW n \in 1 .. Len(SplitBlocks(content))
    PROVE  /\ OneBlock(SplitBlocks(content)[n].html)
           /\ SplitBlocks(content)[n].tag = TagOf(SplitBlocks(content)[n].html[1])
           /\ n < Len(SplitBlocks(content)) => Final(SplitBlocks(content)[n].html) = 0
<1>0. Len(SplitBlocks(content)) = Len(Cuts(content)) /\ n \in 1 .. Len(Cuts(content))
  BY SplitIs
<1>1. PICK a \in Nat, e \in Nat :
        /\ a = Cuts(content)[n].at /\ e = Ends(content, n)
        /\ 1 <= a /\ a <= e /\ e <= Len(content)
        /\ BlockAt(content, a) /\ Cuts(content)[n].tag = TagOf(content[a])
        /\ \A i \in a + 1 .. e : ~BlockAt(content, i)
  <2>1. /\ Cuts(content)[n].at \in 1 .. Len(content)
        /\ BlockAt(content, Cuts(content)[n].at)
        /\ Cuts(content)[n].tag = TagOf(content[Cuts(content)[n].at])
        /\ Ends(content, n) \in Cuts(content)[n].at .. Len(content)
        /\ \A i \in Cuts(content)[n].at + 1 .. Ends(content, n) : ~BlockAt(content, i)
    BY <1>0, CutOfBlock
  <2>2. PICK a \in Nat : a = Cuts(content)[n].at /\ 1 <= a
    BY <2>1
  <2>3. PICK e \in Nat : e = Ends(content, n) /\ a <= e /\ e <= Len(content)
    BY <2>1, <2>2
  <2> QED
    BY <2>1, <2>2, <2>3
<1>2. PICK k \in Nat : k = e - a + 1 /\ 1 <= k /\ a + k = e + 1
  BY <1>1
<1>3. PICK piece \in Seq(AnyToken) :
        /\ piece = SubSeq(content, a, e) /\ Len(piece) = k
        /\ \A j \in 1 .. k : piece[j] = content[a + j - 1]
  <2>1. a \in Int /\ e \in Int /\ \A i \in a .. e : content[i] \in AnyToken
    BY <1>1
  <2>2. /\ SubSeq(content, a, e) \in Seq(AnyToken)
        /\ Len(SubSeq(content, a, e)) = IF a <= e THEN e - a + 1 ELSE 0
        /\ \A j \in 1 .. e - a + 1 : SubSeq(content, a, e)[j] = content[a + j - 1]
    <3> HIDE DEF AnyToken
    <3> QED
      BY <2>1, SubSeqProperties
  <2> QED
    BY <1>1, <1>2, <2>2
<1>4. PICK m \in 0 .. Len(piece) :
        /\ Stripped(piece) = SubSeq(piece, 1, m)
        /\ \A i \in m + 1 .. Len(piece) : piece[i].kind = "ws"
        /\ m # 0 => piece[m].kind # "ws"
  BY StripsTo
<1>5. piece[1] = content[a] /\ piece[1].kind # "ws"
  <2>1. 1 \in 1 .. k /\ a + 1 - 1 = a
    BY <1>1, <1>2
  <2> QED
    BY <1>1, <1>3, <2>1 DEF BlockAt, Begins
<1>6. m \in Nat /\ 1 <= m /\ m <= k
  <2>1. m \in Nat /\ m <= k /\ (m = 0 => 1 \in m + 1 .. Len(piece))
    BY <1>2, <1>3, <1>4
  <2>2. m # 0
    BY <1>4, <1>5, <2>1
  <2> QED
    BY <2>1, <2>2
<1>7. PICK html \in Seq(AnyToken) :
        /\ html = Stripped(piece) /\ Len(html) = m
        /\ \A j \in 1 .. m : html[j] = piece[j]
  <2>1. 1 \in Int /\ m \in Int /\ m - 1 + 1 = m /\ \A i \in 1 .. m : piece[i] \in AnyToken
    BY <1>3, <1>6
  <2>2. /\ SubSeq(piece, 1, m) \in Seq(AnyToken)
        /\ Len(SubSeq(piece, 1, m)) = IF 1 <= m THEN m - 1 + 1 ELSE 0
        /\ \A j \in 1 .. m - 1 + 1 : SubSeq(piece, 1, m)[j] = piece[1 + j - 1]
    <3> HIDE DEF AnyToken
    <3> QED
      BY <2>1, SubSeqProperties
  <2>3. \A j \in 1 .. m : 1 + j - 1 = j
    BY <1>6
  <2> QED
    BY <1>4, <1>6, <2>1, <2>2, <2>3
<1>8. PICK o \in Nat : o + 1 = a /\ o = a - 1
  <2>1. a \in Nat /\ 1 <= a
    BY <1>1
  <2>2. a - 1 \in Nat /\ (a - 1) + 1 = a
    BY <2>1
  <2> QED
    BY <2>2
<1>16. PICK N \in Nat : N = Len(content) /\ e <= N
  BY <1>1
<1>17. /\ o + m <= N /\ m # 0 /\ o + m \in 0 .. N /\ e \in o + m .. N
       /\ \A j \in 1 .. m : /\ j \in 1 .. k /\ a + j - 1 = o + j
       /\ \A j \in 2 .. m : o + j \in a + 1 .. e
       /\ \A j \in (o + m) + 1 .. e :
            /\ j - o \in 1 .. k /\ j - o \in m + 1 .. k /\ a + (j - o) - 1 = j
  <2>1. k = e - a + 1 /\ m <= k /\ 1 <= m /\ o + 1 = a /\ e <= N
    BY <1>2, <1>6, <1>8, <1>16
  <2>2. a \in Nat /\ e \in Nat /\ k \in Nat /\ m \in Nat /\ o \in Nat /\ N \in Nat
    BY <1>1, <1>2, <1>6, <1>8, <1>16
  <2> QED
    BY <2>1, <2>2, PieceBounds
<1>9. /\ o + m <= Len(content) /\ html # <<>>
      /\ \A j \in 1 .. m : /\ j \in 1 .. k /\ a + j - 1 = o + j
      /\ \A j \in 2 .. m : o + j \in a + 1 .. e
  <2>1. /\ o + m <= Len(content) /\ m # 0
        /\ \A j \in 1 .. m : /\ j \in 1 .. k /\ a + j - 1 = o + j
        /\ \A j \in 2 .. m : o + j \in a + 1 .. e
    BY <1>16, <1>17
  <2>2. html # <<>>
    BY <1>7, <2>1
  <2> QED
    BY <2>1, <2>2
<1>10. ASSUME NEW j \in 1 .. m
       PROVE  content[o + j] = html[j]
  <2>1. j \in 1 .. k /\ a + j - 1 = o + j
    BY <1>9
  <2>2. piece[j] = content[a + j - 1]
    BY <1>3, <2>1
  <2>3. html[j] = piece[j]
    BY <1>7
  <2> QED
    BY <2>1, <2>2, <2>3
<1>11. /\ BlockAt(html, 1) /\ \A j \in 2 .. Len(html) : ~BlockAt(html, j)
       /\ Final(html) = Scanned(content)[o + Len(html)].depth
  <2>1. /\ html # <<>> /\ o + Len(html) <= Len(content) /\ BlockAt(content, o + 1)
        /\ \A j \in 1 .. Len(html) : content[o + j] = html[j]
        /\ \A j \in 2 .. Len(html) : ~BlockAt(content, o + j)
    BY <1>1, <1>7, <1>8, <1>9, <1>10
  <2> QED
    BY <2>1, CutOut
<1>12. SplitBlocks(content)[n] = [tag |-> Cuts(content)[n].tag, html |-> html]
  <2>1. SplitBlocks(content)[n] =
          [tag  |-> Cuts(content)[n].tag,
           html |-> Stripped(SubSeq(content, Cuts(content)[n].at, Ends(content, n)))]
    BY <1>0, SplitIs, Zenon
  <2> QED
    BY <1>1, <1>3, <1>7, <2>1
<1>13. SplitBlocks(content)[n].html = html /\ SplitBlocks(content)[n].tag = TagOf(html[1])
  <2>1. html[1] = content[a]
    <3>1. 1 \in 1 .. m
      BY <1>6
    <3> QED
      BY <1>5, <1>7, <3>1
  <2> QED
    BY <1>1, <1>12, <2>1
<1>14. OneBlock(html)
  <2>1. html[Len(html)] = piece[m] /\ m # 0
    <3>1. m \in 1 .. m /\ m # 0
      BY <1>6
    <3> QED
      BY <1>7, <3>1
  <2> QED
    BY <1>4, <1>7, <1>9, <1>11, <2>1 DEF OneBlock
<1>15. ASSUME n < Len(Cuts(content))
       PROVE  Final(html) = 0
  <2>1. e = Cuts(content)[n + 1].at - 1
    BY <1>1, <1>15 DEF Ends
  <2>2. PICK i \in 1 .. Len(content) : i = Cuts(content)[n + 1].at /\ BlockAt(content, i)
    <3>1. n + 1 \in 1 .. Len(Cuts(content))
      <4>1. Len(Cuts(content)) \in Nat
        BY SplitIs
      <4> QED
        BY <1>15, <4>1
    <3> QED
      BY <3>1, CutOfBlock
  <2>3. Scanned(content)[e].depth = 0
    BY <2>1, <2>2 DEF BlockAt, Begins
  <2>4. ASSUME NEW j \in (o + m) + 1 .. e
        PROVE  content[j].kind = "ws"
    <3>1. /\ j - o \in 1 .. k /\ j - o \in m + 1 .. Len(piece) /\ a + (j - o) - 1 = j
      BY <1>3, <1>17
    <3> QED
      BY <1>3, <1>4, <3>1
  <2>5. o + m \in 0 .. Len(content) /\ e \in o + m .. Len(content)
    BY <1>16, <1>17
  <2>6. Scanned(content)[e].depth = Scanned(content)[o + m].depth
    BY <2>4, <2>5, WhitespaceKeeps
  <2> QED
    BY <1>7, <1>11, <2>3, <2>6
<1> QED
  BY <1>0, <1>13, <1>14, <1>15

(* Splitting finds blocks in a row, whatever the HTML is: each begins at   *)
(* its first token and at no other, and has no whitespace at its end; an   *)
(* element left open is in the last of them only, so that stripping and    *)
(* joining take and put whitespace between elements, never inside one      *)
(* (split_blocks, blocks.py:140-164).                                      *)
THEOREM SplitFormed ==
    ASSUME NEW content \in Seq(AnyToken)
    PROVE  /\ Formed(SplitBlocks(content))
           /\ \A n \in 1 .. Len(SplitBlocks(content)) - 1 :
                Final(SplitBlocks(content)[n].html) = 0
<1>1. SplitBlocks(content) \in Seq(BlockSet)
  BY SplitIs
<1>2. PICK N \in Nat : N = Len(SplitBlocks(content))
  BY <1>1
<1>3. ASSUME NEW m \in 1 .. N - 1
      PROVE  Final(SplitBlocks(content)[m].html) = 0
  <2>1. m \in 1 .. N /\ m < N
    BY <1>2
  <2> QED
    BY <1>2, <2>1, BlockOf
<1>4. ASSUME NEW n \in 1 .. N, NEW m \in 1 .. n - 1
      PROVE  Final(SplitBlocks(content)[m].html) = 0
  <2>1. m \in 1 .. N - 1
    BY <1>2
  <2> QED
    BY <1>3, <2>1
<1>5. Formed(SplitBlocks(content))
  BY <1>1, <1>2, <1>4, BlockOf DEF Formed
<1> QED
  BY <1>2, <1>3, <1>5

-----------------------------------------------------------------------------
(* Parts put in and taken out.                                             *)

(* A sequence cut where two were put together.                             *)
LEMMA Halves ==
    ASSUME NEW S, NEW front \in Seq(S), NEW back \in Seq(S)
    PROVE  /\ SubSeq(front \o back, 1, Len(front)) = front
           /\ SubSeq(front \o back, Len(front) + 1, Len(front \o back)) = back
<1>1. PICK f \in Nat, b \in Nat : f = Len(front) /\ b = Len(back)
  OBVIOUS
<1>2. PICK both \in Seq(S) :
        /\ both = front \o back /\ Len(both) = f + b
        /\ \A i \in 1 .. f + b : both[i] = IF i <= f THEN front[i] ELSE back[i - f]
  <2>1. /\ front \o back \in Seq(S) /\ Len(front \o back) = Len(front) + Len(back)
        /\ \A i \in 1 .. Len(front) + Len(back) :
              (front \o back)[i] = IF i <= Len(front) THEN front[i] ELSE back[i - Len(front)]
    BY ConcatProperties
  <2> QED
    BY <1>1, <2>1
<1>3. SubSeq(both, 1, f) = front
  <2>1. f - 1 + 1 = f /\ \A i \in 1 .. f : /\ i \in 1 .. f + b /\ i <= f /\ 1 + i - 1 = i
                                           /\ i \in 1 .. Len(both)
    BY <1>1, <1>2
  <2>2. 1 \in Int /\ f \in Int /\ \A i \in 1 .. f : both[i] \in S
    BY <1>1, <2>1
  <2>3. /\ SubSeq(both, 1, f) \in Seq(S)
        /\ Len(SubSeq(both, 1, f)) = IF 1 <= f THEN f - 1 + 1 ELSE 0
        /\ \A i \in 1 .. f - 1 + 1 : SubSeq(both, 1, f)[i] = both[1 + i - 1]
    BY <2>2, SubSeqProperties
  <2>4. (IF 1 <= f THEN f - 1 + 1 ELSE 0) = f
    BY <1>1
  <2>5. \A i \in 1 .. f : SubSeq(both, 1, f)[i] = front[i]
    BY <1>2, <2>1, <2>3
  <2> QED
    BY <1>1, <2>3, <2>4, <2>5, SeqEqual
<1>4. SubSeq(both, f + 1, f + b) = back
  <2>1. /\ (f + b) - (f + 1) + 1 = b
        /\ \A i \in 1 .. b : /\ f + i \in 1 .. f + b /\ ~(f + i <= f) /\ (f + 1) + i - 1 = f + i
                             /\ (f + i) - f = i
        /\ \A i \in f + 1 .. f + b : i \in 1 .. f + b
    BY <1>1
  <2>2. f + 1 \in Int /\ f + b \in Int /\ \A i \in f + 1 .. f + b : both[i] \in S
    BY <1>1, <1>2, <2>1
  <2>3. /\ SubSeq(both, f + 1, f + b) \in Seq(S)
        /\ Len(SubSeq(both, f + 1, f + b)) = IF f + 1 <= f + b THEN (f + b) - (f + 1) + 1 ELSE 0
        /\ \A i \in 1 .. (f + b) - (f + 1) + 1 :
             SubSeq(both, f + 1, f + b)[i] = both[(f + 1) + i - 1]
    BY <2>2, SubSeqProperties
  <2>4. (IF f + 1 <= f + b THEN (f + b) - (f + 1) + 1 ELSE 0) = b
    BY <1>1
  <2>5. \A i \in 1 .. b : SubSeq(both, f + 1, f + b)[i] = back[i]
    BY <1>2, <2>1, <2>3
  <2> QED
    BY <1>1, <2>3, <2>4, <2>5, SeqEqual
<1> QED
  BY <1>1, <1>2, <1>3, <1>4

(* Something put in behind the front.                                      *)
LEMMA InsertsBehind ==
    ASSUME NEW S, NEW front \in Seq(S), NEW back \in Seq(S), NEW e \in S
    PROVE  InsertAt(front \o back, Len(front) + 1, e) = front \o (<<e>> \o back)
<1>1. PICK one \in Seq(S) : one = <<e>>
  BY OneAlone
<1>2. (Len(front) + 1) - 1 = Len(front)
  OBVIOUS
<1>3. InsertAt(front \o back, Len(front) + 1, e)
        = (SubSeq(front \o back, 1, Len(front)) \o one)
            \o SubSeq(front \o back, Len(front) + 1, Len(front \o back))
  BY <1>1, <1>2 DEF InsertAt
<1>4. InsertAt(front \o back, Len(front) + 1, e) = (front \o one) \o back
  BY <1>3, Halves
<1>5. (front \o one) \o back = front \o (one \o back)
  BY <1>1, ConcatThree
<1> QED
  BY <1>1, <1>4, <1>5, Zenon

(* What stands behind the front taken out.                                 *)
LEMMA RemovesBehind ==
    ASSUME NEW S, NEW front \in Seq(S), NEW back \in Seq(S), NEW e \in S
    PROVE  RemoveAt(front \o (<<e>> \o back), Len(front) + 1) = front \o back
<1>1. PICK one \in Seq(S) : one = <<e>> /\ Len(one) = 1
  BY OneAlone
<1>2. PICK more \in Seq(S) : more = one \o back
  BY <1>1, ConcatClosed
<1>3. PICK longer \in Seq(S) : longer = front \o one /\ Len(longer) = Len(front) + 1
  <2>1. front \o one \in Seq(S) /\ Len(front \o one) = Len(front) + Len(one)
    BY <1>1, ConcatProperties
  <2> QED
    BY <1>1, <2>1
<1>4. longer \o back = front \o more
  BY <1>1, <1>2, <1>3, ConcatThree
<1>5. SubSeq(front \o more, 1, Len(front)) = front
  BY <1>2, Halves
<1>6. SubSeq(longer \o back, (Len(front) + 1) + 1, Len(longer \o back)) = back
  BY <1>3, Halves
<1>7. (Len(front) + 1) - 1 = Len(front)
  OBVIOUS
<1>8. RemoveAt(front \o more, Len(front) + 1)
        = SubSeq(front \o more, 1, Len(front))
            \o SubSeq(front \o more, (Len(front) + 1) + 1, Len(front \o more))
  BY <1>7 DEF RemoveAt
<1>9. RemoveAt(front \o more, Len(front) + 1) = front \o back
  BY <1>4, <1>5, <1>6, <1>8
<1> QED
  BY <1>1, <1>2, <1>9

(* Something put in one place further behind.                              *)
Around(S, front, e, x, back) ==
    front \in Seq(S) /\ e \in S /\ x \in S /\ back \in Seq(S)

(* Sequences in which one element, or two, stand apart.                    *)
Between(front, e, back) == front \o (<<e>> \o back)

BothBetween(front, e, x, back) == front \o (<<e>> \o (<<x>> \o back))

(* Something put in behind the element.                                    *)
LEMMA InsertsAfter ==
    ASSUME NEW S, NEW front, NEW e, NEW x, NEW back, Around(S, front, e, x, back)
    PROVE  InsertAt(Between(front, e, back), Len(front) + 2, x)
             = BothBetween(front, e, x, back)
<1>0. front \in Seq(S) /\ e \in S /\ x \in S /\ back \in Seq(S)
  BY DEF Around
<1>1. PICK one \in Seq(S) : one = <<e>> /\ Len(one) = 1
  BY <1>0, OneAlone
<1>2. PICK put \in Seq(S) : put = <<x>>
  BY <1>0, OneAlone
<1>3. PICK longer \in Seq(S) : longer = front \o one /\ Len(longer) = Len(front) + 1
  <2>1. front \o one \in Seq(S) /\ Len(front \o one) = Len(front) + Len(one)
    BY <1>0, <1>1, ConcatProperties
  <2> QED
    BY <1>1, <2>1
<1>4. longer \o back = front \o (one \o back)
  BY <1>0, <1>1, <1>3, ConcatThree
<1>5. InsertAt(longer \o back, Len(longer) + 1, x) = longer \o (put \o back)
  BY <1>0, <1>2, <1>3, InsertsBehind
<1>6. PICK rest \in Seq(S) : rest = put \o back
  BY <1>0, <1>2, ConcatClosed
<1>7. longer \o rest = front \o (one \o rest)
  BY <1>0, <1>1, <1>3, <1>6, ConcatThree
<1>8. Len(longer) + 1 = Len(front) + 2
  BY <1>0, <1>3
<1> QED
  BY <1>1, <1>2, <1>4, <1>5, <1>6, <1>7, <1>8 DEF Between, BothBetween

-----------------------------------------------------------------------------
(* The order of the operations.                                            *)

(* An operation, and operations on blocks of their own.                    *)
Op == [action : {"replace", "insert_after"}, index : Int, text : Seq(Seq(Inline))]

Apart(ops) == \A i, j \in DOMAIN ops : ops[i].index = ops[j].index => i = j

(* Sorted from the back, made of operations of S.                          *)
Descends(sorted) ==
    \A i, j \in DOMAIN sorted : i < j => sorted[i].index > sorted[j].index

RowOf(sorted, n, S) == sorted \in [1 .. n -> S] /\ Descends(sorted)

(* A row that has one operation more.                                      *)
MadeFrom(more, sorted, new, n) ==
    \A i \in 1 .. n + 1 : more[i] = new \/ \E j \in 1 .. n : more[i] = sorted[j]

(* One operation more has its place in a row sorted from the back.         *)
LEMMA SortsOneMore ==
    ASSUME NEW S, NEW n \in Nat, NEW sorted, RowOf(sorted, n, S), NEW new \in S,
           \A op \in S : op.index \in Int, \A i \in 1 .. n : sorted[i].index # new.index
    PROVE  \E more : RowOf(more, n + 1, S) /\ MadeFrom(more, sorted, new, n)
<1>0. sorted \in [1 .. n -> S] /\ Descends(sorted)
  BY DEF RowOf
<1> DEFINE Above == {i \in 1 .. n : sorted[i].index > new.index}
<1>1. PICK p \in 0 .. n :
        /\ \A i \in 1 .. p : sorted[i].index > new.index
        /\ \A i \in p + 1 .. n : sorted[i].index < new.index
  <2>1. CASE Above = {}
    <3>1. \A i \in 0 + 1 .. n : sorted[i].index < new.index
      <4> TAKE i \in 0 + 1 .. n
      <4>1. i \in 1 .. n /\ ~(sorted[i].index > new.index)
        BY <2>1
      <4>2. sorted[i].index \in Int /\ new.index \in Int /\ sorted[i].index # new.index
        BY <1>0, <4>1
      <4> QED
        BY <4>1, <4>2
    <3>2. 0 \in 0 .. n /\ \A i \in 1 .. 0 : sorted[i].index > new.index
      OBVIOUS
    <3> QED
      BY <3>1, <3>2
  <2>2. CASE Above # {}
    <3>1. Above \subseteq Nat /\ \A i \in Above : i <= n
      OBVIOUS
    <3>2. PICK p \in Above : \A i \in Above : i <= p
      <4> HIDE DEF Above
      <4> QED
        BY <2>2, <3>1, MaxOfBounded
    <3>3. p \in 1 .. n /\ sorted[p].index > new.index /\ p \in 0 .. n
      OBVIOUS
    <3>4. ASSUME NEW i \in 1 .. p
          PROVE  sorted[i].index > new.index
      <4>1. i \in 1 .. n /\ (i = p \/ i < p)
        BY <3>3
      <4>2. i < p => sorted[i].index > sorted[p].index
        BY <1>0, <3>3, <4>1 DEF Descends
      <4>3. sorted[i].index \in Int /\ sorted[p].index \in Int /\ new.index \in Int
        BY <1>0, <3>3, <4>1
      <4> QED
        BY <3>3, <4>1, <4>2, <4>3
    <3>5. ASSUME NEW i \in p + 1 .. n
          PROVE  sorted[i].index < new.index
      <4>1. i \in 1 .. n /\ ~(i <= p)
        BY <3>3
      <4>2. ~(sorted[i].index > new.index)
        BY <3>2, <4>1
      <4>3. sorted[i].index \in Int /\ new.index \in Int /\ sorted[i].index # new.index
        BY <1>0, <4>1
      <4> QED
        BY <4>2, <4>3
    <3> QED
      BY <3>3, <3>4, <3>5
  <2> QED
    BY <2>1, <2>2
<1> HIDE DEF Above
<1>2. p \in Nat /\ p <= n
  BY <1>1
<1> DEFINE more == [i \in 1 .. n + 1 |-> IF i <= p THEN sorted[i]
                                         ELSE IF i = p + 1 THEN new ELSE sorted[i - 1]]
<1>3. ASSUME NEW i \in 1 .. n + 1
      PROVE  /\ i <= p => i \in 1 .. n /\ more[i] = sorted[i]
             /\ i = p + 1 => more[i] = new
             /\ i > p + 1 => i - 1 \in p + 1 .. n /\ i - 1 \in 1 .. n /\ more[i] = sorted[i - 1]
             /\ i <= p \/ i = p + 1 \/ i > p + 1
  BY <1>2
<1>4. more \in [1 .. n + 1 -> S]
  <2>1. ASSUME NEW i \in 1 .. n + 1
        PROVE  more[i] \in S
    BY <1>0, <1>3
  <2>2. DOMAIN more = 1 .. n + 1 /\ more = [i \in 1 .. n + 1 |-> more[i]]
    OBVIOUS
  <2> HIDE DEF more
  <2> QED
    BY <2>1, <2>2
<1> HIDE DEF more
<1>5. ASSUME NEW i \in 1 .. n + 1, NEW j \in 1 .. n + 1, i < j
      PROVE  more[i].index > more[j].index
  <2>0. new.index \in Int /\ \A k \in 1 .. n : sorted[k].index \in Int
    BY <1>0
  <2>1. CASE j <= p
    <3>1. i \in 1 .. n /\ j \in 1 .. n /\ i <= p
      BY <1>2, <1>5, <2>1
    <3> QED
      BY <1>0, <1>3, <1>5, <2>1, <3>1 DEF Descends
  <2>2. CASE j = p + 1
    <3>1. i <= p /\ i \in 1 .. p
      BY <1>2, <1>5, <2>2
    <3> QED
      BY <1>1, <1>3, <2>2, <3>1
  <2>3. CASE j > p + 1
    <3>1. j - 1 \in p + 1 .. n /\ j - 1 \in 1 .. n /\ more[j] = sorted[j - 1]
      BY <1>3, <2>3
    <3>2. CASE i <= p
      <4>1. i \in 1 .. n /\ i \in 1 .. p /\ i < j - 1 /\ more[i] = sorted[i]
        BY <1>2, <1>3, <2>3, <3>2
      <4> QED
        BY <1>0, <3>1, <4>1 DEF Descends
    <3>3. CASE i = p + 1
      <4>1. more[i] = new /\ sorted[j - 1].index < new.index
        BY <1>1, <1>3, <3>1, <3>3
      <4> QED
        BY <2>0, <3>1, <4>1
    <3>4. CASE i > p + 1
      <4>1. i - 1 \in 1 .. n /\ i - 1 < j - 1 /\ more[i] = sorted[i - 1]
        BY <1>3, <1>5, <3>4
      <4> QED
        BY <1>0, <3>1, <4>1 DEF Descends
    <3> QED
      BY <1>3, <3>2, <3>3, <3>4
  <2> QED
    BY <1>3, <2>1, <2>2, <2>3
<1>6. Descends(more)
  BY <1>4, <1>5 DEF Descends
<1>7. \A i \in 1 .. n + 1 : more[i] = new \/ \E j \in 1 .. n : more[i] = sorted[j]
  BY <1>3
<1> QED
  BY <1>4, <1>6, <1>7 DEF RowOf, MadeFrom

(* So any operations on different places can be sorted.                    *)
LEMMA Sorts ==
    ASSUME NEW ops \in Seq(Op), Apart(ops)
    PROVE  \E sorted \in [DOMAIN ops -> ToSet(ops)] : Descends(sorted)
<1>1. PICK N \in Nat : N = Len(ops) /\ DOMAIN ops = 1 .. N
  OBVIOUS
<1>2. /\ ToSet(ops) = {ops[i] : i \in 1 .. N}
      /\ \A op \in ToSet(ops) : op.index \in Int
      /\ \A i \in 1 .. N : ops[i] \in ToSet(ops)
  <2>1. ToSet(ops) = {ops[i] : i \in 1 .. N}
    BY <1>1 DEF ToSet
  <2>2. \A i \in 1 .. N : ops[i].index \in Int
    <3> TAKE i \in 1 .. N
    <3>1. ops[i] \in Op
      BY <1>1
    <3> QED
      BY <3>1 DEF Op
  <2> QED
    BY <2>1, <2>2
<1> DEFINE S == ToSet(ops)
<1> HIDE DEF S
<1> DEFINE Row(n) == \E sorted \in [1 .. n -> S] :
                        /\ Descends(sorted)
                        /\ \A i \in 1 .. n : \E j \in 1 .. n : sorted[i] = ops[j]
           T == {n \in Nat : n <= N => Row(n)}
<1>3. 0 \in T
  <2>1. PICK none \in [1 .. 0 -> S] : Descends(none)
    <3>1. [i \in 1 .. 0 |-> 0] \in [1 .. 0 -> S] /\ DOMAIN [i \in 1 .. 0 |-> 0] = 1 .. 0
      OBVIOUS
    <3>2. \A i \in 1 .. 0 : FALSE
      OBVIOUS
    <3> QED
      BY <3>1, <3>2 DEF Descends
  <2>2. Row(0)
    <3>1. \A i \in 1 .. 0 : \E j \in 1 .. 0 : none[i] = ops[j]
      OBVIOUS
    <3> QED
      BY <2>1, <3>1
  <2> HIDE DEF Row
  <2> QED
    BY <2>2
<1>4. ASSUME NEW n \in Nat, n \in T
      PROVE  n + 1 \in T
  <2> SUFFICES ASSUME n + 1 <= N PROVE Row(n + 1)
    <3> HIDE DEF Row
    <3> QED
      OBVIOUS
  <2>1. n <= N /\ n + 1 \in 1 .. N /\ \A j \in 1 .. n : j \in 1 .. N /\ j \in 1 .. n + 1 /\ j # n + 1
    BY <1>1
  <2>2. n + 1 \in 1 .. n + 1
    OBVIOUS
  <2>3. PICK sorted \in [1 .. n -> S] :
          /\ Descends(sorted)
          /\ \A i \in 1 .. n : \E j \in 1 .. n : sorted[i] = ops[j]
    <3>1. Row(n)
      <4> HIDE DEF Row
      <4> QED
        BY <1>4, <2>1
    <3> QED
      BY <3>1
  <2>4. \A i \in 1 .. n : sorted[i].index # ops[n + 1].index
    BY <1>1, <2>1, <2>3 DEF Apart
  <2>5. ops[n + 1] \in S
    BY <1>2, <2>1 DEF S
  <2>6. \A op \in S : op.index \in Int
    BY <1>2 DEF S
  <2>7. PICK more \in [1 .. n + 1 -> S] :
          /\ Descends(more)
          /\ \A i \in 1 .. n + 1 :
               more[i] = ops[n + 1] \/ \E j \in 1 .. n : more[i] = sorted[j]
    <3>1. PICK new \in S : new = ops[n + 1]
      BY <2>5
    <3>2. \A i \in 1 .. n : sorted[i].index # new.index
      BY <2>4, <3>1
    <3>3. sorted \in [1 .. n -> S] /\ Descends(sorted)
      BY <2>3
    <3>4. RowOf(sorted, n, S)
      BY <3>3 DEF RowOf
    <3>5. \E more : RowOf(more, n + 1, S) /\ MadeFrom(more, sorted, new, n)
      BY <1>4, <2>6, <3>1, <3>2, <3>4, SortsOneMore
    <3> QED
      BY <3>1, <3>5 DEF RowOf, MadeFrom
  <2>8. \A i \in 1 .. n + 1 : \E j \in 1 .. n + 1 : more[i] = ops[j]
    BY <2>1, <2>2, <2>3, <2>7
  <2> QED
    BY <2>7, <2>8
<1>5. Nat \subseteq T
  <2> HIDE DEF T
  <2> QED
    BY <1>3, <1>4, Induction
<1>6. Row(N)
  <2> HIDE DEF Row
  <2> QED
    BY <1>1, <1>5
<1> QED
  BY <1>1, <1>6 DEF S

(* From the back: every operation once, those that address later blocks    *)
(* first.                                                                  *)
LEMMA FromTheBackIs ==
    ASSUME NEW ops \in Seq(Op), Apart(ops)
    PROVE  /\ FromTheBack(ops) \in [1 .. Len(ops) -> ToSet(ops)]
           /\ \A i, j \in 1 .. Len(ops) :
                 i < j => FromTheBack(ops)[i].index > FromTheBack(ops)[j].index
           /\ \A op \in ToSet(ops) : \E i \in 1 .. Len(ops) : FromTheBack(ops)[i] = op
<1>1. PICK N \in Nat : N = Len(ops) /\ DOMAIN ops = 1 .. N
  OBVIOUS
<1> DEFINE S == ToSet(ops)
           order == FromTheBack(ops)
<1>2. order \in [1 .. N -> S] /\ \A i, j \in 1 .. N : i < j => order[i].index > order[j].index
  <2>1. \E sorted \in [DOMAIN ops -> ToSet(ops)] :
           \A i, j \in DOMAIN ops : i < j => sorted[i].index > sorted[j].index
    BY Sorts DEF Descends
  <2> QED
    BY <1>1, <2>1 DEF FromTheBack
<1>3. S = {ops[i] : i \in 1 .. N} /\ \A op \in S : op.index \in Int
  <2>1. ToSet(ops) = {ops[i] : i \in 1 .. N}
    BY <1>1 DEF ToSet
  <2>2. \A i \in 1 .. N : ops[i].index \in Int
    <3> TAKE i \in 1 .. N
    <3>1. ops[i] \in Op
      BY <1>1
    <3> QED
      BY <3>1 DEF Op
  <2> QED
    BY <2>1, <2>2
<1>4. IsFiniteSet(1 .. N)
  BY <1>1, FS_Interval
<1>5. ops \in Surjection(1 .. N, S) /\ ops \in Injection(1 .. N, S)
  <2>1. ops \in [1 .. N -> S]
    BY <1>1, <1>3
  <2> HIDE DEF S
  <2>2. \A op \in S : \E i \in 1 .. N : ops[i] = op
    BY <1>3
  <2>3. \A i, j \in 1 .. N : ops[i] = ops[j] => i = j
    BY <1>1 DEF Apart
  <2> QED
    BY <2>1, <2>2, <2>3 DEF Surjection, Injection, IsInjective
<1> HIDE DEF S, order
<1>6. IsFiniteSet(S) /\ Cardinality(S) = Cardinality(1 .. N)
  BY <1>4, <1>5, FS_Surjection
<1>7. order \in Injection(1 .. N, S)
  <2>1. ASSUME NEW i \in 1 .. N, NEW j \in 1 .. N, order[i] = order[j]
        PROVE  i = j
    <3>1. order[i].index \in Int /\ order[j].index \in Int /\ order[i].index = order[j].index
      BY <1>2, <1>3, <2>1
    <3>2. ~(i < j) /\ ~(j < i)
      BY <1>2, <3>1
    <3> QED
      BY <3>2
  <2> QED
    BY <1>2, <2>1 DEF Injection, IsInjective
<1>8. order \in Surjection(1 .. N, S)
  BY <1>6, <1>7, FS_Injection
<1> QED
  BY <1>1, <1>2, <1>8 DEF Surjection, S, order

-----------------------------------------------------------------------------
(* What operations mean.                                                   *)

(* Blocks the tools write: elements around text.                           *)
AllWrap(blocks) ==
    /\ blocks \in Seq(BlockSet)
    /\ \A n \in 1 .. Len(blocks) :
          Wraps(blocks[n].html) /\ blocks[n].tag = TagOf(blocks[n].html[1])

(* Blocks that leave no element open.                                      *)
Closed(blocks) == \A n \in 1 .. Len(blocks) : Final(blocks[n].html) = 0

(* One element of text is such a block.                                    *)
LEMMA WritesElement ==
    ASSUME NEW tag \in Tags, NEW inline \in Seq(Inline)
    PROVE  LET block == [tag |-> tag, html |-> Element(tag, inline)]
           IN /\ block \in BlockSet /\ Wraps(block.html)
              /\ block.tag = TagOf(block.html[1])
<1>1. Wraps(Element(tag, inline)) /\ Element(tag, inline)[1] = Open(tag)
  BY ElementWraps
<1>2. TagOf(Open(tag)) = tag
  BY DEF TagOf, Open
<1>3. Element(tag, inline) \in Seq(AnyToken)
  BY <1>1 DEF Wraps
<1> QED
  BY <1>1, <1>2, <1>3 DEF BlockSet

(* So is every paragraph, and ParagraphHtml joins them.                    *)
LEMMA ParagraphsAre ==
    ASSUME NEW text \in Seq(Seq(Inline))
    PROVE  /\ AllWrap(Paragraphs(text)) /\ Len(Paragraphs(text)) = Len(text)
           /\ ParagraphHtml(text) = JoinBlocks(Html(Paragraphs(text)))
           /\ ParagraphHtml(text) \in Seq(AnyToken)
<1>1. PICK N \in Nat : N = Len(text) /\ DOMAIN text = 1 .. N /\ \A n \in 1 .. N : text[n] \in Seq(Inline)
  OBVIOUS
<1>2. "p" \in Tags
  BY DEF Tags
<1> DEFINE block(n) == [tag |-> "p", html |-> Element("p", text[n])]
<1>3. \A n \in 1 .. N : /\ block(n) \in BlockSet /\ Wraps(block(n).html)
                        /\ block(n).tag = TagOf(block(n).html[1])
  BY <1>1, <1>2, WritesElement
<1>4. Paragraphs(text) = [n \in 1 .. N |-> block(n)]
  BY <1>1 DEF Paragraphs
<1>5. ParagraphHtml(text) = JoinBlocks([n \in 1 .. N |-> block(n).html])
  BY <1>1 DEF ParagraphHtml
<1> HIDE DEF block
<1>6. PICK paragraphs \in Seq(BlockSet) :
        /\ paragraphs = Paragraphs(text) /\ Len(paragraphs) = N /\ DOMAIN paragraphs = 1 .. N
        /\ \A n \in 1 .. N : paragraphs[n] = block(n)
  <2>1. [n \in 1 .. N |-> block(n)] \in Seq(BlockSet)
    BY <1>1, <1>3
  <2>2. /\ Len([n \in 1 .. N |-> block(n)]) = N
        /\ DOMAIN [n \in 1 .. N |-> block(n)] = 1 .. N
        /\ \A i \in 1 .. N : [n \in 1 .. N |-> block(n)][i] = block(i)
    BY <1>1
  <2> QED
    BY <1>4, <2>1, <2>2
<1>7. AllWrap(paragraphs)
  BY <1>3, <1>6 DEF AllWrap
<1>8. Html(paragraphs) = [n \in 1 .. N |-> block(n).html]
  BY <1>6 DEF Html
<1>9. JoinBlocks(Html(paragraphs)) \in Seq(AnyToken)
  <2>1. Html(paragraphs) \in Seq(Seq(AnyToken)) /\ <<>> \in Seq(Seq(AnyToken))
    BY <1>6, HtmlIs, JoinOne, NothingSplits
  <2> QED
    BY <2>1, JoinConcat
<1> QED
  BY <1>1, <1>5, <1>6, <1>7, <1>8, <1>9

(* Joining goes part by part.                                              *)
LEMMA JoinHtml ==
    ASSUME NEW front \in Seq(BlockSet), NEW back \in Seq(BlockSet)
    PROVE  /\ front \o back \in Seq(BlockSet)
           /\ JoinBlocks(Html(front)) \in Seq(AnyToken)
           /\ JoinBlocks(Html(front \o back))
                = Glue(JoinBlocks(Html(front)), JoinBlocks(Html(back)))
<1>1. PICK n \in Nat, m \in Nat : n = Len(front) /\ m = Len(back)
  OBVIOUS
<1>2. PICK all \in Seq(BlockSet) :
        /\ all = front \o back /\ Len(all) = n + m
        /\ \A i \in 1 .. n + m : all[i] = IF i <= n THEN front[i] ELSE back[i - n]
  <2>1. /\ front \o back \in Seq(BlockSet) /\ Len(front \o back) = Len(front) + Len(back)
        /\ \A i \in 1 .. Len(front) + Len(back) :
              (front \o back)[i] = IF i <= Len(front) THEN front[i] ELSE back[i - Len(front)]
    BY ConcatProperties
  <2> QED
    BY <1>1, <2>1
<1>3. /\ Html(front) \in Seq(Seq(AnyToken)) /\ Len(Html(front)) = n
      /\ \A i \in 1 .. n : Html(front)[i] = front[i].html
  BY <1>1, HtmlIs
<1>4. /\ Html(back) \in Seq(Seq(AnyToken)) /\ Len(Html(back)) = m
      /\ \A i \in 1 .. m : Html(back)[i] = back[i].html
  BY <1>1, HtmlIs
<1>5. /\ Html(all) \in Seq(Seq(AnyToken)) /\ Len(Html(all)) = n + m
      /\ \A i \in 1 .. n + m : Html(all)[i] = all[i].html
  BY <1>2, HtmlIs
<1>6. Html(all) = Html(front) \o Html(back)
  <2> DEFINE S == Seq(AnyToken)
  <2>1. Html(front) \in Seq(S) /\ Html(back) \in Seq(S) /\ Html(all) \in Seq(S)
    BY <1>3, <1>4, <1>5
  <2> HIDE DEF S
  <2>2. /\ Html(front) \o Html(back) \in Seq(S)
        /\ Len(Html(front) \o Html(back)) = n + m
        /\ \A i \in 1 .. n + m : (Html(front) \o Html(back))[i] =
              IF i <= n THEN Html(front)[i] ELSE Html(back)[i - n]
    BY <1>3, <1>4, <2>1, ConcatProperties
  <2>3. ASSUME NEW i \in 1 .. n + m
        PROVE  Html(all)[i] = (Html(front) \o Html(back))[i]
    <3>1. CASE i <= n
      <4>1. i \in 1 .. n
        BY <1>1, <3>1
      <4> QED
        BY <1>2, <1>3, <1>5, <2>2, <3>1, <4>1
    <3>2. CASE ~(i <= n)
      <4>1. i - n \in 1 .. m
        BY <1>1, <3>2
      <4> QED
        BY <1>2, <1>4, <1>5, <2>2, <3>2, <4>1
    <3> QED
      BY <3>1, <3>2
  <2> QED
    BY <1>5, <2>1, <2>2, <2>3, SeqEqual
<1> QED
  BY <1>2, <1>3, <1>4, <1>6, JoinConcat

-----------------------------------------------------------------------------

(* No two operations address the same block.                               *)
LEMMA OpsOnce ==
    ASSUME NEW ops \in Seq(Op), Apart(ops)
    PROVE  /\ ToSet(ops) \subseteq Op
           /\ \A op, other \in ToSet(ops) : op.index = other.index => op = other
<1>1. PICK N \in Nat : N = Len(ops) /\ DOMAIN ops = 1 .. N /\ \A i \in 1 .. N : ops[i] \in Op
  OBVIOUS
<1>2. ToSet(ops) = {ops[i] : i \in 1 .. N}
  BY <1>1 DEF ToSet
<1> QED
  BY <1>1, <1>2 DEF Apart

(* What is put in behind a block, by the one operation that may.           *)
LEMMA InsertedIs ==
    ASSUME NEW ops \in Seq(Op), Apart(ops), NEW i \in Int
    PROVE  /\ AllWrap(InsertedBy(ops, i))
           /\ OpsAt(ops, i, "insert_after") = {} => InsertedBy(ops, i) = <<>>
           /\ \A op \in OpsAt(ops, i, "insert_after") : InsertedBy(ops, i) = Paragraphs(op.text)
<1>1. OpsAt(ops, i, "insert_after") \subseteq Op
      /\ \A op, other \in OpsAt(ops, i, "insert_after") : op = other
  BY OpsOnce DEF OpsAt
<1>2. CASE OpsAt(ops, i, "insert_after") = {}
  <2>1. InsertedBy(ops, i) = <<>>
    BY <1>2 DEF InsertedBy
  <2>2. <<>> \in Seq(BlockSet) /\ Len(<<>>) = 0
    OBVIOUS
  <2>3. AllWrap(<<>>)
    BY <2>2 DEF AllWrap
  <2> QED
    BY <1>2, <2>1, <2>3
<1>3. CASE OpsAt(ops, i, "insert_after") # {}
  <2>1. PICK op \in OpsAt(ops, i, "insert_after") :
          op = CHOOSE other \in OpsAt(ops, i, "insert_after") : TRUE
    BY <1>3
  <2>2. InsertedBy(ops, i) = Paragraphs(op.text)
    BY <1>3, <2>1 DEF InsertedBy
  <2>3. op.text \in Seq(Seq(Inline))
    BY <1>1, <2>1 DEF Op
  <2> QED
    BY <1>1, <1>3, <2>1, <2>2, <2>3, ParagraphsAre
<1> QED
  BY <1>2, <1>3

(* What becomes of a block, by the one operation that may change it.       *)
LEMMA KeptIs ==
    ASSUME NEW ops \in Seq(Op), Apart(ops), NEW blocks \in Seq(BlockSet),
           NEW i \in 0 .. Len(blocks) - 1, Applicable(blocks, ops)
    PROVE  /\ KeptBy(ops, blocks, i) \in Seq(BlockSet)
           /\ OpsAt(ops, i, "replace") = {} => KeptBy(ops, blocks, i) = <<blocks[i + 1]>>
           /\ \A op \in OpsAt(ops, i, "replace") :
                /\ AllWrap(KeptBy(ops, blocks, i))
                /\ Deletes(op) => KeptBy(ops, blocks, i) = <<>>
                /\ ~Deletes(op) =>
                     /\ Replacement(op, blocks[i + 1].tag) \in Seq(AnyToken)
                     /\ JoinBlocks(Html(KeptBy(ops, blocks, i)))
                          = Replacement(op, blocks[i + 1].tag)
<1>0. i + 1 \in 1 .. Len(blocks) /\ blocks[i + 1] \in BlockSet
  OBVIOUS
<1>1. OpsAt(ops, i, "replace") \subseteq Op
      /\ \A op, other \in OpsAt(ops, i, "replace") : op = other
  BY OpsOnce DEF OpsAt
<1>2. CASE OpsAt(ops, i, "replace") = {}
  <2>1. KeptBy(ops, blocks, i) = <<blocks[i + 1]>>
    BY <1>2 DEF KeptBy
  <2>2. <<blocks[i + 1]>> \in Seq(BlockSet)
    BY <1>0, OneAlone
  <2> QED
    BY <1>2, <2>1, <2>2
<1>3. CASE OpsAt(ops, i, "replace") # {}
  <2>1. PICK op \in OpsAt(ops, i, "replace") :
          op = CHOOSE other \in OpsAt(ops, i, "replace") : TRUE
    BY <1>3
  <2> PICK tag \in Tags : tag = blocks[i + 1].tag
    BY <1>0 DEF BlockSet
  <2>2. /\ op.text \in Seq(Seq(Inline)) /\ op.action = "replace" /\ op.index = i
        /\ op \in ToSet(ops)
    BY <1>1, <2>1 DEF Op, OpsAt
  <2>3. Deletes(op) <=> op.text = <<>>
    BY <2>2 DEF Deletes
  <2>4. CASE tag \in Headings /\ ~Deletes(op)
    <3>1. KeptBy(ops, blocks, i) = <<[tag |-> tag, html |-> Element(tag, op.text[1])]>>
      BY <1>3, <2>1, <2>4 DEF KeptBy
    <3>2. op.text[1] \in Seq(Inline)
      BY <2>2, <2>3, <2>4
    <3> PICK block \in BlockSet :
          /\ block = [tag |-> tag, html |-> Element(tag, op.text[1])]
          /\ Wraps(block.html) /\ block.tag = TagOf(block.html[1])
      BY <3>2, WritesElement
    <3>3. /\ <<block>> \in Seq(BlockSet) /\ Len(<<block>>) = 1 /\ <<block>>[1] = block
      BY OneAlone
    <3>4. AllWrap(<<block>>)
      <4>1. \A n \in 1 .. 1 : n = 1
        OBVIOUS
      <4> QED
        BY <3>3, <4>1 DEF AllWrap
    <3>5. block.html = Element(tag, op.text[1]) /\ block.html \in Seq(AnyToken)
      BY DEF BlockSet
    <3>6. Html(<<block>>) = <<block.html>>
      <4>1. DOMAIN <<block>> = {1}
        BY <3>3
      <4> QED
        BY <3>3 DEF Html
    <3>7. JoinBlocks(Html(<<block>>)) = block.html
      BY <3>5, <3>6, JoinOne
    <3>8. Replacement(op, tag) = block.html
      BY <2>4, <3>5 DEF Replacement
    <3> QED
      BY <1>1, <1>3, <2>1, <2>4, <3>1, <3>3, <3>4, <3>5, <3>7, <3>8
  <2>5. CASE ~(tag \in Headings /\ ~Deletes(op))
    <3>1. KeptBy(ops, blocks, i) = Paragraphs(op.text)
      BY <1>3, <2>1, <2>5 DEF KeptBy
    <3>2. /\ AllWrap(Paragraphs(op.text)) /\ Len(Paragraphs(op.text)) = Len(op.text)
          /\ ParagraphHtml(op.text) = JoinBlocks(Html(Paragraphs(op.text)))
          /\ ParagraphHtml(op.text) \in Seq(AnyToken)
      BY <2>2, ParagraphsAre
    <3>3. Paragraphs(op.text) \in Seq(BlockSet)
      BY <3>2 DEF AllWrap
    <3>4. Deletes(op) => Paragraphs(op.text) = <<>>
      <4>1. Len(<<>>) = 0
        OBVIOUS
      <4> QED
        BY <2>3, <3>2, <3>3, <4>1
    <3>5. ~Deletes(op) => Replacement(op, tag) = ParagraphHtml(op.text)
      BY <2>5 DEF Replacement
    <3> QED
      BY <1>1, <1>3, <2>1, <3>1, <3>2, <3>3, <3>4, <3>5
  <2> QED
    BY <2>4, <2>5
<1> QED
  BY <1>2, <1>3

-----------------------------------------------------------------------------
(* Blocks in a row stay so.                                                *)

(* Elements around text are blocks in a row.                               *)
LEMMA WrapsFormed ==
    ASSUME NEW blocks, AllWrap(blocks)
    PROVE  Formed(blocks) /\ Closed(blocks) /\ blocks \in Seq(BlockSet)
BY WrapsOne DEF AllWrap, Formed, Closed

(* Two rows make one, where the first is closed or the second wraps.       *)
LEMMA FormedConcat ==
    ASSUME NEW front, Formed(front), NEW back, Formed(back), Closed(front) \/ AllWrap(back)
    PROVE  /\ Formed(front \o back)
           /\ Closed(front) /\ Closed(back) => Closed(front \o back)
<1>0. front \in Seq(BlockSet) /\ back \in Seq(BlockSet)
  BY DEF Formed
<1>1. PICK n \in Nat, m \in Nat : n = Len(front) /\ m = Len(back)
  BY <1>0
<1>2. PICK all \in Seq(BlockSet) :
        /\ all = front \o back /\ Len(all) = n + m
        /\ \A i \in 1 .. n + m : all[i] = IF i <= n THEN front[i] ELSE back[i - n]
  <2>1. /\ front \o back \in Seq(BlockSet) /\ Len(front \o back) = Len(front) + Len(back)
        /\ \A i \in 1 .. Len(front) + Len(back) :
              (front \o back)[i] = IF i <= Len(front) THEN front[i] ELSE back[i - Len(front)]
    BY <1>0, ConcatProperties
  <2> QED
    BY <1>1, <2>1
<1>3. ASSUME NEW i \in 1 .. n + m
      PROVE  \/ i \in 1 .. n /\ all[i] = front[i]
             \/ i - n \in 1 .. m /\ ~(i <= n) /\ all[i] = back[i - n]
  BY <1>1, <1>2
<1>4. Closed(front) /\ Closed(back) => Closed(all)
  BY <1>1, <1>2, <1>3 DEF Closed
<1>5. ASSUME NEW i \in 1 .. n + m
      PROVE  /\ OneBlock(all[i].html) /\ all[i].tag = TagOf(all[i].html[1])
             /\ Wraps(all[i].html) \/ \A j \in 1 .. i - 1 : Final(all[j].html) = 0
  <2>1. CASE i \in 1 .. n /\ all[i] = front[i]
    <3>1. \A j \in 1 .. i - 1 : j \in 1 .. n + m /\ j <= n
      BY <1>1, <2>1
    <3>2. \A j \in 1 .. i - 1 : all[j] = front[j]
      BY <1>2, <3>1
    <3> QED
      BY <1>1, <2>1, <3>2 DEF Formed
  <2>2. CASE i - n \in 1 .. m /\ ~(i <= n) /\ all[i] = back[i - n]
    <3> PICK k \in 1 .. m : k = i - n
      BY <2>2
    <3>1. /\ OneBlock(back[k].html) /\ back[k].tag = TagOf(back[k].html[1])
          /\ Wraps(back[k].html) \/ \A j \in 1 .. k - 1 : Final(back[j].html) = 0
      BY <1>1 DEF Formed
    <3>2. CASE Wraps(back[k].html)
      BY <2>2, <3>1, <3>2
    <3>3. CASE ~Wraps(back[k].html)
      <4>1. Closed(front)
        BY <1>1, <3>3 DEF AllWrap
      <4>2. ASSUME NEW j \in 1 .. i - 1
            PROVE  Final(all[j].html) = 0
        <5>1. j \in 1 .. n + m /\ (j - n \in 1 .. m /\ ~(j <= n) => j - n \in 1 .. k - 1)
          BY <1>1, <2>2
        <5> QED
          BY <1>1, <1>3, <3>1, <3>3, <4>1, <5>1 DEF Closed
      <4> QED
        BY <2>2, <3>1, <4>2
    <3> QED
      BY <3>2, <3>3
  <2> QED
    BY <1>3, <2>1, <2>2
<1> QED
  BY <1>2, <1>4, <1>5 DEF Formed

(* One block of a row.                                                     *)
LEMMA FormedOne ==
    ASSUME NEW blocks, Formed(blocks), NEW n \in 1 .. Len(blocks)
    PROVE  /\ Formed(<<blocks[n]>>)
           /\ Closed(<<blocks[n]>>) <=> Final(blocks[n].html) = 0
           /\ Wraps(blocks[n].html) => AllWrap(<<blocks[n]>>)
<1>1. blocks \in Seq(BlockSet) /\ OneBlock(blocks[n].html)
      /\ blocks[n].tag = TagOf(blocks[n].html[1])
  BY DEF Formed
<1> PICK block \in BlockSet : block = blocks[n]
  BY <1>1
<1>2. <<block>> \in Seq(BlockSet) /\ Len(<<block>>) = 1 /\ <<block>>[1] = block
  BY OneAlone
<1>3. (\A k \in 1 .. 1 : k = 1) /\ 1 \in 1 .. 1 /\ (\A m \in 1 .. 1 - 1 : FALSE)
  OBVIOUS
<1> QED
  BY <1>1, <1>2, <1>3 DEF Formed, Closed, AllWrap

(* What is meant of the blocks up to each.                                 *)
Meant(ops, blocks) ==
    LET Upto[n \in 0 .. Len(blocks)] ==
          IF n = 0 THEN InsertedBy(ops, -1)
          ELSE (Upto[n - 1] \o KeptBy(ops, blocks, n - 1)) \o InsertedBy(ops, n - 1)
    IN Upto

(* It is what MeantBy goes through.                                        *)
LEMMA MeantAll ==
    ASSUME NEW ops \in Seq(Op), Apart(ops), NEW blocks \in Seq(BlockSet), Applicable(blocks, ops)
    PROVE  /\ Meant(ops, blocks) \in [0 .. Len(blocks) -> Seq(BlockSet)]
           /\ Meant(ops, blocks)[0] = InsertedBy(ops, -1)
           /\ \A n \in 1 .. Len(blocks) :
                Meant(ops, blocks)[n] =
                  (Meant(ops, blocks)[n - 1] \o KeptBy(ops, blocks, n - 1))
                    \o InsertedBy(ops, n - 1)
           /\ MeantBy(ops, blocks) = Meant(ops, blocks)[Len(blocks)]
<1> DEFINE S == Seq(BlockSet)
           N == Len(blocks)
           kept(n) == KeptBy(ops, blocks, n - 1)
           put(n) == InsertedBy(ops, n - 1)
           first == InsertedBy(ops, -1)
           goesOn(s, n) == (s \o kept(n)) \o put(n)
           step == [x \in (1 .. N) \X S |-> goesOn(x[2], x[1])]
           Body(f) == [n \in 0 .. N |-> IF n = 0 THEN first ELSE goesOn(f[n - 1], n)]
           Upto == CHOOSE f : f = Body(f)
<1>1. N \in Nat /\ \A n \in 1 .. N : kept(n) \in S /\ put(n) \in S
  <2>1. N \in Nat
    OBVIOUS
  <2>2. ASSUME NEW n \in 1 .. N
        PROVE  kept(n) \in S /\ put(n) \in S
    <3>1. n - 1 \in 0 .. Len(blocks) - 1 /\ n - 1 \in Int
      BY <2>1
    <3>2. AllWrap(put(n))
      BY <3>1, InsertedIs
    <3> QED
      BY <3>1, <3>2, KeptIs DEF AllWrap
  <2> QED
    BY <2>1, <2>2
<1>2. first \in S
  <2>1. -1 \in Int
    OBVIOUS
  <2> QED
    BY <2>1, InsertedIs DEF AllWrap
<1> HIDE DEF kept, put, first
<1>3. \A n \in 1 .. N, s \in S : goesOn(s, n) \in S
  <2> TAKE n \in 1 .. N, s \in S
  <2>1. s \o kept(n) \in S
    BY <1>1, ConcatClosed
  <2> QED
    BY <1>1, <2>1, ConcatClosed
<1> HIDE DEF goesOn
<1>4. step \in [(1 .. N) \X S -> S]
  <2>1. ASSUME NEW x \in (1 .. N) \X S
        PROVE  goesOn(x[2], x[1]) \in S
    <3>1. x[1] \in 1 .. N /\ x[2] \in S
      OBVIOUS
    <3> HIDE DEF S
    <3> QED
      BY <1>3, <3>1
  <2> QED
    BY <2>1
<1>5. PICK F : RunsUpTo(F, N, S, first, step)
  <2> HIDE DEF step, N, S
  <2> QED
    BY <1>1, <1>2, <1>4, RecursionUpTo
<1>6. \A n \in 1 .. N, s \in S : step[<<n, s>>] = goesOn(s, n)
  OBVIOUS
<1>7. F = Body(F)
  <2> HIDE DEF step, N, S
  <2>1. ASSUME NEW n \in 1 .. N
        PROVE  F[n] = goesOn(F[n - 1], n)
    <3>1. n - 1 \in 0 .. N
      BY <1>1
    <3>2. F[n - 1] \in S /\ F[n] = step[<<n, F[n - 1]>>]
      BY <1>5, <3>1 DEF RunsUpTo
    <3> QED
      BY <1>6, <3>2
  <2> QED
    BY <1>1, <1>5, <2>1 DEF RunsUpTo
<1>8. Upto = Body(Upto)
  <2> HIDE DEF Body
  <2> QED
    BY <1>7
<1>9. /\ DOMAIN Upto = 0 .. N /\ Upto = [n \in DOMAIN Upto |-> Upto[n]]
      /\ \A n \in 0 .. N :
            Upto[n] = IF n = 0 THEN first ELSE goesOn(Upto[n - 1], n)
  <2> HIDE DEF Upto, N
  <2> QED
    BY <1>8
<1> HIDE DEF Upto, step, Body
<1>10. Upto[0] = first
  BY <1>1, <1>9
<1>11. ASSUME NEW n \in 1 .. N
       PROVE  Upto[n] = goesOn(Upto[n - 1], n)
  <2>1. n \in 0 .. N /\ n # 0
    BY <1>1
  <2> QED
    BY <1>9, <2>1
<1>12. Upto \in [0 .. N -> S]
  <2>1. \A n \in 1 .. N : Upto[n - 1] \in S => Upto[n] \in S
    BY <1>3, <1>11
  <2>2. Upto[0] \in S
    BY <1>2, <1>10
  <2> HIDE DEF N, S
  <2> QED
    BY <1>1, <1>9, <2>1, <2>2, StaysUpTo
<1>13. Meant(ops, blocks) = Upto
  BY DEF Meant, Upto, Body, goesOn, kept, put, first
<1>14. MeantBy(ops, blocks) = Upto[N]
  BY DEF MeantBy, Upto, Body, goesOn, kept, put, first
<1> QED
  BY <1>10, <1>11, <1>12, <1>13, <1>14 DEF goesOn, kept, put, first

(* What is meant are blocks in a row again.                                *)
LEMMA MeantFormed ==
    ASSUME NEW ops \in Seq(Op), Apart(ops), NEW blocks, Formed(blocks), Applicable(blocks, ops)
    PROVE  Formed(MeantBy(ops, blocks))
<1>0. blocks \in Seq(BlockSet)
  BY DEF Formed
<1>1. PICK N \in Nat : N = Len(blocks)
  BY <1>0
<1> DEFINE U(n) == Meant(ops, blocks)[n]
           T == {n \in Nat : n <= N =>
                   /\ Formed(U(n))
                   /\ (\A m \in 1 .. n : Final(blocks[m].html) = 0) => Closed(U(n))}
<1>2. 0 \in T
  <2>1. AllWrap(U(0))
    <3>1. -1 \in Int
      OBVIOUS
    <3> QED
      BY <1>0, <3>1, MeantAll, InsertedIs
  <2> QED
    BY <2>1, WrapsFormed
<1>3. ASSUME NEW n \in Nat, n \in T
      PROVE  n + 1 \in T
  <2> SUFFICES ASSUME n + 1 <= N
               PROVE  /\ Formed(U(n + 1))
                      /\ (\A m \in 1 .. n + 1 : Final(blocks[m].html) = 0) => Closed(U(n + 1))
    OBVIOUS
  <2>0. PICK k \in 1 .. N : k = n + 1 /\ k - 1 = n
    BY <1>1, <1>3
  <2>1. /\ n <= N /\ n \in 0 .. Len(blocks) - 1 /\ n \in Int /\ k \in 1 .. Len(blocks)
        /\ k \in 1 .. k /\ \A m \in 1 .. n : m \in 1 .. k
    BY <1>1, <1>3, <2>0
  <2>2. /\ Formed(U(n))
        /\ (\A m \in 1 .. n : Final(blocks[m].html) = 0) => Closed(U(n))
    BY <1>3, <2>1
  <2> PICK kept, put : kept = KeptBy(ops, blocks, n) /\ put = InsertedBy(ops, n)
    OBVIOUS
  <2>3. U(k) = (U(n) \o kept) \o put
    BY <1>0, <2>0, <2>1, MeantAll
  <2>4. AllWrap(put) /\ Formed(put) /\ Closed(put)
    BY <2>1, InsertedIs, WrapsFormed
  <2>5. \/ AllWrap(kept)
        \/ kept = <<blocks[k]>>
    BY <1>0, <2>0, <2>1, KeptIs
  <2>6. /\ Formed(kept)
        /\ (\A m \in 1 .. k : Final(blocks[m].html) = 0) => Closed(kept)
        /\ Closed(U(n)) \/ AllWrap(kept)
    <3>1. CASE AllWrap(kept)
      BY <3>1, WrapsFormed
    <3>2. CASE kept = <<blocks[k]>>
      <4>1. /\ Formed(<<blocks[k]>>)
            /\ Closed(<<blocks[k]>>) <=> Final(blocks[k].html) = 0
            /\ Wraps(blocks[k].html) => AllWrap(<<blocks[k]>>)
        BY <2>1, FormedOne
      <4>2. Wraps(blocks[k].html) \/ \A m \in 1 .. n : Final(blocks[m].html) = 0
        BY <2>0, <2>1 DEF Formed
      <4> QED
        BY <2>1, <2>2, <3>2, <4>1, <4>2
    <3> QED
      BY <2>5, <3>1, <3>2
  <2> HIDE DEF U
  <2>7. /\ Formed(U(n) \o kept)
        /\ Closed(U(n)) /\ Closed(kept) => Closed(U(n) \o kept)
    BY <2>2, <2>6, FormedConcat
  <2>8. /\ Formed((U(n) \o kept) \o put)
        /\ Closed(U(n) \o kept) /\ Closed(put) => Closed((U(n) \o kept) \o put)
    BY <2>4, <2>7, FormedConcat
  <2> QED
    BY <2>0, <2>1, <2>2, <2>3, <2>4, <2>6, <2>7, <2>8
<1>4. Nat \subseteq T
  <2> HIDE DEF T
  <2> QED
    BY <1>2, <1>3, Induction
<1>5. Formed(U(N))
  <2> HIDE DEF U
  <2> QED
    BY <1>1, <1>4
<1> QED
  BY <1>0, <1>1, <1>5, MeantAll

-----------------------------------------------------------------------------
(* What becomes of the parts, operation after operation.                   *)

(* The parts after n operations.                                           *)
Edited(blocks, ops) ==
    LET order == FromTheBack(ops)
        Applied[n \in 0 .. Len(ops)] ==
          IF n = 0 THEN Html(blocks) ELSE ApplyOp(Applied[n - 1], order[n], blocks)
    IN Applied

(* It is what ApplyOps goes through.                                       *)
LEMMA EditedAll ==
    ASSUME NEW ops \in Seq(Op), NEW blocks
    PROVE  /\ Edited(blocks, ops)[0] = Html(blocks)
           /\ \A n \in 1 .. Len(ops) :
                Edited(blocks, ops)[n] =
                  ApplyOp(Edited(blocks, ops)[n - 1], FromTheBack(ops)[n], blocks)
           /\ ApplyOps(blocks, ops) = Edited(blocks, ops)[Len(ops)]
<1> DEFINE N == Len(ops)
           first == Html(blocks)
           goesOn(s, n) == ApplyOp(s, FromTheBack(ops)[n], blocks)
           Body(f) == [n \in 0 .. N |-> IF n = 0 THEN first ELSE goesOn(f[n - 1], n)]
           Applied == CHOOSE f : f = Body(f)
           UpTo(n, g) == g[0] = first /\ \A i \in 1 .. n : g[i] = goesOn(g[i - 1], i)
           T == {n \in Nat : \E g : UpTo(n, g)}
<1>1. N \in Nat
  OBVIOUS
<1> HIDE DEF first, goesOn
<1>2. 0 \in T
  <2>1. UpTo(0, [i \in {0} |-> first])
    OBVIOUS
  <2> QED
    BY <2>1
<1>3. ASSUME NEW n \in Nat, n \in T
      PROVE  n + 1 \in T
  <2>1. PICK g : UpTo(n, g)
    BY <1>3
  <2> PICK k \in Nat : k = n + 1
    BY <1>3
  <2> DEFINE h == [i \in 0 .. k |-> IF i = k THEN goesOn(g[n], k) ELSE g[i]]
  <2>2. h[0] = first
    BY <1>3, <2>1
  <2>3. ASSUME NEW i \in 1 .. k
        PROVE  h[i] = goesOn(h[i - 1], i)
    <3>1. i \in 0 .. k /\ i - 1 \in 0 .. k /\ i - 1 # k /\ (i # k => i \in 1 .. n)
          /\ (i = k => i - 1 = n)
      BY <1>3
    <3>2. h[i - 1] = g[i - 1]
      BY <3>1
    <3>3. CASE i = k
      BY <3>1, <3>2, <3>3
    <3>4. CASE i # k
      BY <2>1, <3>1, <3>2, <3>4
    <3> QED
      BY <3>3, <3>4
  <2> HIDE DEF h
  <2>4. UpTo(k, h)
    BY <2>2, <2>3
  <2> QED
    BY <2>4
<1>4. Nat \subseteq T
  <2> HIDE DEF T
  <2> QED
    BY <1>2, <1>3, Induction
<1>5. PICK g : UpTo(N, g)
  BY <1>1, <1>4
<1> DEFINE F == [n \in 0 .. N |-> g[n]]
<1>6. F = Body(F)
  <2>1. ASSUME NEW n \in 0 .. N
        PROVE  g[n] = IF n = 0 THEN first ELSE goesOn(F[n - 1], n)
    <3>1. n # 0 => n - 1 \in 0 .. N /\ n \in 1 .. N
      BY <1>1
    <3> QED
      BY <1>5, <3>1
  <2> QED
    BY <2>1
<1>7. Applied = Body(Applied)
  <2> HIDE DEF Body
  <2> QED
    BY <1>6
<1>8. \A n \in 0 .. N :
         Applied[n] = IF n = 0 THEN first ELSE goesOn(Applied[n - 1], n)
  <2> HIDE DEF Applied, N
  <2> QED
    BY <1>7
<1> HIDE DEF Applied, Body
<1>9. Applied[0] = first
  BY <1>1, <1>8
<1>10. ASSUME NEW n \in 1 .. N
       PROVE  Applied[n] = goesOn(Applied[n - 1], n)
  <2>1. n \in 0 .. N /\ n # 0
    BY <1>1
  <2> QED
    BY <1>8, <2>1
<1>11. Edited(blocks, ops) = Applied
  BY DEF Edited, Applied, Body, goesOn, first
<1>12. ApplyOps(blocks, ops) = Applied[N]
  BY DEF ApplyOps, Applied, Body, goesOn, first
<1> QED
  BY <1>9, <1>10, <1>11, <1>12 DEF goesOn, first

(* A part in front of others, joined.                                      *)
LEMMA JoinFirst ==
    ASSUME NEW html \in Seq(AnyToken), NEW parts \in Seq(Seq(AnyToken))
    PROVE  /\ <<html>> \o parts \in Seq(Seq(AnyToken))
           /\ JoinBlocks(<<html>> \o parts) = Glue(html, JoinBlocks(parts))
<1>1. <<html>> \in Seq(Seq(AnyToken)) /\ JoinBlocks(<<html>>) = html
  BY JoinOne
<1> QED
  BY <1>1, JoinConcat

(* One block and the operation that addresses it, whatever the parts       *)
(* behind it have become: what is needed, and what it turns into.          *)
Addressed(ops, blocks, j, html, front, back) ==
    /\ ops \in Seq(Op) /\ Apart(ops) /\ blocks \in Seq(BlockSet) /\ Applicable(blocks, ops)
    /\ j \in 0 .. Len(blocks) - 1 /\ html \in Seq(AnyToken) /\ html = blocks[j + 1].html
    /\ front \in Seq(Seq(AnyToken)) /\ Len(front) = j /\ back \in Seq(Seq(AnyToken))

TurnsInto(ops, blocks, j, html, front, back, more) ==
    /\ more \in Seq(Seq(AnyToken))
    /\ JoinBlocks(more) =
         Glue(Glue(JoinBlocks(Html(KeptBy(ops, blocks, j))),
                   JoinBlocks(Html(InsertedBy(ops, j)))),
              JoinBlocks(back))
    /\ (\A op \in ToSet(ops) : op.index # j) => more = <<html>> \o back
    /\ \A op \in ToSet(ops) : op.index = j =>
         ApplyOp(front \o (<<html>> \o back), op, blocks) = front \o more

(* Whatever the operation is, what it addresses becomes what it means.     *)
LEMMA OneEdited ==
    ASSUME NEW ops, NEW blocks, NEW j, NEW html, NEW front, NEW back,
           Addressed(ops, blocks, j, html, front, back)
    PROVE  \E more : TurnsInto(ops, blocks, j, html, front, back, more)
<1>a. /\ ops \in Seq(Op) /\ Apart(ops) /\ blocks \in Seq(BlockSet) /\ Applicable(blocks, ops)
      /\ j \in 0 .. Len(blocks) - 1 /\ html \in Seq(AnyToken) /\ html = blocks[j + 1].html
      /\ front \in Seq(Seq(AnyToken)) /\ Len(front) = j /\ back \in Seq(Seq(AnyToken))
  BY DEF Addressed
<1> USE <1>a
<1> DEFINE S == Seq(AnyToken)
           kept == KeptBy(ops, blocks, j)
           put == InsertedBy(ops, j)
<1>0. j \in Int /\ j + 1 \in 1 .. Len(blocks) /\ blocks[j + 1] \in BlockSet /\ j \in Nat
  OBVIOUS
<1>1. ToSet(ops) \subseteq Op /\ \A op, other \in ToSet(ops) : op.index = other.index => op = other
  BY OpsOnce
<1>2. JoinBlocks(back) \in S /\ JoinBlocks(Html(kept)) \in S /\ JoinBlocks(Html(put)) \in S
  <2>1. kept \in Seq(BlockSet) /\ put \in Seq(BlockSet)
    BY <1>0, KeptIs, InsertedIs DEF AllWrap
  <2> QED
    BY <2>1, JoinHtml, JoinConcat
<1>3. OpsAt(ops, j, "replace") = {} => JoinBlocks(Html(kept)) = html
  <2> SUFFICES ASSUME OpsAt(ops, j, "replace") = {} PROVE JoinBlocks(Html(kept)) = html
    OBVIOUS
  <2> PICK block \in BlockSet : block = blocks[j + 1]
    BY <1>0
  <2>1. kept = <<block>>
    BY <1>0, KeptIs
  <2>2. <<block>> \in Seq(BlockSet) /\ Len(<<block>>) = 1 /\ <<block>>[1] = block
    BY OneAlone
  <2>3. Html(<<block>>) = <<html>>
    <3>1. DOMAIN <<block>> = {1}
      BY <2>2
    <3> QED
      BY <2>2, <3>1 DEF Html
  <2> QED
    BY <2>1, <2>3, JoinOne
<1>4. OpsAt(ops, j, "insert_after") = {} => JoinBlocks(Html(put)) = <<>>
  <2>1. Html(<<>>) = <<>>
    BY DEF Html
  <2> QED
    BY <1>0, <2>1, InsertedIs, JoinOne, NothingSplits
<1>5. CASE \A op \in ToSet(ops) : op.index # j
  <2>1. OpsAt(ops, j, "replace") = {} /\ OpsAt(ops, j, "insert_after") = {}
    BY <1>5 DEF OpsAt
  <2>2. /\ <<html>> \o back \in Seq(S)
        /\ JoinBlocks(<<html>> \o back) = Glue(html, JoinBlocks(back))
    BY JoinFirst
  <2>3. Glue(html, <<>>) = html
    BY GlueNothing
  <2> QED
    BY <1>3, <1>4, <1>5, <2>1, <2>2, <2>3 DEF TurnsInto
<1>6. ASSUME NEW op \in ToSet(ops), op.index = j
      PROVE  \E more \in Seq(S) :
               /\ JoinBlocks(more) =
                    Glue(Glue(JoinBlocks(Html(kept)), JoinBlocks(Html(put))), JoinBlocks(back))
               /\ ApplyOp(front \o (<<html>> \o back), op, blocks) = front \o more
  <2>0. op \in Op /\ op.action \in {"replace", "insert_after"} /\ op.text \in Seq(Seq(Inline))
        /\ op.index + 2 = Len(front) + 2 /\ op.index + 1 = Len(front) + 1 /\ op.index + 1 = j + 1
    BY <1>0, <1>1, <1>6 DEF Op
  <2>1. \A other \in ToSet(ops) : other.index = j => other = op
    BY <1>1, <1>6
  <2>2. CASE op.action = "insert_after"
    <3>1. OpsAt(ops, j, "replace") = {} /\ op \in OpsAt(ops, j, "insert_after")
      BY <1>6, <2>1, <2>2 DEF OpsAt
    <3> PICK x \in S : x = ParagraphHtml(op.text) /\ x = JoinBlocks(Html(put))
      <4>1. put = Paragraphs(op.text)
        BY <1>0, <3>1, InsertedIs
      <4> QED
        BY <2>0, <4>1, ParagraphsAre
    <3>2. /\ <<x>> \o back \in Seq(S) /\ <<html>> \o (<<x>> \o back) \in Seq(S)
          /\ JoinBlocks(<<html>> \o (<<x>> \o back)) = Glue(html, Glue(x, JoinBlocks(back)))
      <4> PICK rest \in Seq(S) :
             rest = <<x>> \o back /\ JoinBlocks(rest) = Glue(x, JoinBlocks(back))
        BY JoinFirst
      <4>1. /\ <<html>> \o rest \in Seq(S)
            /\ JoinBlocks(<<html>> \o rest) = Glue(html, JoinBlocks(rest))
        BY JoinFirst
      <4> QED
        BY <4>1
    <3>3. Glue(Glue(html, x), JoinBlocks(back)) = Glue(html, Glue(x, JoinBlocks(back)))
      BY <1>2, GlueAssociative
    <3>4. ApplyOp(front \o (<<html>> \o back), op, blocks)
            = InsertAt(front \o (<<html>> \o back), Len(front) + 2, x)
      BY <2>0, <2>2 DEF ApplyOp, Deletes
    <3>5. InsertAt(front \o (<<html>> \o back), Len(front) + 2, x)
            = front \o (<<html>> \o (<<x>> \o back))
      <4>1. Around(S, front, html, x, back)
        BY DEF Around
      <4> HIDE DEF S
      <4>2. InsertAt(Between(front, html, back), Len(front) + 2, x)
              = BothBetween(front, html, x, back)
        BY <4>1, InsertsAfter
      <4> QED
        BY <4>2 DEF Between, BothBetween
    <3> QED
      BY <1>3, <3>1, <3>2, <3>3, <3>4, <3>5
  <2>3. CASE op.action = "replace"
    <3>1. OpsAt(ops, j, "insert_after") = {} /\ op \in OpsAt(ops, j, "replace")
      BY <1>6, <2>1, <2>3 DEF OpsAt
    <3>2. JoinBlocks(Html(put)) = <<>> /\ Glue(JoinBlocks(Html(kept)), <<>>) = JoinBlocks(Html(kept))
      BY <1>4, <3>1, GlueNothing
    <3>3. RemoveAt(front \o (<<html>> \o back), Len(front) + 1) = front \o back
      BY RemovesBehind
    <3>4. CASE Deletes(op)
      <4>1. ApplyOp(front \o (<<html>> \o back), op, blocks) = front \o back
        BY <2>0, <2>3, <3>3, <3>4 DEF ApplyOp
      <4>2. JoinBlocks(Html(kept)) = <<>>
        <5>1. kept = <<>>
          BY <1>0, <3>1, <3>4, KeptIs
        <5>2. Html(<<>>) = <<>>
          BY DEF Html
        <5> QED
          BY <5>1, <5>2, JoinOne, NothingSplits
      <4>3. Glue(<<>>, JoinBlocks(back)) = JoinBlocks(back)
        BY GlueNothing
      <4> QED
        BY <3>2, <4>1, <4>2, <4>3
    <3>5. CASE ~Deletes(op)
      <4> PICK x \in S : x = Replacement(op, blocks[j + 1].tag) /\ x = JoinBlocks(Html(kept))
        BY <1>0, <3>1, <3>5, KeptIs
      <4>1. ApplyOp(front \o (<<html>> \o back), op, blocks)
              = InsertAt(RemoveAt(front \o (<<html>> \o back), Len(front) + 1), Len(front) + 1, x)
        BY <2>0, <2>3, <3>5 DEF ApplyOp
      <4>2. InsertAt(front \o back, Len(front) + 1, x) = front \o (<<x>> \o back)
        BY InsertsBehind
      <4>3. /\ <<x>> \o back \in Seq(S)
            /\ JoinBlocks(<<x>> \o back) = Glue(x, JoinBlocks(back))
        BY JoinFirst
      <4> QED
        BY <3>2, <3>3, <4>1, <4>2, <4>3
    <3> QED
      BY <3>4, <3>5
  <2> QED
    BY <2>0, <2>2, <2>3
<1>7. CASE \E op \in ToSet(ops) : op.index = j
  <2>1. PICK op \in ToSet(ops) : op.index = j
    BY <1>7
  <2>2. \A other \in ToSet(ops) : other.index = j => other = op
    BY <1>1, <2>1
  <2>3. PICK more \in Seq(S) :
          /\ JoinBlocks(more) =
               Glue(Glue(JoinBlocks(Html(kept)), JoinBlocks(Html(put))), JoinBlocks(back))
          /\ ApplyOp(front \o (<<html>> \o back), op, blocks) = front \o more
    BY <1>6, <2>1
  <2> QED
    BY <2>1, <2>2, <2>3 DEF TurnsInto
<1> QED
  BY <1>5, <1>7

(* The first blocks are those before the last of them, and it.             *)
LEMMA LastOfFront ==
    ASSUME NEW S, NEW seq \in Seq(S), NEW j \in Nat, NEW i \in 1 .. Len(seq), i = j + 1
    PROVE  /\ SubSeq(seq, 1, i) = SubSeq(seq, 1, j) \o <<seq[i]>>
           /\ SubSeq(seq, 1, j) \in Seq(S) /\ Len(SubSeq(seq, 1, j)) = j
<1>1. PICK n \in Nat :
        /\ n = Len(seq) /\ i \in Nat /\ i <= n
        /\ 1 \in 1 .. n + 1 /\ j \in 1 - 1 .. n /\ i \in j .. n
        /\ i \in Int /\ i <= i /\ i - i + 1 = 1 /\ 1 \in 1 .. i - i + 1 /\ i + 1 - 1 = i
        /\ j \in Int /\ j - 1 + 1 = j /\ \A x \in 1 .. j : x \in 1 .. n
  OBVIOUS
<1>2. SubSeq(seq, 1, j) \o SubSeq(seq, j + 1, i) = SubSeq(seq, 1, i)
  BY <1>1, ConcatAdjacentSubSeq
<1>3. SubSeq(seq, i, i) = <<seq[i]>>
  <2>1. \A x \in i .. i : seq[x] \in S
    BY <1>1
  <2>2. /\ SubSeq(seq, i, i) \in Seq(S) /\ Len(SubSeq(seq, i, i)) = 1
        /\ SubSeq(seq, i, i)[1] = seq[i]
    <3>1. /\ SubSeq(seq, i, i) \in Seq(S)
          /\ Len(SubSeq(seq, i, i)) = IF i <= i THEN i - i + 1 ELSE 0
          /\ \A x \in 1 .. i - i + 1 : SubSeq(seq, i, i)[x] = seq[i + x - 1]
      BY <1>1, <2>1, SubSeqProperties
    <3> QED
      BY <1>1, <3>1
  <2>3. PICK one \in Seq(S) : one = SubSeq(seq, i, i) /\ Len(one) = 1 /\ one[1] = seq[i]
    BY <2>2, Zenon
  <2>0. PICK e \in S : e = seq[i]
    BY <1>1
  <2>4. PICK tuple \in Seq(S) : tuple = <<e>> /\ Len(tuple) = 1 /\ tuple[1] = e
    BY <2>0, OneAlone, Zenon
  <2>5. \A x \in 1 .. Len(one) : one[x] = tuple[x]
    <3> TAKE x \in 1 .. Len(one)
    <3>1. x = 1
      BY <2>3
    <3> QED
      BY <2>0, <2>3, <2>4, <3>1, Zenon
  <2>6. one = tuple
    BY <2>3, <2>4, <2>5, SeqEqual
  <2> QED
    BY <2>0, <2>3, <2>4, <2>6, Zenon
<1>4. SubSeq(seq, 1, j) \in Seq(S) /\ Len(SubSeq(seq, 1, j)) = j
  <2>1. 1 \in Int /\ \A x \in 1 .. j : seq[x] \in S
    BY <1>1
  <2>2. /\ SubSeq(seq, 1, j) \in Seq(S)
        /\ Len(SubSeq(seq, 1, j)) = IF 1 <= j THEN j - 1 + 1 ELSE 0
    BY <1>1, <2>1, SubSeqProperties
  <2> QED
    BY <1>1, <2>2
<1>5. SubSeq(seq, j + 1, i) = <<seq[i]>>
  BY <1>3
<1>6. SubSeq(seq, 1, i) = SubSeq(seq, 1, j) \o <<seq[i]>>
  BY <1>2, <1>5, Zenon
<1> QED
  BY <1>4, <1>6, Zenon

(* Only text put in addresses what is before the first block.              *)
LEMMA OpsApply ==
    ASSUME NEW ops \in Seq(Op), NEW blocks \in Seq(BlockSet), Applicable(blocks, ops)
    PROVE  \A op \in ToSet(ops) :
              /\ op.index >= -1
              /\ op.action # "insert_after" => op.index >= 0
<1>1. PICK N \in Nat : N = Len(ops) /\ DOMAIN ops = 1 .. N
  OBVIOUS
<1>2. ToSet(ops) = {ops[i] : i \in 1 .. N}
  BY <1>1 DEF ToSet
<1>3. ASSUME NEW i \in 1 .. N
      PROVE  ops[i].index >= -1 /\ (ops[i].action # "insert_after" => ops[i].index >= 0)
  <2>1. IF ops[i].action = "insert_after"
        THEN ops[i].index \in -1 .. Len(blocks) - 1
        ELSE ops[i].index \in 0 .. Len(blocks) - 1
    BY <1>1 DEF Applicable
  <2> QED
    BY <2>1
<1> QED
  BY <1>2, <1>3

(* Numbers up to k, and those beyond it up to N.                           *)
LEMMA Beyond == ASSUME NEW N \in Nat, NEW k \in Nat, k <= N
                PROVE  /\ \A n \in 1 .. k : n \in 1 .. N
                       /\ \A n \in k + 1 .. N : n \in 1 .. N /\ k < n
                       /\ \A p \in 1 .. N : p > k => k + 1 \in 1 .. N /\ k + 1 \in k + 1 .. N
OBVIOUS

(* Numbers next to each other.                                             *)
LEMMA Under == ASSUME NEW i \in Int, NEW j \in Int, i = j + 1, NEW x \in Int
               PROVE  (x < i /\ x # j => x < j) /\ (x >= i => x >= j /\ x # j /\ ~(x < i))
                      /\ (x > j => x >= i) /\ (x = j => x >= j /\ x < i)
OBVIOUS

(* Going down the blocks: the operations on block i and those behind it    *)
(* are done, and what is behind the blocks before it is what was meant.    *)
Reached(blocks, ops, i, k, back) ==
    /\ k \in 0 .. Len(ops) /\ back \in Seq(Seq(AnyToken))
    /\ \A n \in 1 .. k : FromTheBack(ops)[n].index >= i
    /\ \A n \in k + 1 .. Len(ops) : FromTheBack(ops)[n].index < i
    /\ Edited(blocks, ops)[k] = SubSeq(Html(blocks), 1, i) \o back
    /\ Glue(JoinBlocks(Html(Meant(ops, blocks)[i])), JoinBlocks(back))
         = JoinBlocks(Html(MeantBy(ops, blocks)))

(* The middle two of four parts, glued first.                              *)
LEMMA GluedAgain ==
    ASSUME NEW a \in Seq(AnyToken), NEW b \in Seq(AnyToken), NEW c \in Seq(AnyToken),
           NEW d \in Seq(AnyToken)
    PROVE  Glue(Glue(Glue(a, b), c), d) = Glue(a, Glue(Glue(b, c), d))
<1> PICK ab \in Seq(AnyToken), bc \in Seq(AnyToken), cd \in Seq(AnyToken) :
       ab = Glue(a, b) /\ bc = Glue(b, c) /\ cd = Glue(c, d)
  BY GlueIs
<1>1. Glue(Glue(ab, c), d) = Glue(ab, cd)
  BY GlueAssociative
<1>2. Glue(ab, cd) = Glue(a, Glue(b, cd))
  BY GlueAssociative
<1>3. Glue(bc, d) = Glue(b, cd)
  BY GlueAssociative
<1> QED
  BY <1>1, <1>2, <1>3

(* From one block to the block before it.                                  *)
LEMMA ReachesDown ==
    ASSUME NEW ops \in Seq(Op), Apart(ops), NEW blocks \in Seq(BlockSet), Applicable(blocks, ops),
           NEW i \in 1 .. Len(blocks), NEW k, NEW back, Reached(blocks, ops, i, k, back)
    PROVE  \E l, more : Reached(blocks, ops, i - 1, l, more)
<1> DEFINE P == Seq(AnyToken)
           order == FromTheBack(ops)
           kept == KeptBy(ops, blocks, i - 1)
           put == InsertedBy(ops, i - 1)
           U(n) == JoinBlocks(Html(Meant(ops, blocks)[n]))
<1>1. PICK N \in Nat, j \in Nat :
        /\ N = Len(ops) /\ j = i - 1 /\ i = j + 1 /\ i \in Int /\ j \in Int
        /\ j \in 0 .. Len(blocks) - 1 /\ j \in 0 .. Len(blocks) /\ i \in 0 .. Len(blocks)
  OBVIOUS
<1>2. /\ k \in Nat /\ k <= N /\ k \in 0 .. N /\ back \in Seq(P)
      /\ \A n \in 1 .. k : order[n].index >= i
      /\ \A n \in k + 1 .. N : order[n].index < i
      /\ Edited(blocks, ops)[k] = SubSeq(Html(blocks), 1, i) \o back
      /\ Glue(U(i), JoinBlocks(back)) = JoinBlocks(Html(MeantBy(ops, blocks)))
  BY <1>1 DEF Reached
<1>3. /\ ToSet(ops) \subseteq Op
      /\ \A n \in 1 .. N : order[n] \in ToSet(ops) /\ order[n].index \in Int
      /\ \A n, m \in 1 .. N : n < m => order[n].index > order[m].index
      /\ \A op \in ToSet(ops) : \E n \in 1 .. N : order[n] = op
  <2>1. /\ order \in [1 .. N -> ToSet(ops)]
        /\ \A n, m \in 1 .. N : n < m => order[n].index > order[m].index
        /\ \A op \in ToSet(ops) : \E n \in 1 .. N : order[n] = op
    BY <1>1, FromTheBackIs
  <2>2. ToSet(ops) \subseteq Op
    BY OpsOnce
  <2> HIDE DEF order
  <2>3. \A n \in 1 .. N : order[n] \in ToSet(ops)
    BY <2>1
  <2>4. \A n \in 1 .. N : order[n].index \in Int
    BY <2>2, <2>3 DEF Op
  <2> QED
    BY <2>1, <2>2, <2>3, <2>4
<1>4. PICK html \in P, front \in Seq(P) :
        /\ html = blocks[j + 1].html /\ Len(front) = j /\ front = SubSeq(Html(blocks), 1, j)
        /\ SubSeq(Html(blocks), 1, i) = front \o <<html>>
  <2>1. Html(blocks) \in Seq(P) /\ Len(Html(blocks)) = Len(blocks)
        /\ Html(blocks)[i] = blocks[i].html /\ blocks[i].html \in P
    BY HtmlIs
  <2>2. i \in 1 .. Len(Html(blocks))
    BY <2>1
  <2>3. /\ SubSeq(Html(blocks), 1, i) = SubSeq(Html(blocks), 1, j) \o <<Html(blocks)[i]>>
        /\ SubSeq(Html(blocks), 1, j) \in Seq(P)
        /\ Len(SubSeq(Html(blocks), 1, j)) = j
    <3>1. j \in Nat /\ i = j + 1
      BY <1>1
    <3> HIDE DEF P
    <3> QED
      BY <2>1, <2>2, <3>1, LastOfFront
  <2> QED
    BY <1>1, <2>1, <2>3
<1>5. Edited(blocks, ops)[k] = front \o (<<html>> \o back)
  <2>1. PICK one \in Seq(P) : one = <<html>>
    BY <1>4, OneAlone
  <2>2. (front \o one) \o back = front \o (one \o back)
    <3>1. front \in Seq(P) /\ back \in Seq(P)
      BY <1>2, <1>4
    <3> HIDE DEF P
    <3> QED
      BY <2>1, <3>1, ConcatThree
  <2>3. Edited(blocks, ops)[k] = (front \o one) \o back
    BY <1>2, <1>4, <2>1
  <2> QED
    BY <2>1, <2>2, <2>3, Zenon
<1>6. PICK more \in Seq(P) :
        /\ JoinBlocks(more) =
             Glue(Glue(JoinBlocks(Html(kept)), JoinBlocks(Html(put))), JoinBlocks(back))
        /\ (\A op \in ToSet(ops) : op.index # j) => more = <<html>> \o back
        /\ \A op \in ToSet(ops) : op.index = j =>
             ApplyOp(front \o (<<html>> \o back), op, blocks) = front \o more
  <2>1. Addressed(ops, blocks, j, html, front, back)
    BY <1>1, <1>2, <1>4 DEF Addressed
  <2>2. PICK more : TurnsInto(ops, blocks, j, html, front, back, more)
    BY <2>1, OneEdited
  <2>3. kept = KeptBy(ops, blocks, j) /\ put = InsertedBy(ops, j)
    BY <1>1
  <2> HIDE DEF kept, put
  <2> QED
    BY <2>2, <2>3 DEF TurnsInto
<1>7. Glue(U(j), JoinBlocks(more)) = JoinBlocks(Html(MeantBy(ops, blocks)))
  <2>1. /\ Meant(ops, blocks)[j] \in Seq(BlockSet) /\ kept \in Seq(BlockSet)
        /\ put \in Seq(BlockSet)
        /\ Meant(ops, blocks)[i] = (Meant(ops, blocks)[j] \o kept) \o put
    BY <1>1, MeantAll, KeptIs, InsertedIs DEF AllWrap
  <2>2. PICK was \in Seq(BlockSet), both \in Seq(BlockSet) :
          was = Meant(ops, blocks)[j] /\ both = was \o kept
    BY <2>1, JoinHtml
  <2>3. /\ JoinBlocks(Html(both)) = Glue(U(j), JoinBlocks(Html(kept)))
        /\ U(j) \in P /\ JoinBlocks(Html(kept)) \in P
    BY <2>1, <2>2, JoinHtml
  <2>4. /\ U(i) = Glue(JoinBlocks(Html(both)), JoinBlocks(Html(put)))
        /\ JoinBlocks(Html(put)) \in P
    <3>1. JoinBlocks(Html(both \o put)) = Glue(JoinBlocks(Html(both)), JoinBlocks(Html(put)))
          /\ JoinBlocks(Html(put)) \in P
      BY <2>1, <2>2, JoinHtml
    <3> QED
      BY <2>1, <2>2, <3>1
  <2>5. JoinBlocks(back) \in P
    BY <1>2, JoinConcat
  <2> HIDE DEF U, kept, put
  <2>6. Glue(Glue(Glue(U(j), JoinBlocks(Html(kept))), JoinBlocks(Html(put))), JoinBlocks(back))
          = Glue(U(j), Glue(Glue(JoinBlocks(Html(kept)), JoinBlocks(Html(put))), JoinBlocks(back)))
    BY <2>3, <2>4, <2>5, GluedAgain
  <2> QED
    BY <1>2, <1>6, <2>3, <2>4, <2>6
<1> HIDE DEF order, U, kept, put
<1>0. k \in Nat /\ k <= N /\ N \in Nat /\ i \in Int /\ j \in Int /\ i = j + 1
  BY <1>1, <1>2
<1>8. CASE \A op \in ToSet(ops) : op.index # j
  <2>1. Edited(blocks, ops)[k] = SubSeq(Html(blocks), 1, j) \o more
    BY <1>4, <1>5, <1>6, <1>8
  <2>2. \A n \in 1 .. k : order[n].index >= j
    <3> TAKE n \in 1 .. k
    <3>1. n \in 1 .. N /\ order[n].index >= i
      BY <1>0, <1>2, Beyond
    <3>2. order[n].index \in Int
      BY <1>3, <3>1
    <3> QED
      BY <1>0, <3>1, <3>2, Under
  <2>3. \A n \in k + 1 .. N : order[n].index < j
    <3> TAKE n \in k + 1 .. N
    <3>1. n \in 1 .. N /\ order[n].index < i
      BY <1>0, <1>2, Beyond
    <3>2. order[n].index # j /\ order[n].index \in Int
      BY <1>3, <1>8, <3>1
    <3> QED
      BY <1>0, <3>1, <3>2, Under
  <2>4. Reached(blocks, ops, j, k, more)
    BY <1>1, <1>2, <1>6, <1>7, <2>1, <2>2, <2>3 DEF Reached, order, U
  <2> QED
    BY <1>1, <2>4
<1>9. CASE \E op \in ToSet(ops) : op.index = j
  <2>1. PICK op \in ToSet(ops) : op.index = j
    BY <1>9
  <2>2. PICK p \in 1 .. N : order[p] = op
    BY <1>3, <2>1
  <2>9. p \in Nat /\ order[p].index = j
    BY <2>1, <2>2
  <2>3. p = k + 1
    <3>1. ~(p <= k)
      <4> SUFFICES ASSUME p <= k PROVE FALSE
        OBVIOUS
      <4>1. p \in 1 .. k
        BY <1>0, <2>2
      <4>2. order[p].index >= i
        BY <1>2, <4>1
      <4> QED
        BY <1>0, <2>9, <4>2, Under
    <3>2. ~(k + 1 < p)
      <4> SUFFICES ASSUME k + 1 < p PROVE FALSE
        OBVIOUS
      <4>0. p > k
        BY <1>0, <2>9
      <4>1. k + 1 \in 1 .. N /\ k + 1 \in k + 1 .. N
        BY <1>0, <2>2, <4>0, Beyond
      <4>2. order[k + 1].index < i
        BY <1>2, <4>1
      <4>3. order[k + 1].index > j /\ order[k + 1].index \in Int
        BY <1>3, <2>2, <2>9, <4>1
      <4> QED
        BY <1>0, <4>2, <4>3, Under
    <3> QED
      BY <1>0, <2>9, <3>1, <3>2
  <2>4. Edited(blocks, ops)[p] = front \o more
    <3>1. Edited(blocks, ops)[p] = ApplyOp(Edited(blocks, ops)[p - 1], order[p], blocks)
      BY <1>1, <2>2, EditedAll DEF order
    <3>2. p - 1 = k
      BY <1>0, <2>3
    <3>3. ApplyOp(Edited(blocks, ops)[k], op, blocks) = front \o more
      BY <1>5, <1>6, <2>1
    <3> QED
      BY <2>2, <3>1, <3>2, <3>3
  <2>5. \A n \in 1 .. p : order[n].index >= j
    <3> TAKE n \in 1 .. p
    <3>1. n = p \/ n \in 1 .. k
      BY <1>0, <2>3
    <3>4. CASE n = p
      BY <1>0, <2>9, <3>4
    <3>5. CASE n \in 1 .. k
      <4>1. order[n].index >= i /\ n \in 1 .. N
        BY <1>0, <1>2, <3>5, Beyond
      <4>2. order[n].index \in Int
        BY <1>3, <4>1
      <4> QED
        BY <1>0, <4>1, <4>2, Under
    <3> QED
      BY <3>1, <3>4, <3>5
  <2>6. \A n \in p + 1 .. N : order[n].index < j
    <3> TAKE n \in p + 1 .. N
    <3>0. p <= N
      BY <1>0, <2>2
    <3>1. n \in 1 .. N /\ p < n
      BY <1>0, <2>9, <3>0, Beyond
    <3>2. j > order[n].index /\ order[n].index \in Int
      BY <1>3, <2>2, <2>9, <3>1
    <3> QED
      BY <1>0, <3>2
  <2>7. p \in 0 .. N
    BY <1>0, <2>2
  <2>8. Reached(blocks, ops, j, p, more)
    BY <1>1, <1>4, <1>6, <1>7, <2>4, <2>5, <2>6, <2>7 DEF Reached, order, U
  <2> QED
    BY <1>1, <2>8
<1> QED
  BY <1>8, <1>9

(* Before the first operation, behind the last block.                      *)
LEMMA ReachedFirst ==
    ASSUME NEW ops \in Seq(Op), Apart(ops), NEW blocks \in Seq(BlockSet), Applicable(blocks, ops)
    PROVE  Reached(blocks, ops, Len(blocks), 0, <<>>)
<1> DEFINE S == Seq(AnyToken)
           order == FromTheBack(ops)
<1>1. PICK N \in Nat, L \in Nat : N = Len(ops) /\ L = Len(blocks) /\ DOMAIN ops = 1 .. N
  OBVIOUS
<1>2. <<>> \in Seq(S) /\ JoinBlocks(<<>>) = <<>>
  BY JoinOne, NothingSplits
<1>3. Edited(blocks, ops)[0] = SubSeq(Html(blocks), 1, L) \o <<>>
  <2>1. Html(blocks) \in Seq(S) /\ Len(Html(blocks)) = L
    BY <1>1, HtmlIs
  <2> HIDE DEF S
  <2>2. SubSeq(Html(blocks), 1, L) = Html(blocks)
    BY <2>1, SubSeqFull
  <2>3. Html(blocks) \o <<>> = Html(blocks)
    BY <2>1, ConcatEmptySeq
  <2> QED
    BY <2>2, <2>3, EditedAll, Zenon
<1>4. ASSUME NEW n \in 0 + 1 .. N
      PROVE  order[n].index < L
  <2>1. order[n] \in ToSet(ops)
    BY <1>1, FromTheBackIs
  <2>2. PICK i \in 1 .. N : order[n] = ops[i]
    BY <1>1, <2>1 DEF ToSet
  <2>3. IF ops[i].action = "insert_after"
        THEN ops[i].index \in -1 .. Len(blocks) - 1
        ELSE ops[i].index \in 0 .. Len(blocks) - 1
    BY <1>1 DEF Applicable
  <2> HIDE DEF order
  <2> QED
    BY <1>1, <2>2, <2>3
<1>5. Glue(JoinBlocks(Html(Meant(ops, blocks)[L])), JoinBlocks(<<>>))
        = JoinBlocks(Html(MeantBy(ops, blocks)))
  <2>1. MeantBy(ops, blocks) = Meant(ops, blocks)[L]
    BY <1>1, MeantAll
  <2> QED
    BY <1>2, <2>1, GlueNothing
<1>6. \A n \in 1 .. 0 : order[n].index >= L
  OBVIOUS
<1>7. 0 \in 0 .. N
  BY <1>1
<1> QED
  BY <1>1, <1>2, <1>3, <1>4, <1>5, <1>6, <1>7 DEF Reached

(* And so down to the first block.                                         *)
LEMMA ReachedLast ==
    ASSUME NEW ops \in Seq(Op), Apart(ops), NEW blocks \in Seq(BlockSet), Applicable(blocks, ops)
    PROVE  \E k, back : Reached(blocks, ops, 0, k, back)
<1> DEFINE Past(i) == \E k, back : Reached(blocks, ops, i, k, back)
           T == {d \in Nat : d <= Len(blocks) => Past(Len(blocks) - d)}
<1>1. Len(blocks) \in Nat /\ Len(blocks) - 0 = Len(blocks) /\ Len(blocks) - Len(blocks) = 0
  OBVIOUS
<1>2. 0 \in T
  <2>1. Past(Len(blocks))
    BY ReachedFirst
  <2> HIDE DEF Past
  <2> QED
    BY <1>1, <2>1
<1>3. ASSUME NEW d \in Nat, d \in T
      PROVE  d + 1 \in T
  <2> SUFFICES ASSUME d + 1 <= Len(blocks) PROVE Past(Len(blocks) - (d + 1))
    OBVIOUS
  <2> PICK L \in Nat : L = Len(blocks)
    BY <1>1
  <2>0. d + 1 <= L /\ d \in Nat
    BY <1>3
  <2>1. PICK i \in 1 .. L : i = L - d /\ i - 1 = L - (d + 1) /\ d <= L
    BY <2>0
  <2>2. PICK k, back : Reached(blocks, ops, i, k, back)
    BY <1>3, <2>1
  <2>3. Past(i - 1)
    BY <2>2, ReachesDown
  <2> HIDE DEF Past
  <2> QED
    BY <2>1, <2>3
<1>4. Len(blocks) \in T
  <2> HIDE DEF T
  <2> QED
    BY <1>1, <1>2, <1>3, Induction
<1>5. Past(0)
  <2> HIDE DEF Past
  <2> QED
    BY <1>1, <1>4
<1> QED
  BY <1>5

(* Applying the operations one after the other, from the back, does what   *)
(* they mean all at once: no operation moves what a later one addresses    *)
(* (apply_ops, blocks.py).                                                 *)
THEOREM EditsAsMeant ==
    ASSUME NEW ops \in Seq(Op), Apart(ops), NEW blocks \in Seq(BlockSet), Applicable(blocks, ops)
    PROVE  JoinBlocks(ApplyOps(blocks, ops)) = JoinBlocks(Html(MeantBy(ops, blocks)))
<1> DEFINE S == Seq(AnyToken)
           order == FromTheBack(ops)
<1>1. PICK k, back : Reached(blocks, ops, 0, k, back)
  BY ReachedLast
<1>2. PICK N \in Nat : N = Len(ops)
  OBVIOUS
<1>3. /\ k \in Nat /\ k <= N /\ back \in Seq(S)
      /\ \A n \in 1 .. k : order[n].index >= 0
      /\ \A n \in k + 1 .. N : order[n].index < 0
      /\ Edited(blocks, ops)[k] = SubSeq(Html(blocks), 1, 0) \o back
      /\ Glue(JoinBlocks(Html(Meant(ops, blocks)[0])), JoinBlocks(back))
           = JoinBlocks(Html(MeantBy(ops, blocks)))
  BY <1>1, <1>2 DEF Reached
<1>4. /\ ToSet(ops) \subseteq Op
      /\ \A n \in 1 .. N : order[n] \in ToSet(ops)
      /\ \A n, m \in 1 .. N : n < m => order[n].index > order[m].index
      /\ \A op \in ToSet(ops) : \E n \in 1 .. N : order[n] = op
  BY <1>2, FromTheBackIs, OpsOnce
<1>5. \A op \in ToSet(ops) :
         op.index \in Int /\ op.index >= -1 /\ (op.action # "insert_after" => op.index >= 0)
  BY <1>4, OpsApply DEF Op
<1>6. Edited(blocks, ops)[k] = back /\ <<>> \o back = back
  <2>1. SubSeq(Html(blocks), 1, 0) = <<>>
    BY SubSeqEmpty
  <2>2. <<>> \o back = back
    <3>1. back \in Seq(S)
      BY <1>3
    <3> HIDE DEF S
    <3> QED
      BY <3>1, ConcatEmptySeq
  <2> QED
    BY <1>3, <2>1, <2>2, Zenon
<1>7. /\ ApplyOps(blocks, ops) = Edited(blocks, ops)[N]
      /\ \A n \in 1 .. N : Edited(blocks, ops)[n] = ApplyOp(Edited(blocks, ops)[n - 1], order[n], blocks)
  BY <1>2, EditedAll
<1>8. Meant(ops, blocks)[0] = InsertedBy(ops, -1)
  BY MeantAll
<1> HIDE DEF order
<1>9. CASE k = N
  <2>1. OpsAt(ops, -1, "insert_after") = {}
    <3> SUFFICES ASSUME NEW op \in ToSet(ops), op.index = -1 PROVE FALSE
      BY DEF OpsAt
    <3>1. PICK n \in 1 .. N : order[n] = op
      BY <1>4
    <3> QED
      BY <1>3, <1>9, <3>1
  <2>2. Html(<<>>) = <<>>
    BY DEF Html
  <2>3. InsertedBy(ops, -1) = <<>>
    BY <2>1, InsertedIs
  <2>4. JoinBlocks(Html(Meant(ops, blocks)[0])) = <<>>
    BY <1>8, <2>2, <2>3, JoinOne, NothingSplits
  <2>5. Glue(<<>>, JoinBlocks(back)) = JoinBlocks(back)
    BY GlueNothing
  <2> QED
    BY <1>3, <1>6, <1>7, <1>9, <2>4, <2>5
<1>10. CASE k # N
  <2>1. PICK p \in 1 .. N : p = k + 1 /\ p - 1 = k /\ p \in k + 1 .. N
    BY <1>2, <1>3, <1>10
  <2> PICK op \in ToSet(ops) : op = order[p]
    BY <1>4
  <2>2. op.index = -1 /\ op.action = "insert_after"
    BY <1>3, <1>5, <2>1
  <2>3. p = N
    <3> SUFFICES ASSUME p # N PROVE FALSE
      OBVIOUS
    <3>1. PICK q \in 1 .. N : p < q
      BY <1>2, <2>1
    <3>2. order[q] \in ToSet(ops) /\ order[p].index > order[q].index
      BY <1>4, <2>1, <3>1
    <3>3. order[q].index >= -1 /\ order[q].index \in Int
      BY <1>5, <3>2
    <3> QED
      BY <2>2, <3>2, <3>3
  <2>4. op \in Op /\ op.text \in Seq(Seq(Inline)) /\ op.index + 2 = 1
    BY <1>4, <2>2 DEF Op
  <2> PICK x \in S :
         x = ParagraphHtml(op.text) /\ x = JoinBlocks(Html(Meant(ops, blocks)[0]))
    <3>1. op \in OpsAt(ops, -1, "insert_after")
      BY <2>2 DEF OpsAt
    <3>2. InsertedBy(ops, -1) = Paragraphs(op.text)
      BY <3>1, InsertedIs
    <3> QED
      BY <1>8, <2>4, <3>2, ParagraphsAre
  <2>5. ApplyOps(blocks, ops) = InsertAt(back, 1, x)
    <3>1. ApplyOp(back, op, blocks) = InsertAt(back, 1, x)
      BY <2>2, <2>4 DEF ApplyOp, Deletes
    <3> QED
      BY <1>6, <1>7, <2>1, <2>3, <3>1
  <2>6. InsertAt(back, 1, x) = <<x>> \o back
    <3>1. back \in Seq(S) /\ <<>> \in Seq(S) /\ Len(<<>>) + 1 = 1
      BY <1>3
    <3>2. PICK more \in Seq(S) : more = <<x>> \o back
      BY <1>3, JoinFirst
    <3>3. <<>> \o more = more
      <4> HIDE DEF S
      <4> QED
        BY <3>2, ConcatEmptySeq
    <3> HIDE DEF S
    <3>4. InsertAt(<<>> \o back, Len(<<>>) + 1, x) = <<>> \o (<<x>> \o back)
      BY <3>1, InsertsBehind
    <3> QED
      BY <1>6, <3>1, <3>2, <3>3, <3>4, Zenon
  <2>7. JoinBlocks(<<x>> \o back) = Glue(x, JoinBlocks(back))
    BY <1>3, JoinFirst
  <2> QED
    BY <1>3, <2>5, <2>6, <2>7
<1> QED
  BY <1>9, <1>10
=============================================================================
