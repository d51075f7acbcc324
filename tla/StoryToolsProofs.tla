--------------------------- MODULE StoryToolsProofs ---------------------------
(***************************************************************************)
(* Proofs about StoryTools, and the operators of ResultFitting and         *)
(* EntityProposals it is built from, for every value of their constants.   *)
(*                                                                         *)
(* Rosters: whatever shortens a list puts one of its rows on its record.   *)
(* Pages: a page read is the text that follows the pages before it.        *)
(* The ceiling: what the last fallback of a tool's result guarantees.      *)
(* Proposals: as long as the writer leaves a row alone the change to it    *)
(* applies, and a name taken when it was proposed is not taken again.      *)
(* Edits: what the caller knows of the blocks is true of the revision it   *)
(* knows them of, so the blocks it addresses are the blocks there are.     *)
(***************************************************************************)
EXTENDS StoryTools, ChapterBlocksProofs

-----------------------------------------------------------------------------
(* The binary search.                                                      *)

Loops == [lo : Int, hi : Int, best : Int]

Probed(fits, loop) ==
    IF loop.lo > loop.hi THEN loop
    ELSE IF (loop.lo + loop.hi) \div 2 \in fits
         THEN [lo |-> (loop.lo + loop.hi) \div 2 + 1, hi |-> loop.hi,
               best |-> (loop.lo + loop.hi) \div 2]
    ELSE [lo |-> loop.lo, hi |-> (loop.lo + loop.hi) \div 2 - 1, best |-> loop.best]

(* The loop the search runs through. *)
Runs(f, fits, first, last, otherwise) ==
    /\ f \in [Nat -> Loops]
    /\ f[0] = [lo |-> first, hi |-> last, best |-> otherwise]
    /\ \A n \in Nat : f[n + 1] = Probed(fits, f[n])

(* A probe of the search leaves it as a loop.                             *)
LEMMA ProbedType ==
    ASSUME NEW fits, NEW loop \in Loops
    PROVE  Probed(fits, loop) \in Loops
<1>1. (loop.lo + loop.hi) \div 2 \in Int
  BY DEF Loops
<1>2. PICK mid \in Int : mid = (loop.lo + loop.hi) \div 2
  BY <1>1
<1> QED
  BY <1>2 DEF Probed, Loops

(* The search is its probe, taken as often as there are numbers.          *)
LEMMA BisectRuns ==
    ASSUME NEW fits, NEW first \in Int, NEW last \in Int, NEW otherwise \in Int
    PROVE  \E f : /\ Runs(f, fits, first, last, otherwise)
                  /\ Bisect(fits, first, last, otherwise) = f[Max({0, last - first + 1})].best
<1> DEFINE Start == [lo |-> first, hi |-> last, best |-> otherwise]
           Body(g) == [n \in Nat |-> IF n = 0 THEN Start ELSE Probed(fits, g[n - 1])]
           step == [x \in Nat \X Loops |-> Probed(fits, x[2])]
           L == CHOOSE g : g = Body(g)
<1>1. Start \in Loops
  BY DEF Loops
<1>2. step \in [Nat \X Loops -> Loops]
  BY ProbedType
<1>3. PICK f : Iterates(f, Loops, Start, step)
  <2> HIDE DEF Start, step
  <2> QED
    BY <1>1, <1>2, Recursion
<1>4. f = Body(f)
  <2>1. \A n \in Nat : n # 0 => f[n] = Probed(fits, f[n - 1])
    <3> TAKE n \in Nat
    <3> HAVE n # 0
    <3>1. n - 1 \in Nat /\ (n - 1) + 1 = n
      OBVIOUS
    <3>2. f[n] = step[<<n - 1, f[n - 1]>>]
      BY <1>3, <3>1 DEF Iterates
    <3> QED
      BY <1>3, <3>1, <3>2 DEF Iterates
  <2> HIDE DEF Start
  <2> QED
    BY <1>3, <2>1 DEF Iterates
<1>5. L = Body(L)
  <2> HIDE DEF Body
  <2> QED
    BY <1>4
<1>6. Runs(L, fits, first, last, otherwise)
  <2> HIDE DEF L
  <2>1. L[0] = Start /\ \A n \in Nat : L[n + 1] = Probed(fits, L[n])
    <3> HIDE DEF Start
    <3>1. \A n \in Nat : L[n] = IF n = 0 THEN Start ELSE Probed(fits, L[n - 1])
      BY <1>5
    <3> QED
      BY <3>1
  <2> DEFINE T == {n \in Nat : L[n] \in Loops}
  <2>2. Nat \subseteq T
    <3>1. 0 \in T
      BY <1>1, <2>1
    <3>2. \A n \in Nat : n \in T => n + 1 \in T
      BY <2>1, ProbedType
    <3> HIDE DEF T
    <3> QED
      BY <3>1, <3>2, Induction
  <2>3. L = [n \in Nat |-> L[n]]
    BY <1>5
  <2>4. L \in [Nat -> Loops]
    BY <2>2, <2>3
  <2> QED
    BY <2>1, <2>4 DEF Runs
<1>7. Bisect(fits, first, last, otherwise) = L[Max({0, last - first + 1})].best
  BY DEF Bisect, Probed
<1> QED
  BY <1>6, <1>7

(* What the loop has found out after n rounds: everything between the best *)
(* and lo has been probed or skipped, what is above hi does not fit, and   *)
(* every round leaves less to probe.                                       *)
Probing(loop, n, fits, first, last, otherwise) ==
    /\ loop.lo \in first .. loop.hi + 1 /\ loop.hi <= last
    /\ \/ loop.best = otherwise /\ loop.lo = first
       \/ loop.best = loop.lo - 1 /\ loop.best \in fits /\ loop.best >= first
    /\ loop.hi = last \/ loop.hi + 1 \notin fits
    /\ loop.lo > loop.hi \/ loop.hi - loop.lo <= last - first - n

(* A probe keeps what is known of the numbers it leaves aside.            *)
LEMMA ProbedProbing ==
    ASSUME NEW fits, NEW first \in Int, NEW last \in Int, NEW otherwise \in Int, NEW n \in Nat,
           NEW loop \in Loops, Probing(loop, n, fits, first, last, otherwise)
    PROVE  Probing(Probed(fits, loop), n + 1, fits, first, last, otherwise)
<1>1. loop.lo \in Int /\ loop.hi \in Int /\ loop.best \in Int
  BY DEF Loops
<1>2. CASE loop.lo > loop.hi
  BY <1>1, <1>2 DEF Probed, Probing
<1>3. CASE loop.lo <= loop.hi
  <2>1. PICK mid \in Int : mid = (loop.lo + loop.hi) \div 2
    BY <1>1
  <2>2. mid \in loop.lo .. loop.hi
    BY <1>1, <1>3, <2>1
  <2>3. CASE mid \in fits
    <3>1. Probed(fits, loop) = [lo |-> mid + 1, hi |-> loop.hi, best |-> mid]
      BY <1>1, <1>3, <2>1, <2>3 DEF Probed
    <3> QED
      BY <1>1, <1>3, <2>2, <2>3, <3>1 DEF Probing
  <2>4. CASE mid \notin fits
    <3>1. Probed(fits, loop) = [lo |-> loop.lo, hi |-> mid - 1, best |-> loop.best]
      BY <1>1, <1>3, <2>1, <2>4 DEF Probed
    <3> QED
      BY <1>1, <1>3, <2>2, <2>4, <3>1 DEF Probing
  <2> QED
    BY <2>3, <2>4
<1> QED
  BY <1>1, <1>2, <1>3

LEMMA MaxOfTwo ==
    ASSUME NEW a \in Int, NEW b \in Int
    PROVE  Max({a, b}) = IF a >= b THEN a ELSE b
<1>1. \E x \in {a, b} : \A y \in {a, b} : x >= y
  OBVIOUS
<1> QED
  BY <1>1 DEF Max

LEMMA MinOfTwo ==
    ASSUME NEW a \in Int, NEW b \in Int
    PROVE  Min({a, b}) = IF a <= b THEN a ELSE b
<1>1. \E x \in {a, b} : \A y \in {a, b} : x <= y
  OBVIOUS
<1> QED
  BY <1>1 DEF Min

(* The binary search of both fitters, for every set of numbers that fit:   *)
(* it returns one that does, or none; it finds one wherever the first one  *)
(* fits; and the greatest, where every smaller one fits too.               *)
THEOREM BisectFinds ==
    ASSUME NEW fits, NEW first \in Int, NEW last \in Int, NEW otherwise \in Int
    PROVE  LET found == Bisect(fits, first, last, otherwise) IN
           /\ found = otherwise \/ (found \in first .. last /\ found \in fits)
           /\ first <= last /\ first \in fits => found \in first .. last /\ found \in fits
           /\ (\A m, n \in first .. last : m <= n /\ n \in fits => m \in fits) /\ otherwise < first
                => \A n \in first .. last : n \in fits => n <= found
<1>1. PICK f : /\ Runs(f, fits, first, last, otherwise)
               /\ Bisect(fits, first, last, otherwise) = f[Max({0, last - first + 1})].best
  BY BisectRuns
<1>2. CASE first > last
  <2>1. Max({0, last - first + 1}) = 0
    BY <1>2, MaxOfTwo
  <2>2. Bisect(fits, first, last, otherwise) = otherwise
    BY <1>1, <2>1 DEF Runs
  <2> QED
    BY <1>2, <2>2
<1>3. CASE first <= last
  <2> DEFINE T == {n \in Nat : Probing(f[n], n, fits, first, last, otherwise)}
             N == last - first + 1
  <2>1. 0 \in T
    BY <1>1, <1>3 DEF Runs, Probing
  <2>2. \A n \in Nat : n \in T => n + 1 \in T
    BY <1>1, ProbedProbing DEF Runs
  <2>3. Nat \subseteq T
    <3> HIDE DEF T
    <3> QED
      BY <2>1, <2>2, Induction
  <2>4. N \in Nat /\ Max({0, N}) = N
    BY <1>3, MaxOfTwo
  <2>5. Probing(f[N], N, fits, first, last, otherwise)
    BY <2>3, <2>4
  <2>6. PICK loop \in Loops : loop = f[N]
    BY <1>1, <2>4 DEF Runs
  <2>7. Bisect(fits, first, last, otherwise) = loop.best
    BY <1>1, <2>4, <2>6
  <2>8. loop.lo \in Int /\ loop.hi \in Int /\ loop.best \in Int
    BY DEF Loops
  <2>9. /\ loop.lo = loop.hi + 1 /\ loop.lo >= first /\ loop.hi <= last
        /\ \/ loop.best = otherwise /\ loop.lo = first
           \/ loop.best = loop.lo - 1 /\ loop.best \in fits /\ loop.best >= first
        /\ loop.hi = last \/ loop.hi + 1 \notin fits
    BY <2>4, <2>5, <2>6, <2>8 DEF Probing
  <2> QED
    BY <1>3, <2>7, <2>8, <2>9
<1> QED
  BY <1>2, <1>3

-----------------------------------------------------------------------------
(* Rosters.                                                                *)

(* A result that is not told as cut is the result itself.                  *)
LEMMA FitKeepsWhatFits ==
    ASSUME NEW result
    PROVE  /\ Fit(result).truncated \in BOOLEAN
           /\ ~Fit(result).truncated => Fit(result).result = result
BY DEF Fit

(* A result that is not truncated has the rows it was given.              *)
LEMMA SizedKeepsRows ==
    ASSUME NEW tool, NEW n, NEW text
    PROVE  /\ Sized(tool, n, text).truncated \in BOOLEAN
           /\ ~Sized(tool, n, text).truncated => Sized(tool, n, text).result.rows = n
<1> DEFINE sized == [skeleton |-> Rosters[tool].skeleton, rows |-> n,
                     row |-> Rosters[tool].row, text |-> text]
<1>1. Sized(tool, n, text) = Fit(sized) /\ sized.rows = n
  BY DEF Sized
<1> HIDE DEF sized
<1> QED
  BY <1>1, FitKeepsWhatFits

(* So a tool's roster that is not truncated shows all there is.           *)
LEMMA FitsRowsTells ==
    ASSUME NEW tool, NEW count, NEW n, NEW cut \in BOOLEAN,
           ~FitsRows(tool, count, n, cut).truncated
    PROVE  /\ ~cut /\ FitsRows(tool, count, n, cut).shown = n
           /\ FitsRows(tool, count, n, cut).of = count
<1> DEFINE fitted == Sized(tool, n, Rosters[tool].text)
<1>1. FitsRows(tool, count, n, cut) =
        [tool |-> tool, of |-> count, shown |-> fitted.result.rows,
         truncated |-> (cut \/ fitted.truncated)]
  BY DEF FitsRows, Roster
<1>2. ~cut /\ ~fitted.truncated
  <2>1. fitted.truncated \in BOOLEAN
    BY SizedKeepsRows
  <2>2. PICK told2 \in BOOLEAN : told2 = (cut \/ fitted.truncated)
    OBVIOUS
  <2>3. ~told2
    <3> HIDE DEF fitted
    <3> QED
      BY <1>1, <2>2
  <2> HIDE DEF fitted
  <2> QED
    BY <2>1, <2>2, <2>3
<1>3. fitted.result.rows = n
  BY <1>2, SizedKeepsRows
<1> HIDE DEF fitted
<1> QED
  BY <1>1, <1>2, <1>3

(* And the inline context, which takes the first of what was fetched.     *)
LEMMA CapsTell ==
    ASSUME NEW count \in Nat
    PROVE  /\ CapsRows(count).truncated \in BOOLEAN
           /\ CapsRows(count).shown \in Nat
           /\ ~CapsRows(count).truncated => CapsRows(count).shown = count
<1>1. FetchLimit \in Nat
  BY ToolsAssumption
<1>2. PICK shown : shown = Min({count, FetchLimit})
  OBVIOUS
<1>3. shown \in Nat /\ (~(count > FetchLimit) => shown = count)
  BY <1>1, <1>2, MinOfTwo
<1>4. CASE count > FetchLimit
  <2>1. CapsRows(count) = [shown |-> shown, truncated |-> TRUE]
    BY <1>2, <1>4 DEF CapsRows
  <2> QED
    BY <1>3, <2>1
<1>5. CASE ~(count > FetchLimit)
  <2>1. (count > FetchLimit) = FALSE
    BY <1>5
  <2>2. CapsRows(count) = [shown |-> shown, truncated |-> FALSE]
    BY <1>2, <2>1, Zenon DEF CapsRows
  <2> QED
    BY <1>3, <1>5, <2>2
<1> QED
  BY <1>4, <1>5

(* And whichever tool shows that context.                                 *)
LEMMA CappedTells ==
    ASSUME NEW tool, NEW count \in Nat
    PROVE  LET capped == Roster(tool, count, CapsRows(count)) IN
           /\ capped.truncated \in BOOLEAN /\ capped.shown \in Nat /\ capped.of = count
           /\ ~capped.truncated => capped.shown = count
BY CapsTell DEF Roster

(* Whichever tool shows a roster, and by whichever of the limits it was    *)
(* cut.                                                                    *)
LEMMA EveryRosterTells ==
    ASSUME NEW count \in Nat, NEW roster, ~roster.truncated,
           \/ roster \in {Overview(count), ListsChapters(count)}
           \/ \E tool \in EntityTools : roster = ListsEntities(tool, count)
           \/ roster \in {FitsOverview(count), FitsEntity(count), FitsPassages(count)}
           \/ \E tool \in EntityTools : roster = FitsEntities(tool, count)
    PROVE  roster.shown = count /\ roster.of = count
<1>1. CASE \E tool : roster = Roster(tool, count, CapsRows(count))
  BY <1>1, CappedTells
<1>2. CASE roster = FitsOverview(count)
  <2>1. PICK capped : capped = Overview(count)
    OBVIOUS
  <2>2. capped.truncated \in BOOLEAN /\ (~capped.truncated => capped.shown = count)
    BY <2>1, CappedTells DEF Overview
  <2>3. roster = FitsRows("overview", count, capped.shown, capped.truncated)
    BY <1>2, <2>1 DEF FitsOverview
  <2> QED
    BY <2>2, <2>3, FitsRowsTells
<1>3. CASE roster = FitsEntity(count)
  <2>1. PICK cut \in BOOLEAN : cut = FALSE
    OBVIOUS
  <2>2. roster = FitsRows("entity", count, count, cut)
    BY <1>3, <2>1 DEF FitsEntity
  <2> QED
    BY <2>2, FitsRowsTells
<1>4. CASE roster = FitsPassages(count)
  <2>1. PICK text : roster = Roster("passages", count,
                      [shown |-> Sized("passages", count, text).result.rows,
                       truncated |-> Sized("passages", count, text).truncated])
    BY <1>4 DEF FitsPassages
  <2>2. /\ roster.of = count
        /\ roster.shown = Sized("passages", count, text).result.rows
        /\ roster.truncated = Sized("passages", count, text).truncated
    BY <2>1 DEF Roster
  <2> QED
    BY <2>2, SizedKeepsRows
<1>5. ASSUME NEW tool \in EntityTools, roster = FitsEntities(tool, count)
      PROVE  roster.shown = count /\ roster.of = count
  <2>1. PICK capped : capped = ListsEntities(tool, count)
    OBVIOUS
  <2>2. /\ capped.truncated \in BOOLEAN /\ capped.shown \in Nat
        /\ ~capped.truncated => capped.shown = count
    BY <2>1, CappedTells DEF ListsEntities
  <2>3. PICK asked : asked = Min({capped.shown, Rosters[tool].limit})
    OBVIOUS
  <2>4. Rosters[tool].limit \in Nat
    BY ToolsAssumption
  <2>5. asked \in Nat /\ (~(asked < capped.shown) => asked = capped.shown)
    BY <2>2, <2>3, <2>4, MinOfTwo
  <2>6. roster = FitsRows(tool, count, asked, capped.truncated \/ asked < capped.shown)
    BY <1>5, <2>1, <2>3 DEF FitsEntities
  <2>7. /\ ~(capped.truncated \/ asked < capped.shown)
        /\ roster.shown = asked /\ roster.of = count
    <3>1. PICK cut : cut = (capped.truncated \/ asked < capped.shown)
      OBVIOUS
    <3>2. cut \in BOOLEAN
      BY <3>1
    <3>3. roster = FitsRows(tool, count, asked, cut)
      BY <2>6, <3>1
    <3>4. ~cut /\ roster.shown = asked /\ roster.of = count
      BY <3>2, <3>3, FitsRowsTells
    <3> QED
      BY <3>1, <3>4
  <2> QED
    BY <2>2, <2>5, <2>7
<1> QED
  BY <1>1, <1>2, <1>3, <1>4, <1>5 DEF Overview, ListsChapters, ListsEntities

(* RosterNeverSilent, for every ceiling, ladder, limit and sizes of rows:  *)
(* a list that was cut by the fetch, by what the model asked for, or to    *)
(* fit the ceiling, says so (_fit, executors.py:182-226; data.py:78-88).   *)
THEOREM ToolsRosterNeverSilent == Spec => []RosterNeverSilent
<1>1. Init => RosterNeverSilent
  BY DEF Init, RosterNeverSilent, NoRoster
<1>2. RosterNeverSilent /\ [Next]_vars => RosterNeverSilent'
  <2> SUFFICES ASSUME RosterNeverSilent, [Next]_vars
               PROVE  RosterNeverSilent'
    OBVIOUS
  <2>1. CASE TellsRows
    <3>1. PICK count \in RowCounts : ListsRows(count) \/ ShowsRows(count)
      BY <2>1 DEF TellsRows
    <3>2. count \in Nat
      BY ToolsAssumption
    <3>3. ~told'.truncated => told'.shown = count /\ told'.of = count
      BY <3>1, <3>2, EveryRosterTells DEF ListsRows, ShowsRows
    <3> QED
      BY <3>2, <3>3 DEF RosterNeverSilent
  <2>2. CASE UNCHANGED told
    BY <2>2 DEF RosterNeverSilent
  <2> QED
    BY <2>1, <2>2 DEF Next, vars, ListsBlocks, EditsBlocks, AppendsText, FetchesPage,
       DeliversPage, SavesChapter, DeletesStory, WorksOnEntities
<1> QED
  BY <1>1, <1>2, PTL DEF Spec

-----------------------------------------------------------------------------
(* Pages.                                                                  *)

Tokens == [kind : DOMAIN CharWidth, tag : STRING]
Place(n, total) == IF n < total THEN n ELSE Done

(* Finitely many numbers have a bound.                                    *)
LEMMA FiniteBounded ==
    ASSUME NEW D, IsFiniteSet(D), NEW width \in [D -> Nat]
    PROVE  \E m \in Nat : \A x \in D : width[x] <= m
<1>1. PICK N \in Nat : ExistsBijection(1 .. N, D)
  BY FS_CardinalityType
<1>2. PICK f \in [1 .. N -> D] : \A x \in D : \E i \in 1 .. N : f[i] = x
  BY <1>1 DEF ExistsBijection, Bijection, Surjection
<1> DEFINE T == {n \in Nat : n <= N => \E m \in Nat : \A i \in 1 .. n : width[f[i]] <= m}
<1>3. 0 \in T
  OBVIOUS
<1>4. ASSUME NEW n \in Nat, n \in T
      PROVE  n + 1 \in T
  <2> SUFFICES ASSUME n + 1 <= N
               PROVE  \E m \in Nat : \A i \in 1 .. n + 1 : width[f[i]] <= m
    OBVIOUS
  <2>1. PICK m \in Nat : \A i \in 1 .. n : width[f[i]] <= m
    BY <1>4
  <2>2. \A i \in 1 .. n + 1 : width[f[i]] \in Nat
    BY <1>2
  <2>3. PICK k \in Nat : k >= m /\ k >= width[f[n + 1]]
    <3>1. n + 1 \in 1 .. n + 1
      OBVIOUS
    <3>2. PICK w \in Nat : w = width[f[n + 1]]
      BY <2>2, <3>1
    <3>3. m + w \in Nat /\ m + w >= m /\ m + w >= w
      OBVIOUS
    <3> QED
      BY <3>2, <3>3
  <2>4. \A i \in 1 .. n + 1 : width[f[i]] <= k
    <3> TAKE i \in 1 .. n + 1
    <3>1. CASE i = n + 1
      BY <2>3, <3>1
    <3>2. CASE i \in 1 .. n
      BY <2>1, <2>2, <2>3, <3>2
    <3> QED
      BY <3>1, <3>2
  <2> QED
    BY <2>4
<1>5. N \in T
  <2> HIDE DEF T
  <2> QED
    BY <1>3, <1>4, Induction
<1>6. PICK m \in Nat : \A i \in 1 .. N : width[f[i]] <= m
  BY <1>5
<1> QED
  BY <1>2, <1>6

(* The greatest of the widths a table gives is at least each of them.      *)
LEMMA WidestOf ==
    ASSUME NEW D, IsFiniteSet(D), NEW width \in [D -> Nat], NEW more \in SUBSET Nat,
           IsFiniteSet(more), NEW x \in D
    PROVE  LET widest == Max(more \union {width[y] : y \in D}) IN
           /\ widest \in Nat /\ width[x] <= widest /\ \A y \in more : y <= widest
<1>1. PICK m \in Nat : \A y \in D : width[y] <= m
  BY FiniteBounded
<1>2. PICK k \in Nat : \A y \in more : y <= k
  <2>1. [y \in more |-> y] \in [more -> Nat]
    OBVIOUS
  <2>2. PICK k \in Nat : \A y \in more : [z \in more |-> z][y] <= k
    BY <2>1, FiniteBounded
  <2> QED
    BY <2>2
<1> DEFINE S == more \union {width[y] : y \in D}
<1>3. S \subseteq Nat /\ S # {} /\ m + k \in Nat /\ \A s \in S : s <= m + k
  <2>1. \A y \in D : width[y] \in Nat /\ width[y] <= m + k
    BY <1>1
  <2>2. \A y \in more : y \in Nat /\ y <= m + k
    BY <1>2
  <2>3. \A s \in S : s \in more \/ \E y \in D : s = width[y]
    OBVIOUS
  <2>4. width[x] \in S /\ m + k \in Nat
    OBVIOUS
  <2>5. \A s \in S : s \in Nat /\ s <= m + k
    <3> HIDE DEF S
    <3> QED
      BY <2>1, <2>2, <2>3
  <2> HIDE DEF S
  <2> QED
    BY <2>4, <2>5
<1>4. Max(S) \in S /\ \A s \in S : s <= Max(S)
  <2> HIDE DEF S
  <2> QED
    BY <1>3, MaxOfBounded
<1>5. width[x] \in S /\ more \subseteq S
  OBVIOUS
<1> HIDE DEF S
<1>6. Max(S) \in Nat /\ width[x] <= Max(S) /\ \A y \in more : y <= Max(S)
  BY <1>3, <1>4, <1>5
<1> QED
  BY <1>6 DEF S

(* The room one character takes.                                           *)
LEMMA WidthOfOne ==
    ASSUME NEW token
    PROVE  TextWidth(<<token>>) = 0 + CharWidth[token.kind]
<1> DEFINE Body(g) == [n \in 0 .. 1 |-> IF n = 0 THEN 0 ELSE g[n - 1] + CharWidth[<<token>>[n].kind]]
           L == CHOOSE g : g = Body(g)
           f == [n \in 0 .. 1 |-> IF n = 0 THEN 0 ELSE 0 + CharWidth[token.kind]]
<1>1. f = Body(f)
  OBVIOUS
<1>2. L = Body(L)
  <2> HIDE DEF Body, f
  <2> QED
    BY <1>1
<1>3. L[0] = 0 /\ L[1] = L[0] + CharWidth[<<token>>[1].kind]
  <2> HIDE DEF L
  <2> QED
    BY <1>2
<1>4. TextWidth(<<token>>) = L[1]
  BY DEF TextWidth
<1> HIDE DEF L
<1> QED
  BY <1>3, <1>4

(* There is room for any one character behind so much else.                *)
Roomy(head) ==
    head + Max({CharWidth[kind] : kind \in DOMAIN CharWidth})
         + Max({NullWidth} \union {OffsetWidth[n] : n \in DOMAIN OffsetWidth})
      <= MaxResultChars

(* The page of a chapter that is shown: what was fetched from an offset,   *)
(* or as much of it as fits, and where the next page starts.               *)
ShowsPiece(window, head, text, offset, total) ==
    \E shown \in 0 .. Len(text) :
       /\ window.text = SubSeq(text, 1, shown)
       /\ window.next = Place(offset + shown, total)
       /\ text # <<>> /\ Roomy(head) => shown >= 1

(* A window shows the piece of the text at its offset.                    *)
LEMMA WindowShows ==
    ASSUME NEW head \in Nat, NEW text \in Seq(Tokens), NEW offset \in Nat, NEW total \in Nat,
           offset + Len(text) <= total, 0 .. total \subseteq DOMAIN OffsetWidth
    PROVE  ShowsPiece(FitChapterWindow(head, text, offset, total), head, text, offset, total)
<1> DEFINE NextPlace(n) == IF offset + n < total THEN offset + n ELSE Done
           Width(n) == head + TextWidth(SubSeq(text, 1, n))
                         + IF NextPlace(n) = Done THEN NullWidth ELSE OffsetWidth[NextPlace(n)]
           fits == {n \in DOMAIN text : Width(n) <= MaxResultChars}
           found == Bisect(fits, 1, Len(text) - 1, 0)
           shown == IF Width(Len(text)) <= MaxResultChars THEN Len(text) ELSE found
<1>1. Len(text) \in Nat /\ DOMAIN text = 1 .. Len(text)
  OBVIOUS
<1>2. /\ found = 0 \/ found \in 1 .. Len(text) - 1
      /\ 1 <= Len(text) - 1 /\ 1 \in fits => found \in 1 .. Len(text) - 1
  <2> HIDE DEF fits
  <2> QED
    BY <1>1, BisectFinds
<1>3. shown \in 0 .. Len(text)
  <2> HIDE DEF found, Width
  <2> QED
    BY <1>1, <1>2
<1>4. /\ FitChapterWindow(head, text, offset, total).text = SubSeq(text, 1, shown)
      /\ FitChapterWindow(head, text, offset, total).next = NextPlace(shown)
  BY DEF FitChapterWindow
<1>5. ASSUME text # <<>>, Roomy(head)
      PROVE  shown >= 1
  <2>1. Len(text) >= 1 /\ text[1] \in Tokens
    BY <1>5
  <2>2. SubSeq(text, 1, 1) = <<text[1]>>
    <3>1. SubSeq(text, 1, 1) = <<text[1]>> \o SubSeq(text, 2, 1)
      <4>1. 1 \in 1 .. Len(text) /\ 1 \in 1 .. Len(text)
        BY <2>1
      <4> QED
        BY <4>1, SubSeqRecursiveFirst
    <3>2. SubSeq(text, 2, 1) = <<>>
      BY SubSeqEmpty
    <3> QED
      BY <2>1, <3>1, <3>2
  <2>3. PICK char \in Nat : TextWidth(SubSeq(text, 1, 1)) = char
                            /\ char <= Max({CharWidth[kind] : kind \in DOMAIN CharWidth})
                            /\ Max({CharWidth[kind] : kind \in DOMAIN CharWidth}) \in Nat
    <3>1. text[1].kind \in DOMAIN CharWidth
      BY <2>1 DEF Tokens
    <3>2. CharWidth \in [DOMAIN CharWidth -> Nat] /\ IsFiniteSet(DOMAIN CharWidth)
      BY PagesAssumption
    <3>3. CharWidth[text[1].kind] \in Nat
      BY <3>1, <3>2
    <3>4. {} \in SUBSET Nat /\ IsFiniteSet({})
      BY FS_EmptySet
    <3>5. {} \union {CharWidth[kind] : kind \in DOMAIN CharWidth}
            = {CharWidth[kind] : kind \in DOMAIN CharWidth}
      OBVIOUS
    <3>6. LET widest == Max({} \union {CharWidth[kind] : kind \in DOMAIN CharWidth}) IN
          widest \in Nat /\ CharWidth[text[1].kind] <= widest
      BY <3>1, <3>2, <3>4, WidestOf
    <3>7. TextWidth(SubSeq(text, 1, 1)) = CharWidth[text[1].kind]
      <4>1. TextWidth(<<text[1]>>) = 0 + CharWidth[text[1].kind]
        BY WidthOfOne
      <4>2. TextWidth(SubSeq(text, 1, 1)) = TextWidth(<<text[1]>>)
        BY <2>2, Zenon
      <4> QED
        BY <3>3, <4>1, <4>2
    <3> QED
      BY <3>3, <3>5, <3>6, <3>7
  <2>4. PICK place \in Nat :
            /\ place = IF NextPlace(1) = Done THEN NullWidth ELSE OffsetWidth[NextPlace(1)]
            /\ place <= Max({NullWidth} \union {OffsetWidth[n] : n \in DOMAIN OffsetWidth})
            /\ Max({NullWidth} \union {OffsetWidth[n] : n \in DOMAIN OffsetWidth}) \in Nat
    <3>1. /\ OffsetWidth \in [DOMAIN OffsetWidth -> Nat] /\ IsFiniteSet(DOMAIN OffsetWidth)
          /\ NullWidth \in Nat
      BY PagesAssumption
    <3>2. {NullWidth} \in SUBSET Nat /\ IsFiniteSet({NullWidth})
      BY <3>1, FS_Singleton
    <3>3. 0 \in DOMAIN OffsetWidth
      OBVIOUS
    <3>4. \A n \in DOMAIN OffsetWidth :
            LET widest == Max({NullWidth} \union {OffsetWidth[y] : y \in DOMAIN OffsetWidth}) IN
            widest \in Nat /\ OffsetWidth[n] <= widest /\ NullWidth <= widest
      BY <3>1, <3>2, WidestOf
    <3>5. NextPlace(1) # Done => NextPlace(1) \in DOMAIN OffsetWidth
      BY <2>1
    <3>6. CASE NextPlace(1) = Done
      BY <3>1, <3>3, <3>4, <3>6
    <3>7. CASE NextPlace(1) # Done
      <4> HIDE DEF NextPlace
      <4> QED
        BY <3>1, <3>4, <3>5, <3>7
    <3> QED
      BY <3>6, <3>7
  <2>5. Width(1) = head + char + place
    <3> HIDE DEF NextPlace
    <3> QED
      BY <2>3, <2>4
  <2>6. MaxResultChars \in Nat
    BY PagesAssumption
  <2>7. Width(1) <= MaxResultChars
    <3> HIDE DEF Width, NextPlace
    <3> QED
      BY <1>5, <2>3, <2>4, <2>5, <2>6 DEF Roomy
  <2>8. 1 \in fits
    <3> HIDE DEF Width
    <3> QED
      BY <1>1, <2>1, <2>7
  <2>9. CASE Len(text) = 1
    <3>1. Width(Len(text)) <= MaxResultChars
      BY <2>7, <2>9
    <3> HIDE DEF Width, found
    <3> QED
      BY <2>1, <3>1
  <2>10. CASE Len(text) # 1
    <3> HIDE DEF Width, found, fits
    <3> QED
      BY <1>1, <1>2, <2>1, <2>8, <2>10
  <2> QED
    BY <2>9, <2>10
<1>6. NextPlace(shown) = Place(offset + shown, total)
  BY DEF Place
<1> HIDE DEF shown
<1> QED
  BY <1>3, <1>4, <1>5, <1>6 DEF ShowsPiece

-----------------------------------------------------------------------------
(* Reading page by page.                                                   *)

(* The chapter is read in loads in which only the writer changes it; what  *)
(* the writer may save is any sequence of tokens, so that an edit by the   *)
(* tools is one of the writer's saves to a reader.                         *)
ReadersOnly == \A what \in Loads : {"read", "edit"} \subseteq what => FALSE

Saved == [content : Contents, title : DOMAIN Titles, by : {"writer"}, base : Nat,
          meant : {<<>>}]

(* What has been read so far is the beginning of one edition.              *)
ReadSoFar ==
    reading = NoReading \/
    /\ reading = [revision |-> reading.revision, text |-> reading.text, next |-> reading.next]
    /\ reading.revision \in 1 .. Revision
    /\ reading.next = Done \/ reading.next \in 0 .. Len(editions[reading.revision].content)
    /\ Tiles

(* The page fetched is a piece of one edition, from the start or from      *)
(* where the reader was told to go on.                                     *)
Piece(content, offset, end) ==
    SubSeq(content, offset + 1, IF end <= Len(content) THEN end ELSE Len(content))

PageOf(content) ==
    \E end \in Nat :
       /\ end >= page.offset /\ (page.tool = "get_chapter" => end > page.offset)
       /\ page.text = Piece(content, page.offset, end)
       /\ page.next = Place(end, Len(content))

Fetched ==
    page = NoPage \/
    /\ page.tool \in ReadTools
    /\ page.revision \in 1 .. Revision
    /\ page.offset \in Nat /\ page.offset \in {0, reading.next}
    /\ PageOf(editions[page.revision].content)

ReadInv ==
    /\ load \in Loads
    /\ "read" \in load => editions \in Seq(Saved) /\ editions # <<>> /\ ReadSoFar /\ Fetched
    /\ "read" \notin load => page = NoPage

(* What every edition holds.                                              *)
LEMMA ContentOf ==
    ASSUME editions \in Seq(Saved), NEW r \in 1 .. Revision
    PROVE  /\ editions[r] \in Saved /\ editions[r].content \in Seq(Tokens)
           /\ Len(editions[r].content) \in Nat
           /\ 0 .. Len(editions[r].content) \subseteq DOMAIN OffsetWidth
           /\ Titles[editions[r].title] \in Nat
<1>1. editions[r] \in Saved
  BY DEF Revision
<1>2. editions[r].content \in Contents /\ editions[r].title \in DOMAIN Titles
  BY <1>1 DEF Saved
<1>3. Contents \subseteq Seq(Tokens) /\ \A content \in Contents : 0 .. Len(content) \subseteq DOMAIN OffsetWidth
  BY PagesAssumption DEF Tokens
<1>4. Titles[editions[r].title] \in Nat
  <2>1. Titles \in [DOMAIN Titles -> Nat]
    BY PagesAssumption
  <2> QED
    BY <1>2, <2>1
<1> QED
  BY <1>1, <1>2, <1>3, <1>4

(* Initially nothing has been read.                                       *)
LEMMA ReadStart ==
    ASSUME ReadersOnly, Init
    PROVE  ReadInv
<1>1. CASE "read" \in load
  <2>1. ContentsFor(load) = Contents /\ TitlesFor(load) = DOMAIN Titles
    BY <1>1 DEF ContentsFor, TitlesFor
  <2>2. PICK content \in Contents, title \in DOMAIN Titles :
            editions = <<Edition(content, title, "writer", 0, <<>>)>>
    BY <2>1 DEF Init
  <2>3. Edition(content, title, "writer", 0, <<>>) \in Saved
    BY DEF Edition, Saved
  <2>4. editions \in Seq(Saved) /\ editions # <<>>
    <3> HIDE DEF Saved
    <3> QED
      BY <2>2, <2>3
  <2> QED
    BY <1>1, <2>4 DEF Init, ReadInv, ReadSoFar, Fetched
<1> QED
  BY <1>1 DEF Init, ReadInv

(* A save leaves every edition before it where it was.                     *)
LEMMA SavesKeep ==
    ASSUME ReadInv, ReadersOnly, SavesChapter
    PROVE  ReadInv'
<1>1. CASE "read" \in load
  <2>1. PICK content \in Contents, title \in DOMAIN Titles :
            editions' = Append(editions, Edition(content, title, "writer", Revision, <<>>))
    BY <1>1 DEF SavesChapter, Stores, TitlesFor
  <2>2. editions \in Seq(Saved) /\ Revision \in Nat
    BY <1>1 DEF ReadInv, Revision
  <2>3. Edition(content, title, "writer", Revision, <<>>) \in Saved
    BY <2>2 DEF Edition, Saved
  <2>4. /\ editions' \in Seq(Saved) /\ editions' # <<>> /\ Revision' = Revision + 1
        /\ \A r \in 1 .. Revision : editions'[r] = editions[r]
    <3> HIDE DEF Saved
    <3> QED
      BY <2>1, <2>2, <2>3 DEF Revision
  <2>5. UNCHANGED <<reading, page, load>>
    BY DEF SavesChapter, readVars
  <2>6. ReadSoFar'
    <3>1. CASE reading = NoReading
      BY <2>5, <3>1 DEF ReadSoFar
    <3>2. CASE reading # NoReading
      <4>1. ReadSoFar /\ reading.revision \in 1 .. Revision
        BY <1>1, <3>2 DEF ReadInv, ReadSoFar
      <4>2. /\ reading' = reading /\ reading.revision \in 1 .. Revision'
            /\ editions'[reading.revision] = editions[reading.revision]
        BY <2>2, <2>4, <2>5, <4>1
      <4>3. Tiles'
        BY <3>2, <4>1, <4>2 DEF ReadSoFar, Tiles
      <4> QED
        BY <3>2, <4>1, <4>2, <4>3 DEF ReadSoFar
    <3> QED
      BY <3>1, <3>2
  <2>7. Fetched'
    <3>1. CASE page = NoPage
      BY <2>5, <3>1 DEF Fetched
    <3>2. CASE page # NoPage
      <4>1. /\ page.tool \in ReadTools /\ page.revision \in 1 .. Revision
            /\ page.offset \in Nat /\ page.offset \in {0, reading.next}
            /\ PageOf(editions[page.revision].content)
        BY <1>1, <3>2 DEF ReadInv, Fetched
      <4>2. editions'[page.revision].content = editions[page.revision].content
        BY <2>4, <4>1
      <4>3. PageOf(editions[page.revision].content)'
        BY <2>5, <4>1, <4>2 DEF PageOf
      <4>4. page'.revision \in 1 .. Revision'
        BY <2>2, <2>4, <2>5, <4>1
      <4> QED
        BY <2>5, <4>1, <4>3, <4>4 DEF Fetched
    <3> QED
      BY <3>1, <3>2
  <2> QED
    BY <1>1, <2>4, <2>5, <2>6, <2>7 DEF ReadInv
<1>2. CASE "read" \notin load
  BY <1>2 DEF ReadInv, SavesChapter, readVars
<1> QED
  BY <1>1, <1>2

(* A page is fetched: a piece of the edition there is.                    *)
LEMMA FetchKeeps ==
    ASSUME ReadInv, FetchesPage
    PROVE  ReadInv'
<1>1. "read" \in load /\ page = NoPage
  BY DEF FetchesPage
<1>2. editions \in Seq(Saved) /\ editions # <<>> /\ ReadSoFar /\ Revision \in Nat
  BY <1>1 DEF ReadInv, Revision
<1>3. Revision \in 1 .. Revision /\ editions[Revision] = Last(editions)
  BY <1>2 DEF Revision, Last
<1>4. PICK tool \in ReadTools, max \in WindowSizes, offset \in {0, reading.next} \ {Done} :
         page' = [tool |-> tool, revision |-> Revision, offset |-> offset,
                  text |-> SubSeq(Content, offset + 1,
                                  Min({offset + Window(tool, max), Len(Content)})),
                  next |-> IF offset + Window(tool, max) < Len(Content)
                           THEN offset + Window(tool, max) ELSE Done]
  BY DEF FetchesPage
<1>5. Content = editions[Revision].content /\ Len(Content) \in Nat
  BY <1>2, <1>3, ContentOf DEF Content
<1>6. offset \in Nat
  <2>1. reading = NoReading \/ reading.next = Done \/ reading.next \in Nat
    <3>1. CASE reading # NoReading
      <4>1. reading.revision \in 1 .. Revision
        BY <1>2, <3>1 DEF ReadSoFar
      <4>2. Len(editions[reading.revision].content) \in Nat
        BY <1>2, <4>1, ContentOf
      <4> QED
        BY <1>2, <3>1, <4>2 DEF ReadSoFar
    <3> QED
      BY <3>1
  <2> QED
    BY <2>1 DEF NoReading
<1>7. PICK width \in Nat : /\ Window(tool, max) = width
                           /\ tool = "get_chapter" => width >= 1
  <2>1. max \in Nat \ {0} /\ MaxResultChars \in Nat
    BY PagesAssumption
  <2>2. Min({max, MaxResultChars}) \in Nat
    BY <2>1, MinOfTwo
  <2> QED
    BY <2>1, <2>2 DEF Window
<1>8. PICK end \in Nat : end = offset + width
  BY <1>6
<1>9. /\ page'.tool = tool /\ page'.revision = Revision /\ page'.offset = offset
      /\ page'.text = Piece(Content, offset, end)
      /\ page'.next = Place(end, Len(Content))
  <2>1. Min({end, Len(Content)}) = IF end <= Len(Content) THEN end ELSE Len(Content)
    BY <1>5, MinOfTwo
  <2>2. page' = [tool |-> tool, revision |-> Revision, offset |-> offset,
                 text |-> SubSeq(Content, offset + 1, Min({end, Len(Content)})),
                 next |-> IF end < Len(Content) THEN end ELSE Done]
    BY <1>4, <1>7, <1>8
  <2> QED
    BY <2>1, <2>2 DEF Piece, Place
<1>10. UNCHANGED <<editions, reading, load>>
  BY DEF FetchesPage, chapterVars
<1>11. Fetched'
  <2>1. end >= offset /\ (tool = "get_chapter" => end > offset)
    BY <1>6, <1>7, <1>8
  <2>2. PageOf(editions[page.revision].content)'
    <3>1. editions'[page'.revision].content = Content
      BY <1>5, <1>9, <1>10
    <3> QED
      BY <1>9, <2>1, <3>1 DEF PageOf, Piece, Place
  <2>3. page'.revision \in 1 .. Revision'
    BY <1>3, <1>9, <1>10 DEF Revision
  <2> QED
    BY <1>4, <1>6, <1>9, <1>10, <2>2, <2>3 DEF Fetched
<1>12. ReadSoFar'
  BY <1>2, <1>10 DEF ReadSoFar, Tiles, Revision
<1> QED
  BY <1>1, <1>2, <1>10, <1>11, <1>12 DEF ReadInv

(* What a page shows is the next part of the edition it was fetched from,  *)
(* and the place it names is where that part ends.                         *)
LEMMA PageShows ==
    ASSUME ReadersOnly, "read" \in load, ReadInv, page # NoPage,
           NEW content, content = editions[page.revision].content,
           page.offset <= Len(content)
    PROVE  \E e \in page.offset .. Len(content) :
              /\ Shown.text = SubSeq(content, page.offset + 1, e)
              /\ Shown.next = Place(e, Len(content))
              /\ HasRoom /\ page.text # <<>> => e > page.offset
<1>1. /\ editions \in Seq(Saved) /\ page.tool \in ReadTools
      /\ page.revision \in 1 .. Revision /\ page.offset \in Nat
      /\ PageOf(content)
  BY DEF ReadInv, Fetched
<1>2. /\ content \in Seq(Tokens) /\ Len(content) \in Nat
      /\ 0 .. Len(content) \subseteq DOMAIN OffsetWidth
      /\ Titles[editions[page.revision].title] \in Nat
  BY <1>1, ContentOf
<1>3. PICK end \in Nat :
        /\ end >= page.offset /\ (page.tool = "get_chapter" => end > page.offset)
        /\ page.text = Piece(content, page.offset, end)
        /\ page.next = Place(end, Len(content))
  BY <1>1 DEF PageOf
<1>4. PICK offset \in Nat : offset = page.offset
  BY <1>1
<1>5. PICK last \in offset .. Len(content) :
         last = IF end <= Len(content) THEN end ELSE Len(content)
  BY <1>2, <1>3, <1>4
<1>6. page.text = SubSeq(content, offset + 1, last)
  BY <1>3, <1>4, <1>5 DEF Piece
<1>7. page.text \in Seq(Tokens) /\ Len(page.text) = last - offset
  <2>1. \A i \in offset + 1 .. last : content[i] \in Tokens
    BY <1>2, <1>5
  <2>2. offset + 1 \in Int /\ last \in Int
    BY <1>5
  <2>3. /\ SubSeq(content, offset + 1, last) \in Seq(Tokens)
        /\ Len(SubSeq(content, offset + 1, last))
             = IF offset + 1 <= last THEN last - (offset + 1) + 1 ELSE 0
    <3> HIDE DEF Tokens
    <3> QED
      BY <2>1, <2>2, SubSeqProperties
  <2> QED
    BY <1>5, <1>6, <2>2, <2>3
<1>8. CASE page.tool = "get_chapter"
  <2>1. Shown.text = page.text /\ Shown.next = page.next
    BY <1>8 DEF Shown
  <2>2. page.next = Place(last, Len(content))
    BY <1>2, <1>3, <1>5 DEF Place
  <2>3. page.text # <<>> => last > offset
    BY <1>2, <1>4, <1>5, <1>7
  <2> QED
    BY <1>4, <1>5, <1>6, <2>1, <2>2, <2>3
<1>9. CASE page.tool = "read_chapter"
  <2> DEFINE head == Titles[editions[page.revision].title]
  <2>1. Shown = FitChapterWindow(head, page.text, offset, Len(content))
    BY <1>4, <1>9 DEF Shown, Fitted
  <2>2. offset + Len(page.text) <= Len(content)
    BY <1>2, <1>5, <1>7
  <2>3. PICK shown \in 0 .. Len(page.text) :
          /\ Shown.text = SubSeq(page.text, 1, shown)
          /\ Shown.next = Place(offset + shown, Len(content))
          /\ page.text # <<>> /\ Roomy(head) => shown >= 1
    <3>1. PICK room \in Nat : room = head
      BY <1>2
    <3> HIDE DEF head, Tokens
    <3>2. PICK total \in Nat : total = Len(content)
      BY <1>2
    <3>3. PICK text \in Seq(Tokens) : text = page.text
      BY <1>7
    <3>4. offset + Len(text) <= total /\ 0 .. total \subseteq DOMAIN OffsetWidth
      BY <1>2, <2>2, <3>2, <3>3
    <3>5. Shown = FitChapterWindow(room, text, offset, total)
      BY <2>1, <3>1, <3>2, <3>3
    <3>6. ShowsPiece(Shown, room, text, offset, total)
      BY <1>4, <3>1, <3>2, <3>3, <3>4, <3>5, WindowShows
    <3> QED
      BY <3>1, <3>2, <3>3, <3>6 DEF ShowsPiece
  <2>4. offset + shown \in offset .. Len(content) /\ shown \in Nat
    BY <1>2, <1>5, <1>7, <2>3
  <2>5. Shown.text = SubSeq(content, offset + 1, offset + shown)
    <3>1. CASE shown = 0
      <4>1. SubSeq(page.text, 1, shown) = <<>>
        BY <3>1, SubSeqEmpty
      <4>2. SubSeq(content, offset + 1, offset + shown) = <<>>
        BY <3>1, SubSeqEmpty
      <4> QED
        BY <2>3, <4>1, <4>2
    <3>2. CASE shown # 0
      <4>1. /\ offset + 1 \in 1 .. Len(content) /\ last \in 1 .. Len(content)
            /\ 1 \in 1 .. last - (offset + 1) + 1 /\ shown \in 1 .. last - (offset + 1) + 1
        BY <1>2, <1>5, <1>7, <2>3, <3>2
      <4>2. SubSeq(SubSeq(content, offset + 1, last), 1, shown)
              = SubSeq(content, (offset + 1) + 1 - 1, (offset + 1) + shown - 1)
        BY <1>2, <1>6, <1>7, <4>1, SubSeqOfSubSeq
      <4>3. (offset + 1) + 1 - 1 = offset + 1 /\ (offset + 1) + shown - 1 = offset + shown
        BY <2>4
      <4> QED
        BY <1>6, <2>3, <4>2, <4>3
    <3> QED
      BY <3>1, <3>2
  <2>6. HasRoom /\ page.text # <<>> => offset + shown > offset
    BY <1>9, <2>3, <2>4 DEF HasRoom, Roomy
  <2> QED
    BY <1>4, <2>3, <2>4, <2>5, <2>6
<1> QED
  BY <1>1, <1>8, <1>9 DEF ReadTools

(* A page is delivered: it follows those before it, or starts anew.       *)
LEMMA DeliveryTiles ==
    ASSUME ReadersOnly, ReadInv, DeliversPage
    PROVE  /\ ReadInv'
           /\ there => /\ Tiles'
                       /\ HasRoom /\ page.text # <<>> /\ reading'.revision = page.revision
                          => reading'.next = Done \/ reading'.next > page.offset
<1>1. page # NoPage /\ page' = NoPage /\ "read" \in load
  BY DEF DeliversPage, ReadInv
<1>2. UNCHANGED <<there, editions, load>>
  BY DEF DeliversPage, chapterVars
<1>3. /\ editions \in Seq(Saved) /\ editions # <<>> /\ ReadSoFar /\ Revision \in Nat
      /\ page.revision \in 1 .. Revision
      /\ page.offset \in Nat /\ page.offset \in {0, reading.next}
  BY <1>1 DEF ReadInv, Fetched, Revision
<1> PICK content : content = editions[page.revision].content
  OBVIOUS
<1>4. content \in Seq(Tokens) /\ Len(content) \in Nat
  BY <1>3, ContentOf
<1>5. ASSUME ReadSoFar',
             there => /\ Tiles'
                      /\ HasRoom /\ page.text # <<>> /\ reading'.revision = page.revision
                         => reading'.next = Done \/ reading'.next > page.offset
      PROVE  /\ ReadInv'
             /\ there => /\ Tiles'
                         /\ HasRoom /\ page.text # <<>> /\ reading'.revision = page.revision
                            => reading'.next = Done \/ reading'.next > page.offset
  BY <1>1, <1>2, <1>3, <1>5 DEF ReadInv, Fetched
<1>6. ASSUME NEW e \in page.offset .. Len(content),
             reading' = [revision |-> reading'.revision, text |-> reading'.text,
                         next |-> reading'.next],
             reading'.revision = page.revision,
             reading'.text = SubSeq(content, 1, e),
             reading'.next = Place(e, Len(content)),
             HasRoom /\ page.text # <<>> => e > page.offset
      PROVE  /\ ReadSoFar' /\ Tiles'
             /\ HasRoom /\ page.text # <<>>
                => reading'.next = Done \/ reading'.next > page.offset
  <2>1. e \in 0 .. Len(content) /\ e \in Nat
    BY <1>3, <1>4
  <2>2. reading'.next = Done \/ reading'.next = e
    BY <1>6 DEF Place
  <2>3. (IF reading'.next = Done THEN Len(content) ELSE reading'.next) = e
    BY <1>4, <1>6, <2>1 DEF Place, Done
  <2>4. editions'[reading'.revision].content = content
    BY <1>2, <1>6
  <2>5. Tiles'
    BY <1>6, <2>3, <2>4 DEF Tiles
  <2>6. ReadSoFar'
    BY <1>2, <1>3, <1>6, <2>1, <2>2, <2>4, <2>5 DEF ReadSoFar, Revision
  <2> QED
    BY <1>6, <2>2, <2>5, <2>6
<1>7. CASE ~there
  <2>1. reading' = reading
    BY <1>7 DEF DeliversPage
  <2>2. ReadSoFar'
    BY <1>2, <1>3, <2>1 DEF ReadSoFar, Tiles, Revision
  <2> QED
    BY <1>5, <1>7, <2>2
<1>8. CASE there /\ page.offset = 0
  <2>1. reading' = [revision |-> page.revision, text |-> Shown.text, next |-> Shown.next]
    BY <1>8 DEF DeliversPage
  <2>2. PICK e \in page.offset .. Len(content) :
           /\ Shown.text = SubSeq(content, page.offset + 1, e)
           /\ Shown.next = Place(e, Len(content))
           /\ HasRoom /\ page.text # <<>> => e > page.offset
    <3>1. page.offset <= Len(content)
      BY <1>4, <1>8
    <3> QED
      BY <1>1, <3>1, PageShows
  <2>3. /\ reading'.text = SubSeq(content, 1, e) /\ reading'.next = Place(e, Len(content))
        /\ reading'.revision = page.revision
        /\ reading' = [revision |-> reading'.revision, text |-> reading'.text,
                       next |-> reading'.next]
    BY <1>8, <2>1, <2>2
  <2> QED
    BY <1>5, <1>6, <2>2, <2>3
<1>9. CASE there /\ page.offset # 0 /\ page.revision = reading.revision
  <2>1. /\ reading' = [reading EXCEPT !.text = reading.text \o Shown.text, !.next = Shown.next]
        /\ page.offset = reading.next /\ reading # NoReading
    BY <1>3, <1>9 DEF DeliversPage, NoReading
  <2>2. page.offset \in 1 .. Len(content) /\ page.offset # Done
    BY <1>3, <1>4, <1>9, <2>1 DEF ReadSoFar, Done
  <2>3. reading.text = SubSeq(content, 1, page.offset)
    BY <1>3, <1>9, <2>1, <2>2 DEF ReadSoFar, Tiles
  <2>4. PICK e \in page.offset .. Len(content) :
           /\ Shown.text = SubSeq(content, page.offset + 1, e)
           /\ Shown.next = Place(e, Len(content))
           /\ HasRoom /\ page.text # <<>> => e > page.offset
    <3>1. page.offset <= Len(content)
      BY <1>4, <2>2
    <3> QED
      BY <1>1, <3>1, PageShows
  <2>5. SubSeq(content, 1, page.offset) \o SubSeq(content, page.offset + 1, e)
          = SubSeq(content, 1, e)
    <3>1. /\ 1 \in 1 .. Len(content) + 1 /\ page.offset \in 1 - 1 .. Len(content)
          /\ e \in page.offset .. Len(content)
      BY <1>4, <2>2, <2>4
    <3> QED
      BY <1>4, <3>1, ConcatAdjacentSubSeq
  <2>6. reading' = [revision |-> reading.revision, text |-> reading.text \o Shown.text,
                    next |-> Shown.next]
    <3>1. reading = [revision |-> reading.revision, text |-> reading.text,
                     next |-> reading.next]
      BY <1>3, <2>1 DEF ReadSoFar
    <3>2. PICK revision, text, next :
             reading = [revision |-> revision, text |-> text, next |-> next]
      BY <3>1
    <3> QED
      BY <2>1, <3>2
  <2>7. /\ reading'.text = SubSeq(content, 1, e) /\ reading'.next = Place(e, Len(content))
        /\ reading'.revision = page.revision
        /\ reading' = [revision |-> reading'.revision, text |-> reading'.text,
                       next |-> reading'.next]
    BY <1>9, <2>3, <2>4, <2>5, <2>6
  <2> QED
    BY <1>5, <1>6, <2>4, <2>7
<1>10. CASE there /\ page.offset # 0 /\ page.revision # reading.revision
  <2>1. reading' = NoReading
    BY <1>10 DEF DeliversPage
  <2>2. reading'.revision # page.revision /\ reading'.revision = 0
    BY <1>3, <2>1 DEF NoReading
  <2>3. ReadSoFar' /\ Tiles'
    BY <2>1, <2>2 DEF ReadSoFar, Tiles, NoReading
  <2> QED
    BY <1>5, <2>2, <2>3
<1> QED
  BY <1>7, <1>8, <1>9, <1>10

(* Every step keeps what has been read as ReadInv has it.                 *)
LEMMA ReadStep ==
    ASSUME ReadersOnly, ReadInv, [Next]_vars
    PROVE  ReadInv'
<1>1. CASE SavesChapter
  BY <1>1, SavesKeep
<1>2. CASE FetchesPage
  BY <1>2, FetchKeeps
<1>3. CASE DeliversPage
  BY <1>3, DeliveryTiles
<1>4. CASE EditsBlocks \/ AppendsText
  <2>1. "edit" \in load /\ UNCHANGED <<page, load>>
    BY <1>4 DEF EditsBlocks, AppendsText, readVars
  <2>2. "read" \notin load
    BY <2>1 DEF ReadersOnly, ReadInv
  <2> QED
    BY <2>1, <2>2 DEF ReadInv
<1>5. CASE UNCHANGED <<editions, reading, page, load>>
  BY <1>5 DEF ReadInv, ReadSoFar, Fetched, PageOf, Tiles, Revision
<1>6. CASE ListsBlocks \/ TellsRows \/ DeletesStory \/ WorksOnEntities \/ UNCHANGED vars
  BY <1>5, <1>6 DEF ListsBlocks, TellsRows, DeletesStory, WorksOnEntities, vars, chapterVars,
     readVars
<1> QED
  BY <1>1, <1>2, <1>3, <1>4, <1>6 DEF Next

(* PagesTile, for every chapter, ceiling, widths and window: what has been *)
(* read is the beginning of one edition without a gap or an overlap, and   *)
(* where a result has room for a character every page goes further         *)
(* (_fit_chapter_window, executors.py:235-283; get_chapter, tools.py).     *)
THEOREM ToolsPagesTile ==
    ASSUME ReadersOnly
    PROVE  Spec => PagesTile
<1>1. Init => ReadInv
  BY ReadStart
<1>2. ReadInv /\ [Next]_vars => ReadInv'
  BY ReadStep
<1>3. ReadInv /\ [Next]_vars =>
        [page # NoPage /\ page' = NoPage /\ there =>
           /\ Tiles'
           /\ HasRoom /\ page.text # <<>> /\ reading'.revision = page.revision
              => reading'.next = Done \/ reading'.next > page.offset]_vars
  <2> SUFFICES ASSUME ReadInv, [Next]_vars, page # NoPage, page' = NoPage, there
               PROVE  /\ Tiles'
                      /\ HasRoom /\ page.text # <<>> /\ reading'.revision = page.revision
                         => reading'.next = Done \/ reading'.next > page.offset
    OBVIOUS
  <2>1. DeliversPage
    BY DEF Next, vars, ListsBlocks, EditsBlocks, AppendsText, FetchesPage, TellsRows,
       SavesChapter, DeletesStory, WorksOnEntities, readVars
  <2> QED
    BY <2>1, DeliveryTiles
<1> QED
  BY <1>1, <1>2, <1>3, PTL DEF Spec, PagesTile

-----------------------------------------------------------------------------
(* Results under their ceiling.                                            *)

Sizes == [skeleton : Nat, rows : Nat, row : Nat, text : Nat]

(* A clipped result has no more rows and no longer texts.                 *)
LEMMA Clipped ==
    ASSUME NEW result \in Sizes, NEW width \in Nat, NEW items \in Nat, Ellipsis \in Nat
    PROVE  /\ Clip(result, width, items) =
                [skeleton |-> result.skeleton,
                 rows |-> IF result.rows <= items THEN result.rows ELSE items,
                 row |-> result.row,
                 text |-> IF result.text <= width THEN result.text ELSE width + Ellipsis]
           /\ Clip(result, width, items) \in Sizes
<1>1. Min({result.rows, items}) = IF result.rows <= items THEN result.rows ELSE items
  BY MinOfTwo DEF Sizes
<1>2. Clip(result, width, items) =
        [skeleton |-> result.skeleton,
         rows |-> IF result.rows <= items THEN result.rows ELSE items,
         row |-> result.row,
         text |-> IF result.text <= width THEN result.text ELSE width + Ellipsis]
  BY <1>1 DEF Clip
<1> QED
  BY <1>2 DEF Sizes

(* And one that is marked as truncated differs in its frame only.         *)
LEMMA Marked ==
    ASSUME NEW result \in Sizes, Ellipsis \in Nat, Mark \in Nat, MaxResultChars \in Nat
    PROVE  [Clip(result, MaxResultChars, result.rows) EXCEPT !.skeleton = result.skeleton + Mark]
             = [skeleton |-> result.skeleton + Mark, rows |-> result.rows, row |-> result.row,
                text |-> IF result.text <= MaxResultChars THEN result.text
                         ELSE MaxResultChars + Ellipsis]
<1>1. result.rows \in Nat
  BY DEF Sizes
<1>2. Clip(result, MaxResultChars, result.rows) =
        [skeleton |-> result.skeleton, rows |-> result.rows, row |-> result.row,
         text |-> IF result.text <= MaxResultChars THEN result.text
                  ELSE MaxResultChars + Ellipsis]
  BY <1>1, Clipped
<1> QED
  BY <1>2

(* The ladder of rows to show starts with all there are.                  *)
LEMMA RowsFirst ==
    ASSUME NEW n \in Nat, NEW ladder \in Seq(Nat)
    PROVE  /\ DOMAIN (<<n>> \o ladder) \subseteq Nat /\ 1 \in DOMAIN (<<n>> \o ladder)
           /\ (<<n>> \o ladder)[1] = n
           /\ \A k \in DOMAIN (<<n>> \o ladder) : k >= 1 /\ (<<n>> \o ladder)[k] \in Nat
<1>1. <<n>> \in Seq(Nat) /\ Len(<<n>>) = 1 /\ <<n>>[1] = n
  OBVIOUS
<1> DEFINE s == <<n>> \o ladder
<1>2. /\ s \in Seq(Nat) /\ Len(s) = 1 + Len(ladder) /\ s[1] = <<n>>[1]
  <2> PICK one \in Seq(Nat) : one = <<n>>
    BY <1>1
  <2> QED
    BY <1>1, ConcatProperties
<1> HIDE DEF s
<1>3. Len(ladder) \in Nat /\ DOMAIN s = 1 .. Len(s) /\ \A k \in DOMAIN s : s[k] \in Nat
  BY <1>2
<1>4. /\ DOMAIN s \subseteq Nat /\ 1 \in DOMAIN s /\ s[1] = n
      /\ \A k \in DOMAIN s : k >= 1 /\ s[k] \in Nat
  BY <1>1, <1>2, <1>3
<1> QED
  BY <1>4 DEF s

(* "Guaranteed, not best-effort" (_fit, executors.py:182): a result of any *)
(* size is shown within the ceiling if its bare frame is; and none of its  *)
(* rows is left out where their keys alone would fit.                      *)
THEOREM FitHoldsCeiling ==
    ASSUME NEW result \in Sizes, Mark \in Nat, Ellipsis \in Nat,
           result.skeleton + Mark <= MaxResultChars, ItemLadder \in Seq(Nat)
    PROVE  LET shown == Fit(result).result
               bare  == [skeleton |-> result.skeleton + Mark, rows |-> result.rows,
                         row |-> result.row,
                         text |-> IF result.text = 0 THEN 0 ELSE Ellipsis]
           IN /\ Encoded(shown) <= MaxResultChars
              /\ Encoded(bare) <= MaxResultChars => shown.rows = result.rows
<1> DEFINE ladder == <<result.rows>> \o ItemLadder
           marked == [Clip(result, MaxResultChars, result.rows)
                        EXCEPT !.skeleton = result.skeleton + Mark]
           Holds(items, width) == Encoded(Clip(marked, width, items)) <= MaxResultChars
           fits(items) == {width \in 0 .. MaxResultChars : Holds(items, width)}
           found(items) == Bisect(fits(items), 0, MaxResultChars, 0)
           steps == {k \in DOMAIN ladder : Holds(ladder[k], 0)}
           bare  == [skeleton |-> result.skeleton + Mark, rows |-> result.rows,
                     row |-> result.row, text |-> IF result.text = 0 THEN 0 ELSE Ellipsis]
           shown == Fit(result).result
<1> SUFFICES /\ Encoded(shown) <= MaxResultChars
             /\ Encoded(bare) <= MaxResultChars => shown.rows = result.rows
  OBVIOUS
<1>1. MaxResultChars \in Nat /\ result.rows \in Nat /\ result.row \in Nat
      /\ result.text \in Nat /\ result.skeleton \in Nat
  BY PagesAssumption DEF Sizes
<1>2. CASE Encoded(result) <= MaxResultChars
  <2>1. shown = result
    BY <1>2 DEF Fit
  <2> QED
    BY <1>2, <2>1
<1>3. CASE ~(Encoded(result) <= MaxResultChars)
  <2>1. shown = IF steps # {} THEN Clip(marked, found(ladder[Min(steps)]), ladder[Min(steps)])
                ELSE [marked EXCEPT !.rows = 0]
    BY <1>3 DEF Fit
  <2>2. marked = [skeleton |-> result.skeleton + Mark, rows |-> result.rows, row |-> result.row,
                  text |-> IF result.text <= MaxResultChars THEN result.text
                           ELSE MaxResultChars + Ellipsis]
    BY <1>1, Marked
  <2>3. marked \in Sizes
    BY <1>1, <2>2 DEF Sizes
  <2>4. DOMAIN ladder \subseteq Nat /\ 1 \in DOMAIN ladder /\ ladder[1] = result.rows
        /\ \A k \in DOMAIN ladder : k >= 1 /\ ladder[k] \in Nat
    BY <1>1, RowsFirst
  <2>5. ASSUME NEW items \in Nat, Holds(items, 0)
        PROVE  found(items) \in 0 .. MaxResultChars /\ Holds(items, found(items))
    <3>1. 0 \in fits(items) /\ 0 <= MaxResultChars
      BY <1>1, <2>5
    <3>2. found(items) \in 0 .. MaxResultChars /\ found(items) \in fits(items)
      <4> HIDE DEF fits
      <4> QED
        BY <1>1, <3>1, BisectFinds
    <3> HIDE DEF found, Holds
    <3> QED
      BY <3>2
  <2>6. Clip(marked, 0, result.rows) = bare
    <3>1. Clip(marked, 0, result.rows)
            = [skeleton |-> marked.skeleton, rows |-> marked.rows, row |-> marked.row,
               text |-> IF marked.text <= 0 THEN marked.text ELSE 0 + Ellipsis]
      <4>1. marked.rows = result.rows
        BY <2>2
      <4> HIDE DEF marked
      <4> QED
        BY <1>1, <2>3, <4>1, Clipped
    <3>2. (IF marked.text <= 0 THEN marked.text ELSE 0 + Ellipsis)
            = IF result.text = 0 THEN 0 ELSE Ellipsis
      <4> HIDE DEF marked
      <4> QED
        BY <1>1, <2>2
    <3> HIDE DEF marked
    <3> QED
      BY <2>2, <3>1, <3>2
  <2>7. CASE steps = {}
    <3>1. shown = [skeleton |-> result.skeleton + Mark, rows |-> 0, row |-> result.row,
                   text |-> marked.text]
      <4> HIDE DEF steps, found, shown, ladder
      <4> QED
        BY <2>1, <2>2, <2>7
    <3>2. marked.text \in Nat
      BY <2>3 DEF Sizes
    <3>3. Encoded(shown) <= MaxResultChars
      <4>1. PICK size \in Nat : size = result.row + marked.text
        BY <1>1, <3>2
      <4>2. Encoded(shown) = (result.skeleton + Mark) + 0 * size
        <5> HIDE DEF shown, marked
        <5> QED
          BY <3>1, <4>1 DEF Encoded
      <4>3. 0 * size = 0
        OBVIOUS
      <4> HIDE DEF shown, marked
      <4> QED
        BY <1>1, <4>2, <4>3
    <3>4. ~(Encoded(bare) <= MaxResultChars)
      <4>1. ~Holds(result.rows, 0)
        BY <2>4, <2>7
      <4> HIDE DEF marked, bare
      <4> QED
        BY <2>6, <4>1
    <3> HIDE DEF shown, bare
    <3> QED
      BY <3>3, <3>4
  <2>8. CASE steps # {}
    <3>1. Min(steps) \in steps /\ \A k \in steps : Min(steps) <= k
      <4>1. steps \subseteq Nat
        BY <2>4
      <4> HIDE DEF steps
      <4> QED
        BY <2>8, <4>1, MinOf
    <3>2. PICK items \in Nat : items = ladder[Min(steps)]
      BY <2>4, <3>1
    <3>3. Holds(items, 0)
      BY <3>1, <3>2
    <3>4. found(items) \in 0 .. MaxResultChars /\ Holds(items, found(items))
      <4> HIDE DEF found, Holds
      <4> QED
        BY <2>5, <3>3
    <3>5. shown = Clip(marked, found(items), items)
      <4> HIDE DEF found, marked, steps, ladder, shown
      <4> QED
        BY <2>1, <2>8, <3>2
    <3>6. Encoded(shown) <= MaxResultChars
      BY <3>4, <3>5
    <3>7. ASSUME Encoded(bare) <= MaxResultChars
          PROVE  shown.rows = result.rows
      <4>2. 1 \in steps
        <5>1. Holds(result.rows, 0)
          BY <2>6, <3>7
        <5> HIDE DEF Holds
        <5> QED
          BY <2>4, <5>1
      <4>3. Min(steps) = 1 /\ items = result.rows
        <5>1. Min(steps) \in DOMAIN ladder
          BY <3>1
        <5> HIDE DEF steps, ladder
        <5> QED
          BY <2>4, <3>1, <3>2, <4>2, <5>1
      <4>4. PICK width \in Nat : width = found(items)
        <5> HIDE DEF found
        <5> QED
          BY <1>1, <3>4
      <4>5. shown = Clip(marked, width, result.rows) /\ marked.rows = result.rows
        BY <2>2, <3>5, <4>3, <4>4
      <4> HIDE DEF marked, shown, bare
      <4>6. Clip(marked, width, result.rows)
              = [skeleton |-> marked.skeleton,
                 rows |-> IF marked.rows <= result.rows THEN marked.rows ELSE result.rows,
                 row |-> marked.row,
                 text |-> IF marked.text <= width THEN marked.text ELSE width + Ellipsis]
        BY <1>1, <2>3, <4>4, Clipped
      <4> QED
        BY <1>1, <4>5, <4>6
    <3> HIDE DEF shown, bare
    <3> QED
      BY <3>6, <3>7
  <2> QED
    BY <2>7, <2>8
<1> QED
  BY <1>2, <1>3

-----------------------------------------------------------------------------
(* Proposals.                                                              *)

List(s) == \E T : s \in Seq(T)

SeenRows == UNION {proposal.seen[c] : c \in DOMAIN proposal.seen}
Free == NewIds \ {row.id : row \in rows}

(* A row the proposals created that nobody has changed since.              *)
Fresh(row) == row.id \in NewIds /\ row.revision = 1
Alike(row, other) == row.kind = other.kind /\ row.line = other.line /\ row.name = other.name

RowsInv ==
    /\ \A row \in rows : row.revision \in Nat \ {0}
    /\ \A row, other \in rows \union SeenRows : row.id = other.id => row.kind = other.kind
    /\ \A row \in SeenRows : row.id \in NewIds => \E now \in rows : now.id = row.id
    /\ \A row, other \in rows : Fresh(row) /\ Fresh(other) /\ Alike(row, other) => row = other

(* What has been read is still so, unless the writer has changed it since. *)
Snapshot ==
    \A c \in DOMAIN proposal.seen :
       /\ \A row \in proposal.seen[c] : row.id \notin meddled => row \in rows
       /\ \A row \in rows : Collection(row.kind) = c /\ Fresh(row) => row \in proposal.seen[c]

(* A change not yet applied can be, unless the writer has changed its row. *)
StillApplies(change) ==
    /\ change.op \in {"create", "update"}
    /\ change.op = "create" => \A row \in rows : Fresh(row) => ~Alike(row, change)
    /\ change.op # "create" =>
          /\ Collection(change.kind) \in DOMAIN proposal.seen
          /\ \E row \in proposal.seen[Collection(change.kind)] :
                row.id = change.ref /\ row.kind = change.kind
          /\ change.ref \notin meddled => Succeeds(change)

Pending ==
    \A i \in DOMAIN proposal.changes :
       i > Len(proposal.results) => StillApplies(proposal.changes[i])

ShapeInv ==
    /\ proposal = [at |-> proposal.at, draft |-> proposal.draft, seen |-> proposal.seen,
                   changes |-> proposal.changes, results |-> proposal.results]
    /\ proposal.at \in {"none", "binding", "shown", "settled"}
    /\ List(proposal.changes) /\ List(proposal.results)
    /\ proposal.at = "none" => proposal = NoProposal
    /\ \A c \in DOMAIN proposal.seen : \A row \in proposal.seen[c] : Collection(row.kind) = c

BindingInv ==
    proposal.at = "binding" =>
      /\ proposal.draft \in Drafts /\ proposal.results = <<>>
      /\ Len(proposal.changes) < Len(proposal.draft)
      /\ Len(proposal.draft) <= Cardinality(Free)
      /\ Snapshot /\ Pending

ShownInv ==
    proposal.at = "shown" =>
      /\ Len(proposal.results) < Len(proposal.changes)
      /\ Len(proposal.changes) - Len(proposal.results) <= Cardinality(Free)
      /\ Distinct(proposal.changes) /\ Pending

StaleInv ==
    \A i \in DOMAIN proposal.results :
       proposal.results[i] = "stale" => proposal.changes[i].ref \in meddled

EntityInv == RowsInv /\ ShapeInv /\ BindingInv /\ ShownInv /\ StaleInv

(* The verdicts after a change that applied.                              *)
LEMMA ListAppend ==
    ASSUME NEW s, List(s), NEW x
    PROVE  /\ List(Append(s, x)) /\ Len(s) \in Nat /\ Len(Append(s, x)) = Len(s) + 1
           /\ DOMAIN s = 1 .. Len(s) /\ DOMAIN Append(s, x) = 1 .. Len(s) + 1
           /\ \A i \in 1 .. Len(s) : Append(s, x)[i] = s[i]
           /\ Append(s, x)[Len(s) + 1] = x
<1>1. PICK T : s \in Seq(T)
  BY DEF List
<1>2. s \in Seq(T \union {x}) /\ x \in T \union {x}
  <2>1. T \subseteq T \union {x}
    OBVIOUS
  <2> QED
    BY <1>1, <2>1, SeqMonotonic
<1>3. /\ Append(s, x) \in Seq(T \union {x})
      /\ Len(Append(s, x)) = Len(s) + 1
      /\ \A i \in 1 .. Len(s) : Append(s, x)[i] = s[i]
      /\ Append(s, x)[Len(s) + 1] = x
  BY <1>2, AppendProperties
<1>4. /\ Len(s) \in Nat /\ DOMAIN s = 1 .. Len(s)
      /\ DOMAIN Append(s, x) = 1 .. Len(Append(s, x))
  BY <1>2, <1>3, LenProperties
<1> QED
  BY <1>3, <1>4 DEF List

(* The verdicts after a change that failed: the rest is skipped.           *)
SkipsRest(s, x, y, m) == (s \o <<x>>) \o [i \in 1 .. m |-> y]

(* One verdict says the change failed, the others that it was skipped.    *)
LEMMA ListSkips ==
    ASSUME NEW s, List(s), NEW x, NEW y, NEW m \in Nat
    PROVE  /\ List(SkipsRest(s, x, y, m))
           /\ DOMAIN SkipsRest(s, x, y, m) = 1 .. Len(s) + 1 + m
           /\ \A i \in 1 .. Len(s) : SkipsRest(s, x, y, m)[i] = s[i]
           /\ SkipsRest(s, x, y, m)[Len(s) + 1] = x
           /\ \A i \in Len(s) + 2 .. Len(s) + 1 + m : SkipsRest(s, x, y, m)[i] = y
<1> DEFINE rest == [i \in 1 .. m |-> y]
           all  == (s \o <<x>>) \o rest
<1>1. PICK T : s \in Seq(T)
  BY DEF List
<1> DEFINE U == T \union {x, y}
<1>2. s \in Seq(U) /\ <<x>> \in Seq(U) /\ rest \in Seq(U) /\ Len(rest) = m
      /\ Len(<<x>>) = 1 /\ Len(s) \in Nat
  <2>1. T \subseteq U /\ x \in U /\ y \in U
    OBVIOUS
  <2>2. s \in Seq(U)
    BY <1>1, <2>1, SeqMonotonic
  <2>3. rest \in Seq(U) /\ Len(rest) = m
    <3> HIDE DEF U
    <3> QED
      BY <2>1
  <2>4. <<x>> \in Seq(U) /\ Len(<<x>>) = 1
    <3> HIDE DEF U
    <3> QED
      BY <2>1
  <2>5. Len(s) \in Nat
    BY <1>1
  <2> HIDE DEF U, rest
  <2> QED
    BY <2>2, <2>3, <2>4, <2>5
<1>3. /\ s \o <<x>> \in Seq(U) /\ Len(s \o <<x>>) = Len(s) + 1
      /\ \A i \in 1 .. Len(s) + 1 : (s \o <<x>>)[i] = IF i <= Len(s) THEN s[i] ELSE <<x>>[i - Len(s)]
  <2> HIDE DEF U
  <2> QED
    BY <1>2, ConcatProperties
<1>4. /\ all \in Seq(U) /\ Len(all) = Len(s) + 1 + m
      /\ \A i \in 1 .. Len(s) + 1 + m :
            all[i] = IF i <= Len(s) + 1 THEN (s \o <<x>>)[i] ELSE rest[i - (Len(s) + 1)]
  <2>1. PICK first \in Seq(U) : first = s \o <<x>>
    BY <1>3
  <2>2. PICK last \in Seq(U) : last = rest
    BY <1>2
  <2>3. /\ first \o last \in Seq(U) /\ Len(first \o last) = Len(first) + Len(last)
        /\ \A i \in 1 .. Len(first) + Len(last) :
              (first \o last)[i] = IF i <= Len(first) THEN first[i] ELSE last[i - Len(first)]
    <3> HIDE DEF U
    <3> QED
      BY <2>1, <2>2, ConcatProperties
  <2>4. all = first \o last /\ Len(first) = Len(s) + 1 /\ Len(last) = m
    BY <1>2, <1>3, <2>1, <2>2
  <2> HIDE DEF U, rest, all
  <2> QED
    BY <2>1, <2>2, <2>3, <2>4
<1>5. \A i \in 1 .. Len(s) : all[i] = s[i]
  <2> HIDE DEF all, rest
  <2> QED
    BY <1>2, <1>3, <1>4
<1>6. all[Len(s) + 1] = x
  <2>1. (s \o <<x>>)[Len(s) + 1] = <<x>>[1]
    BY <1>2, <1>3
  <2> HIDE DEF all, rest
  <2> QED
    BY <1>2, <1>4, <2>1
<1>7. ASSUME NEW i \in Len(s) + 2 .. Len(s) + 1 + m
      PROVE  all[i] = y
  <2>1. i - (Len(s) + 1) \in 1 .. m /\ i \in 1 .. Len(s) + 1 + m /\ ~(i <= Len(s) + 1)
    BY <1>2
  <2>2. all[i] = rest[i - (Len(s) + 1)]
    <3> HIDE DEF all, rest
    <3> QED
      BY <1>4, <2>1
  <2> HIDE DEF all
  <2> QED
    BY <2>1, <2>2
<1>8. List(all) /\ DOMAIN all = 1 .. Len(s) + 1 + m
  <2> HIDE DEF all, U
  <2> QED
    BY <1>4 DEF List
<1>9. SkipsRest(s, x, y, m) = all
  BY DEF SkipsRest
<1> HIDE DEF all
<1> QED
  BY <1>5, <1>6, <1>7, <1>8, <1>9

LEMMA RoomFor ==
    ASSUME NEW a \in Nat, NEW b \in Nat, NEW c \in Nat, a < b, b - a <= c
    PROVE  c # 0
OBVIOUS

(* Initially nothing is proposed.                                         *)
LEMMA EntityStart ==
    ASSUME EntitiesInit
    PROVE  EntityInv
<1>1. rows \in Story /\ proposal = NoProposal
  BY DEF EntitiesInit
<1>2. /\ proposal.at = "none" /\ proposal.seen = <<>>
      /\ proposal.changes = <<>> /\ proposal.results = <<>>
  BY <1>1 DEF NoProposal
<1>3. DOMAIN proposal.seen = {} /\ DOMAIN proposal.results = {} /\ SeenRows = {}
  BY <1>2 DEF SeenRows
<1>4. RowsInv
  BY <1>1, <1>3, EntitiesAssumption DEF RowsInv, Fresh
<1>5. ShapeInv
  <2>1. List(<<>>)
    BY EmptySeq DEF List
  <2> QED
    BY <1>1, <1>2, <1>3, <2>1 DEF ShapeInv, NoProposal
<1> QED
  BY <1>2, <1>3, <1>4, <1>5 DEF EntityInv, BindingInv, ShownInv, StaleInv

(* What nothing of a proposal leaves behind.                               *)
LEMMA NothingProposed ==
    ASSUME EntityInv, proposal' = NoProposal, rows' = rows
    PROVE  EntityInv'
<1>1. /\ proposal'.at = "none" /\ proposal'.seen = <<>>
      /\ proposal'.changes = <<>> /\ proposal'.results = <<>>
  BY DEF NoProposal
<1>2. DOMAIN proposal'.seen = {} /\ DOMAIN proposal'.results = {} /\ SeenRows' = {}
  BY <1>1 DEF SeenRows
<1>3. RowsInv'
  BY <1>2 DEF EntityInv, RowsInv, Fresh, Alike
<1>4. ShapeInv'
  <2>1. List(<<>>)
    BY EmptySeq DEF List
  <2> QED
    BY <1>1, <1>2, <2>1 DEF ShapeInv, NoProposal
<1> QED
  BY <1>1, <1>2, <1>3, <1>4 DEF EntityInv, BindingInv, ShownInv, StaleInv

(* The model drafts a proposal.                                           *)
LEMMA ProposesKeeps ==
    ASSUME EntityInv, Proposes
    PROVE  EntityInv'
<1>1. PICK draft \in Drafts :
        /\ proposal.at = "none" /\ Len(draft) <= Cardinality(NewIds \ {row.id : row \in rows})
        /\ proposal' = [NoProposal EXCEPT !.at = "binding", !.draft = draft]
        /\ meddled' = {} /\ rows' = rows
  BY DEF Proposes
<1>2. /\ proposal' = [at |-> "binding", draft |-> draft, seen |-> <<>>, changes |-> <<>>,
                      results |-> <<>>]
  BY <1>1 DEF NoProposal
<1>3. DOMAIN proposal'.seen = {} /\ DOMAIN proposal'.results = {} /\ SeenRows' = {}
      /\ DOMAIN proposal'.changes = {}
  BY <1>2 DEF SeenRows
<1>4. RowsInv'
  BY <1>1, <1>3 DEF EntityInv, RowsInv, Fresh, Alike
<1>5. ShapeInv'
  <2>1. List(<<>>)
    BY EmptySeq DEF List
  <2> QED
    BY <1>2, <1>3, <2>1 DEF ShapeInv, NoProposal
<1>6. BindingInv'
  <2>1. Len(draft) \in Nat \ {0} /\ Len(<<>>) = 0
    BY EntitiesAssumption, EmptySeq
  <2>2. Free' = NewIds \ {row.id : row \in rows}
    BY <1>1 DEF Free
  <2>3. Snapshot' /\ Pending'
    BY <1>3 DEF Snapshot, Pending
  <2>4. /\ proposal'.draft = draft /\ proposal'.results = <<>> /\ proposal'.changes = <<>>
    BY <1>2
  <2>5. Len(draft) <= Cardinality(Free')
    BY <1>1, <2>2
  <2>6. Len(proposal'.changes) < Len(proposal'.draft)
    BY <2>1, <2>4
  <2> QED
    BY <2>3, <2>4, <2>5, <2>6 DEF BindingInv
<1> QED
  BY <1>2, <1>3, <1>4, <1>5, <1>6 DEF EntityInv, ShownInv, StaleInv

(* A roster read: its rows are as they are now, and of a collection that   *)
(* none of the changes bound so far is about.                              *)
LEMMA ReadsRosterKeeps ==
    ASSUME EntityInv, ReadsRoster
    PROVE  EntityInv'
<1>1. PICK collection \in Needs(Current) \ DOMAIN proposal.seen :
        /\ proposal' = [proposal EXCEPT !.seen =
                          [c \in DOMAIN proposal.seen \union {collection} |->
                             IF c = collection THEN Holding(c) ELSE proposal.seen[c]]]
        /\ meddled' = meddled \ {row.id : row \in Holding(collection)}
  BY DEF ReadsRoster
<1>2. proposal.at = "binding" /\ rows' = rows
  BY DEF ReadsRoster, Binding
<1> DEFINE seen == proposal.seen
           seen2 == [c \in DOMAIN seen \union {collection} |->
                       IF c = collection THEN Holding(c) ELSE seen[c]]
<1>3. proposal' = [at |-> proposal.at, draft |-> proposal.draft, seen |-> seen2,
                   changes |-> proposal.changes, results |-> proposal.results]
  <2>1. PICK at, draft, s, changes, results :
           proposal = [at |-> at, draft |-> draft, seen |-> s, changes |-> changes,
                       results |-> results]
    BY DEF EntityInv, ShapeInv
  <2>2. proposal' = [proposal EXCEPT !.seen = seen2]
    BY <1>1
  <2> HIDE DEF seen2
  <2> QED
    BY <2>1, <2>2
<1>4. /\ proposal'.at = proposal.at /\ proposal'.draft = proposal.draft /\ proposal'.seen = seen2
      /\ proposal'.changes = proposal.changes /\ proposal'.results = proposal.results
  <2> HIDE DEF seen2
  <2> QED
    BY <1>3
<1>5. /\ DOMAIN proposal'.seen = DOMAIN seen \union {collection}
      /\ \A c \in DOMAIN seen : proposal'.seen[c] = seen[c]
      /\ proposal'.seen[collection] = Holding(collection)
      /\ collection \notin DOMAIN seen
  BY <1>1, <1>4
<1> HIDE DEF seen2
<1>6. Holding(collection) \subseteq rows /\ \A row \in Holding(collection) : Collection(row.kind) = collection
  BY DEF Holding
<1>7. SeenRows' \subseteq SeenRows \union rows
  BY <1>5, <1>6 DEF SeenRows
<1>8. RowsInv'
  BY <1>2, <1>7 DEF EntityInv, RowsInv, Fresh, Alike
<1>9. ShapeInv'
  BY <1>2, <1>3, <1>4, <1>5, <1>6 DEF EntityInv, ShapeInv
(* No row seen before, and no row a change was bound to, is of the roster. *)
<1>10. ASSUME NEW c \in DOMAIN seen, NEW row \in seen[c]
       PROVE  row.id \notin {other.id : other \in Holding(collection)}
  <2> SUFFICES ASSUME NEW other \in Holding(collection), other.id = row.id
               PROVE  FALSE
    OBVIOUS
  <2>1. row \in rows \union SeenRows /\ other \in rows \union SeenRows
    BY <1>6 DEF SeenRows
  <2>2. row.kind = other.kind
    BY <2>1 DEF EntityInv, RowsInv
  <2>3. Collection(row.kind) = c
    BY DEF EntityInv, ShapeInv
  <2> QED
    BY <1>5, <1>6, <2>2, <2>3
<1>11. Snapshot'
  <2>1. Snapshot
    BY <1>2 DEF EntityInv, BindingInv
  <2>2. ASSUME NEW c \in DOMAIN seen
        PROVE  /\ \A row \in seen[c] : row.id \notin meddled' => row \in rows
               /\ \A row \in rows : Collection(row.kind) = c /\ Fresh(row) => row \in seen[c]
    <3>1. \A row \in seen[c] : row.id \notin meddled' => row.id \notin meddled
      BY <1>1, <1>10
    <3> QED
      BY <2>1, <3>1 DEF Snapshot
  <2>3. /\ \A row \in Holding(collection) : row \in rows
        /\ \A row \in rows : Collection(row.kind) = collection => row \in Holding(collection)
    BY DEF Holding
  <2> QED
    BY <1>2, <1>5, <2>2, <2>3 DEF Snapshot, Fresh
<1>12. Pending'
  <2>1. ASSUME NEW change, StillApplies(change)
        PROVE  StillApplies(change)'
    <3>1. CASE change.op = "create"
      <4>1. \A row \in rows : Fresh(row) => ~Alike(row, change)
        BY <2>1, <3>1 DEF StillApplies
      <4> QED
        BY <1>2, <3>1, <4>1 DEF StillApplies, Fresh, Alike
    <3>2. CASE change.op # "create"
      <4>1. /\ Collection(change.kind) \in DOMAIN seen
            /\ change.ref \notin meddled => Succeeds(change)
        BY <2>1, <3>2 DEF StillApplies
      <4>2. PICK row \in seen[Collection(change.kind)] :
               row.id = change.ref /\ row.kind = change.kind
        BY <2>1, <3>2 DEF StillApplies
      <4>3. change.ref \notin meddled' => change.ref \notin meddled
        BY <1>1, <1>10, <4>1, <4>2
      <4>4. Succeeds(change) => Succeeds(change)'
        BY <1>2 DEF Succeeds
      <4>5. row \in proposal'.seen[Collection(change.kind)]
            /\ Collection(change.kind) \in DOMAIN proposal'.seen
        BY <1>5, <4>1, <4>2
      <4> QED
        BY <2>1, <3>2, <4>1, <4>2, <4>3, <4>4, <4>5 DEF StillApplies
    <3> QED
      BY <3>1, <3>2
  <2>2. Pending
    BY <1>2 DEF EntityInv, BindingInv
  <2> QED
    BY <1>4, <2>1, <2>2 DEF Pending
<1>13. BindingInv'
  BY <1>2, <1>4, <1>11, <1>12 DEF EntityInv, BindingInv, Free
<1>14. ShownInv' /\ StaleInv'
  <2>1. DOMAIN proposal'.results = {}
    BY <1>2, <1>4 DEF EntityInv, BindingInv
  <2> QED
    BY <1>2, <1>4, <2>1 DEF ShownInv, StaleInv
<1> QED
  BY <1>8, <1>9, <1>13, <1>14 DEF EntityInv

(* What is bound can be applied: an update names a row as it was read, a   *)
(* creation a name that no row made before has.                            *)
LEMMA BoundApplies ==
    ASSUME EntityInv, Binding, NEW change, Needs(change) \subseteq DOMAIN proposal.seen,
           NEW known, known = UNION {proposal.seen[c] : c \in Needs(change)},
           Bindable(change, known), change.op \in {"create", "update"},
           NEW bound, bound = Bound(change, known)
    PROVE  StillApplies(bound)
<1>1. Snapshot
  BY DEF Binding, EntityInv, BindingInv
<1>2. /\ bound.op = change.op /\ bound.kind = change.kind /\ bound.name = change.name
      /\ bound.line = IF change.kind = "event" THEN LineOf(change, known) ELSE NoId
  BY DEF Bound
<1>3. Collection(change.kind) \in Needs(change) /\ Collection(change.kind) \in DOMAIN proposal.seen
  BY DEF Needs
<1>4. CASE change.op = "create"
  <2> SUFFICES ASSUME NEW row \in rows, Fresh(row), Alike(row, bound)
               PROVE  FALSE
    BY <1>2, <1>4 DEF StillApplies
  <2>1. row.kind = change.kind /\ row.name = change.name /\ row.line = bound.line
    BY <1>2 DEF Alike
  <2>2. row \in proposal.seen[Collection(change.kind)]
    BY <1>1, <1>3, <2>1 DEF Snapshot
  <2>3. row \in known
    BY <1>3, <2>2
  <2>4. row \in Scope(change, known)
    BY <1>2, <2>1, <2>3 DEF Scope, Is
  <2>5. ~Taken(change, known)
    BY <1>4 DEF Bindable
  <2> QED
    BY <2>1, <2>4, <2>5 DEF Taken
<1>5. CASE change.op # "create"
  <2>1. Cardinality(Find(Scope(change, known), change.ref)) = 1
    BY <1>5 DEF Bindable
  <2>2. Find(Scope(change, known), change.ref) # {}
    BY <2>1, FS_EmptySet
  <2>3. PICK row : row = The(Scope(change, known), change.ref)
    OBVIOUS
  <2>4. row \in Scope(change, known)
    BY <2>2, <2>3 DEF The, Find
  <2>5. row \in known /\ row.kind = change.kind
    BY <2>4 DEF Scope, Is
  <2>6. bound.ref = row.id /\ bound.base = row.revision
    BY <1>5, <2>3 DEF Bound
  <2>7. PICK c \in Needs(change) : row \in proposal.seen[c]
    BY <2>5
  <2>8. c \in DOMAIN proposal.seen /\ c = Collection(change.kind)
    BY <2>5, <2>7 DEF EntityInv, ShapeInv
  <2>9. row.id \notin meddled => row \in rows
    BY <1>1, <2>7, <2>8 DEF Snapshot
  <2>10. bound.ref \notin meddled => Succeeds(bound)
    BY <2>6, <2>9 DEF Succeeds
  <2> QED
    BY <1>2, <1>5, <2>5, <2>6, <2>7, <2>8, <2>10 DEF StillApplies
<1> QED
  BY <1>4, <1>5

(* The next change of the draft is bound to the row it names.             *)
LEMMA BindsChangeKeeps ==
    ASSUME EntityInv, BindsChange
    PROVE  EntityInv'
<1>1. /\ Binding /\ Needs(Current) \subseteq DOMAIN proposal.seen
      /\ rows' = rows /\ meddled' = meddled
  BY DEF BindsChange
<1>2. PICK known : known = UNION {proposal.seen[c] : c \in Needs(Current)}
  OBVIOUS
<1>3. PICK changes : changes = Append(proposal.changes, Bound(Current, known))
  OBVIOUS
<1>4. proposal' = IF ~Bindable(Current, known) THEN NoProposal
                  ELSE IF Len(changes) < Len(proposal.draft)
                  THEN [proposal EXCEPT !.changes = changes]
                  ELSE IF Distinct(changes)
                  THEN [proposal EXCEPT !.at = "shown", !.changes = changes]
                  ELSE NoProposal
  BY <1>2, <1>3 DEF BindsChange
<1>5. CASE proposal' = NoProposal
  BY <1>1, <1>5, NothingProposed
<1>6. CASE proposal' # NoProposal
  <2>1. Bindable(Current, known)
    BY <1>4, <1>6
  <2>2. PICK at \in {"binding", "shown"} :
          /\ proposal' = [at |-> at, draft |-> proposal.draft, seen |-> proposal.seen,
                          changes |-> changes, results |-> proposal.results]
          /\ at = "binding" => Len(changes) < Len(proposal.draft)
          /\ at = "shown" => ~(Len(changes) < Len(proposal.draft)) /\ Distinct(changes)
    <3>1. PICK draft, seen, was, results :
             proposal = [at |-> "binding", draft |-> draft, seen |-> seen, changes |-> was,
                         results |-> results]
      BY <1>1 DEF EntityInv, ShapeInv, Binding
    <3>2. CASE Len(changes) < Len(proposal.draft)
      <4>1. proposal' = [proposal EXCEPT !.changes = changes]
        BY <1>4, <1>6, <3>2
      <4>2. proposal' = [at |-> "binding", draft |-> draft, seen |-> seen, changes |-> changes,
                         results |-> results]
        BY <3>1, <4>1
      <4> QED
        BY <3>1, <3>2, <4>2
    <3>3. CASE ~(Len(changes) < Len(proposal.draft))
      <4>1. proposal' = [proposal EXCEPT !.at = "shown", !.changes = changes] /\ Distinct(changes)
        BY <1>4, <1>6, <3>3
      <4>2. proposal' = [at |-> "shown", draft |-> draft, seen |-> seen, changes |-> changes,
                         results |-> results]
        BY <3>1, <4>1
      <4> QED
        BY <3>1, <3>3, <4>1, <4>2
    <3> QED
      BY <3>2, <3>3
  <2>3. /\ proposal'.at = at /\ proposal'.draft = proposal.draft /\ proposal'.seen = proposal.seen
        /\ proposal'.changes = changes /\ proposal'.results = proposal.results
    BY <2>2
  <2>4. /\ List(changes) /\ Len(proposal.changes) \in Nat
        /\ Len(changes) = Len(proposal.changes) + 1
        /\ DOMAIN proposal.changes = 1 .. Len(proposal.changes)
        /\ DOMAIN changes = 1 .. Len(proposal.changes) + 1
        /\ \A i \in 1 .. Len(proposal.changes) : changes[i] = proposal.changes[i]
        /\ changes[Len(proposal.changes) + 1] = Bound(Current, known)
    BY <1>3, ListAppend DEF EntityInv, ShapeInv
  <2>5. /\ proposal.draft \in Drafts /\ proposal.results = <<>>
        /\ Len(proposal.changes) < Len(proposal.draft)
        /\ Len(proposal.draft) <= Cardinality(Free)
        /\ Snapshot /\ Pending
    BY <1>1 DEF Binding, EntityInv, BindingInv
  <2>6. Len(proposal.results) = 0 /\ DOMAIN proposal.results = {}
    BY <2>5
  <2>7. RowsInv'
    BY <1>1, <2>3 DEF EntityInv, RowsInv, SeenRows, Fresh, Alike
  <2>8. ShapeInv'
    BY <2>2, <2>3, <2>4 DEF EntityInv, ShapeInv
  <2>9. ASSUME NEW i \in DOMAIN changes
        PROVE  StillApplies(changes[i])
    <3>1. CASE i \in 1 .. Len(proposal.changes)
      BY <2>4, <2>5, <2>6, <3>1 DEF Pending
    <3>2. CASE i = Len(proposal.changes) + 1
      <4>1. Current.op \in {"create", "update"}
        <5>1. Len(proposal.changes) + 1 \in 1 .. Len(proposal.draft)
          BY <2>4, <2>5, EntitiesAssumption
        <5>2. PICK k \in 1 .. Len(proposal.draft) : k = Len(proposal.changes) + 1
          BY <5>1
        <5> DEFINE T == [op : {"create", "update"}, kind : EntityKinds, line : STRING,
                         ref : STRING, name : STRING, who : STRING, chapter : STRING]
        <5>3. proposal.draft \in Seq(T)
          BY <2>5, EntitiesAssumption
        <5>4. proposal.draft[k] \in T
          <6> HIDE DEF T
          <6> QED
            BY <5>2, <5>3, ElementOfSeq
        <5> QED
          BY <5>2, <5>4 DEF Current
      <4>2. StillApplies(Bound(Current, known))
        BY <1>1, <1>2, <2>1, <4>1, BoundApplies
      <4> QED
        BY <2>4, <3>2, <4>2
    <3> QED
      BY <2>4, <3>1, <3>2
  <2>10. Pending'
    <3>1. ASSUME NEW change, StillApplies(change)
          PROVE  StillApplies(change)'
      BY <1>1, <2>3, <3>1 DEF StillApplies, Succeeds, Fresh, Alike
    <3> QED
      BY <2>3, <2>9, <3>1 DEF Pending
  <2>11. Free' = Free
    BY <1>1 DEF Free
  <2>12. BindingInv'
    BY <1>1, <2>2, <2>3, <2>5, <2>10, <2>11 DEF BindingInv, Snapshot, Fresh
  <2>13. ShownInv'
    <3> SUFFICES ASSUME at = "shown"
                 PROVE  ShownInv'
      BY <2>2, <2>3 DEF ShownInv
    <3>1. Len(proposal.draft) \in Nat
      BY <2>5, EntitiesAssumption
    <3>2. Len(changes) = Len(proposal.draft)
      BY <2>2, <2>4, <2>5, <3>1
    <3> QED
      BY <2>2, <2>3, <2>4, <2>5, <2>6, <2>10, <2>11, <3>2 DEF ShownInv
  <2>14. StaleInv'
    BY <2>3, <2>6 DEF StaleInv
  <2> QED
    BY <2>7, <2>8, <2>12, <2>13, <2>14 DEF EntityInv
<1> QED
  BY <1>5, <1>6

(* Rows that stay, or come back with their id, their kind and a later      *)
(* revision.                                                               *)
RowsMove ==
    /\ \A row \in rows' :
          \/ row \in rows
          \/ /\ row.revision \in Nat \ {0, 1}
             /\ \E was \in rows : was.id = row.id /\ was.kind = row.kind
    /\ \A row \in rows : row.id \in NewIds => \E now \in rows' : now.id = row.id

(* The writer's own changes make no row the proposal could have made.     *)
LEMMA RowsKept ==
    ASSUME RowsInv, proposal'.seen = proposal.seen, RowsMove
    PROVE  /\ RowsInv' /\ Free' = Free
           /\ \A row \in rows' : Fresh(row) => row \in rows
<1>1. SeenRows' = SeenRows
  BY DEF SeenRows
<1>2. \A row \in rows' : row.revision \in Nat \ {0}
  BY DEF RowsMove, RowsInv
<1>3. \A row \in rows' : Fresh(row) => row \in rows
  BY DEF RowsMove, Fresh
<1>4. ASSUME NEW row \in rows' \union SeenRows
      PROVE  \E was \in rows \union SeenRows : was.id = row.id /\ was.kind = row.kind
  BY <1>4 DEF RowsMove
<1>5. ASSUME NEW row \in rows' \union SeenRows, NEW other \in rows' \union SeenRows,
             row.id = other.id
      PROVE  row.kind = other.kind
  BY <1>4, <1>5 DEF RowsInv
<1>6. \A row \in SeenRows : row.id \in NewIds => \E now \in rows' : now.id = row.id
  <2> TAKE row \in SeenRows
  <2> HAVE row.id \in NewIds
  <2>1. PICK was \in rows : was.id = row.id
    BY DEF RowsInv
  <2> QED
    BY <2>1 DEF RowsMove
<1>7. \A row, other \in rows' : Fresh(row) /\ Fresh(other) /\ Alike(row, other) => row = other
  BY <1>3 DEF RowsInv
<1>8. RowsInv'
  BY <1>1, <1>2, <1>5, <1>6, <1>7 DEF RowsInv, Fresh, Alike
<1>9. Free' = Free
  <2>1. ASSUME NEW id \in NewIds
        PROVE  (\E row \in rows : row.id = id) <=> (\E row \in rows' : row.id = id)
    BY DEF RowsMove
  <2> QED
    BY <2>1 DEF Free
<1> QED
  BY <1>3, <1>8, <1>9

(* What the writer does to a row is known of the row.                      *)
LEMMA WriterKeeps ==
    ASSUME EntityInv, proposal' = proposal, meddled \subseteq meddled', RowsMove,
           \A row \in rows : row.id \notin meddled' => row \in rows'
    PROVE  EntityInv'
<1>1. /\ RowsInv' /\ Free' = Free
      /\ \A row \in rows' : Fresh(row) => row \in rows
  BY RowsKept DEF EntityInv
<1>2. ShapeInv' /\ StaleInv'
  BY DEF EntityInv, ShapeInv, StaleInv
<1>3. ASSUME NEW change, StillApplies(change)
      PROVE  StillApplies(change)'
  <2>1. CASE change.op = "create"
    BY <1>1, <1>3, <2>1 DEF StillApplies, Fresh, Alike
  <2>2. CASE change.op # "create"
    <3>1. change.ref \notin meddled' => Succeeds(change)'
      <4> SUFFICES ASSUME change.ref \notin meddled'
                   PROVE  Succeeds(change)'
        OBVIOUS
      <4>1. Succeeds(change)
        BY <1>3, <2>2 DEF StillApplies
      <4>2. PICK row \in rows : row.id = change.ref /\ row.revision = change.base
        BY <2>2, <4>1 DEF Succeeds
      <4> QED
        BY <4>2 DEF Succeeds
    <3> QED
      BY <1>3, <2>2, <3>1 DEF StillApplies
  <2> QED
    BY <2>1, <2>2
<1>4. Pending => Pending'
  BY <1>3 DEF Pending
<1>5. Snapshot => Snapshot'
  BY <1>1 DEF Snapshot, Fresh
<1> QED
  BY <1>1, <1>2, <1>4, <1>5 DEF EntityInv, BindingInv, ShownInv

(* The writer's own changes go stale with their row, and no others.       *)
LEMMA WritesKeep ==
    ASSUME EntityInv, EntityWriter
    PROVE  EntityInv'
<1>1. CASE EditsRow
  <2>1. PICK row \in rows, name \in Names :
          /\ rows' = (rows \ {row}) \union {Renamed(row, name)}
          /\ meddled' = meddled \union {row.id} /\ proposal' = proposal
    BY <1>1 DEF EditsRow
  <2>2. /\ Renamed(row, name).id = row.id /\ Renamed(row, name).kind = row.kind
        /\ Renamed(row, name).revision = row.revision + 1
    BY DEF Renamed
  <2>3. row.revision + 1 \in Nat \ {0, 1}
    BY DEF EntityInv, RowsInv
  <2>4. RowsMove
    BY <2>1, <2>2, <2>3 DEF RowsMove
  <2> QED
    BY <2>1, <2>4, WriterKeeps
<1>2. CASE DeletesRow
  <2>1. PICK row \in rows, gone \in SUBSET rows :
          /\ gone \intersect {r \in rows : r.id \in NewIds} = {}
          /\ rows' = rows \ gone
          /\ meddled' = meddled \union {r.id : r \in gone} /\ proposal' = proposal
    BY <1>2 DEF DeletesRow
  <2>2. RowsMove
    BY <2>1 DEF RowsMove
  <2> QED
    BY <2>1, <2>2, WriterKeeps
<1> QED
  BY <1>1, <1>2 DEF EntityWriter

(* The next change of an approved proposal, and what is true of it.        *)
LEMMA ShownNext ==
    ASSUME EntityInv, proposal.at = "shown",
           NEW n, n = Len(proposal.results) + 1
    PROVE  /\ Len(proposal.results) \in Nat /\ Len(proposal.changes) \in Nat
           /\ n \in 1 .. Len(proposal.changes)
           /\ DOMAIN proposal.changes = 1 .. Len(proposal.changes)
           /\ DOMAIN proposal.results = 1 .. Len(proposal.results)
           /\ StillApplies(proposal.changes[n])
           /\ Len(proposal.changes) - Len(proposal.results) <= Cardinality(Free)
           /\ IsFiniteSet(Free) /\ Cardinality(Free) \in Nat \ {0} /\ Free # {}
<1>1. /\ Len(proposal.results) \in Nat /\ Len(proposal.changes) \in Nat
      /\ DOMAIN proposal.changes = 1 .. Len(proposal.changes)
      /\ DOMAIN proposal.results = 1 .. Len(proposal.results)
  BY ListAppend DEF EntityInv, ShapeInv
<1>2. /\ Len(proposal.results) < Len(proposal.changes) /\ Pending
      /\ Len(proposal.changes) - Len(proposal.results) <= Cardinality(Free)
  BY DEF EntityInv, ShownInv
<1>3. n \in DOMAIN proposal.changes /\ n > Len(proposal.results)
  BY <1>1, <1>2
<1>4. StillApplies(proposal.changes[n])
  BY <1>2, <1>3 DEF Pending
<1>5. IsFiniteSet(Free) /\ Cardinality(Free) \in Nat
  <2>1. Free \in SUBSET NewIds
    BY DEF Free
  <2> QED
    BY <2>1, FS_Subset, FS_CardinalityType, EntitiesAssumption
<1>6. Cardinality(Free) # 0
  BY <1>1, <1>2, <1>5, RoomFor
<1>7. Free # {}
  <2>1. Cardinality({}) = 0
    BY FS_EmptySet
  <2> QED
    BY <1>6, <2>1
<1> QED
  BY <1>1, <1>2, <1>3, <1>4, <1>5, <1>6, <1>7

(* What one change does to the others: nothing.                            *)
LEMMA ChangeApplies ==
    ASSUME EntityInv, proposal.at = "shown",
           NEW n, n = Len(proposal.results) + 1,
           Succeeds(proposal.changes[n]), rows' = RowsAfter(proposal.changes[n]),
           proposal'.seen = proposal.seen, meddled' = meddled
    PROVE  /\ RowsInv'
           /\ Cardinality(Free') >= Cardinality(Free) - 1 /\ Cardinality(Free) \in Nat
           /\ Cardinality(Free') \in Nat
           /\ \A j \in DOMAIN proposal.changes : j > n =>
                 \A change : change = proposal.changes[j] => StillApplies(change)'
<1> PICK change : change = proposal.changes[n]
  OBVIOUS
<1>1. /\ Len(proposal.results) \in Nat /\ Len(proposal.changes) \in Nat
      /\ n \in 1 .. Len(proposal.changes)
      /\ DOMAIN proposal.changes = 1 .. Len(proposal.changes)
      /\ StillApplies(change)
      /\ Len(proposal.changes) - Len(proposal.results) <= Cardinality(Free)
  BY ShownNext
<1>2. Distinct(proposal.changes) /\ Pending
  BY DEF EntityInv, ShownInv
<1>3. IsFiniteSet(Free) /\ Cardinality(Free) \in Nat /\ Free # {}
  BY ShownNext
<1>4. ASSUME NEW j \in DOMAIN proposal.changes, j > n
      PROVE  StillApplies(proposal.changes[j]) /\ ~Collide(change, proposal.changes[j])
  BY <1>1, <1>2, <1>4 DEF Pending, Distinct
<1>5. CASE change.op = "create"
  <2>1. NewId \in NewIds /\ \A row \in rows : row.id # NewId
    BY <1>3 DEF Free, NewId
  <2>2. PICK made : made = [id |-> NewId, kind |-> change.kind, line |-> change.line,
                            name |-> change.name, revision |-> 1]
    OBVIOUS
  <2>3. rows' = rows \union {made}
    BY <1>5, <2>2 DEF RowsAfter
  <2>4. /\ made.id = NewId /\ made.kind = change.kind /\ made.line = change.line
        /\ made.name = change.name /\ made.revision = 1
    BY <2>2
  <2>5. \A row \in rows : Fresh(row) => ~Alike(row, made) /\ ~Alike(made, row)
    BY <1>1, <1>5, <2>4 DEF StillApplies, Alike
  <2>6. \A row \in rows \union SeenRows : row.id # made.id
    BY <2>1, <2>4 DEF EntityInv, RowsInv
  <2>7. RowsInv'
    <3>1. SeenRows' = SeenRows
      BY DEF SeenRows
    <3>2. \A row, other \in rows' \union SeenRows : row.id = other.id => row.kind = other.kind
      BY <2>3, <2>6 DEF EntityInv, RowsInv
    <3>3. \A row, other \in rows' : Fresh(row) /\ Fresh(other) /\ Alike(row, other) => row = other
      BY <2>3, <2>5 DEF EntityInv, RowsInv
    <3>4. \A row \in rows' : row.revision \in Nat \ {0}
      BY <2>3, <2>4 DEF EntityInv, RowsInv
    <3>5. \A row \in SeenRows : row.id \in NewIds => \E now \in rows' : now.id = row.id
      BY <2>3 DEF EntityInv, RowsInv
    <3> QED
      BY <3>1, <3>2, <3>3, <3>4, <3>5 DEF RowsInv, Fresh, Alike
  <2>8. Free' = Free \ {NewId}
    <3>1. {row.id : row \in rows'} = {row.id : row \in rows} \union {NewId}
      BY <2>3, <2>4
    <3> QED
      BY <3>1 DEF Free
  <2>9. Cardinality(Free') >= Cardinality(Free) - 1 /\ Cardinality(Free') \in Nat
    <3>1. Cardinality(Free \ {NewId}) = IF NewId \in Free THEN Cardinality(Free) - 1
                                        ELSE Cardinality(Free)
      BY <1>3, FS_RemoveElement
    <3>2. IsFiniteSet(Free \ {NewId})
      BY <1>3, FS_RemoveElement
    <3> QED
      BY <1>3, <2>8, <3>1, <3>2, FS_CardinalityType
  <2>10. ASSUME NEW j \in DOMAIN proposal.changes, j > n,
                NEW other, other = proposal.changes[j]
         PROVE  StillApplies(other)'
    <3>1. StillApplies(other) /\ ~Collide(change, other)
      BY <1>4, <2>10
    <3>2. CASE other.op = "create"
      <4>1. ~Alike(made, other)
        BY <1>5, <2>4, <3>1, <3>2 DEF Collide, Alike
      <4>2. \A row \in rows' : Fresh(row) => ~Alike(row, other)
        BY <2>3, <3>1, <3>2, <4>1 DEF StillApplies
      <4> QED
        BY <3>2, <4>2 DEF StillApplies, Fresh, Alike
    <3>3. CASE other.op # "create"
      BY <2>3, <3>1, <3>3 DEF StillApplies, Succeeds
    <3> QED
      BY <3>2, <3>3
  <2> QED
    BY <1>3, <2>7, <2>9, <2>10
<1>6. CASE change.op # "create"
  <2>1. rows' = {IF row.id = change.ref THEN Renamed(row, change.name) ELSE row : row \in rows}
    BY <1>6 DEF RowsAfter
  <2>2. \A row \in rows : /\ Renamed(row, change.name).id = row.id
                          /\ Renamed(row, change.name).kind = row.kind
                          /\ Renamed(row, change.name).revision = row.revision + 1
                          /\ row.revision + 1 \in Nat \ {0, 1}
    BY DEF Renamed, EntityInv, RowsInv
  <2>3. RowsMove
    <3>1. ASSUME NEW row \in rows'
          PROVE  \/ row \in rows
                 \/ /\ row.revision \in Nat \ {0, 1}
                    /\ \E was \in rows : was.id = row.id /\ was.kind = row.kind
      <4>1. PICK was \in rows :
               row = IF was.id = change.ref THEN Renamed(was, change.name) ELSE was
        BY <2>1
      <4> QED
        BY <2>2, <4>1
    <3>2. ASSUME NEW row \in rows
          PROVE  \E now \in rows' : now.id = row.id
      <4>1. (IF row.id = change.ref THEN Renamed(row, change.name) ELSE row) \in rows'
        BY <2>1
      <4> QED
        BY <2>2, <4>1
    <3> QED
      BY <3>1, <3>2 DEF RowsMove
  <2>4. /\ RowsInv' /\ Free' = Free
        /\ \A row \in rows' : Fresh(row) => row \in rows
    BY <2>3, RowsKept DEF EntityInv
  <2>5. ASSUME NEW j \in DOMAIN proposal.changes, j > n,
               NEW other, other = proposal.changes[j]
        PROVE  StillApplies(other)'
    <3>1. StillApplies(other) /\ ~Collide(change, other)
      BY <1>4, <2>5
    <3>2. CASE other.op = "create"
      BY <2>4, <3>1, <3>2 DEF StillApplies, Fresh, Alike
    <3>3. CASE other.op # "create"
      <4>1. PICK row \in SeenRows : row.id = other.ref /\ row.kind = other.kind
        BY <3>1, <3>3 DEF StillApplies, SeenRows
      <4>2. PICK was \in SeenRows : was.id = change.ref /\ was.kind = change.kind
        BY <1>1, <1>6 DEF StillApplies, SeenRows
      <4>3. other.ref # change.ref
        <5> SUFFICES ASSUME other.ref = change.ref PROVE FALSE
          OBVIOUS
        <5>1. other.kind = change.kind
          BY <4>1, <4>2 DEF EntityInv, RowsInv
        <5>2. ~(change.op = other.op)
          BY <1>6, <3>1, <5>1 DEF Collide
        <5> QED
          BY <1>1, <1>6, <3>1, <3>3, <5>2 DEF StillApplies
      <4> QED
        BY <2>1, <3>1, <3>3, <4>3 DEF StillApplies, Succeeds
    <3> QED
      BY <3>2, <3>3
  <2> QED
    BY <1>3, <2>4, <2>5
<1> QED
  BY <1>5, <1>6

(* A change applies, or fails and those after it are skipped.             *)
LEMMA AppliesKeeps ==
    ASSUME EntityInv, Applies
    PROVE  EntityInv'
<1> PICK n : n = Len(proposal.results) + 1
  OBVIOUS
<1> PICK change : change = proposal.changes[n]
  OBVIOUS
<1> PICK results : results = proposal.results
  OBVIOUS
<1>1. proposal.at = "shown" /\ meddled' = meddled
  BY DEF Applies
<1>2. /\ Len(results) \in Nat /\ Len(proposal.changes) \in Nat
      /\ n \in 1 .. Len(proposal.changes)
      /\ DOMAIN proposal.changes = 1 .. Len(proposal.changes)
      /\ DOMAIN results = 1 .. Len(results)
      /\ StillApplies(change)
      /\ Len(proposal.changes) - Len(results) <= Cardinality(Free)
  BY <1>1, ShownNext
<1>3. List(results) /\ StaleInv /\ Distinct(proposal.changes)
  BY <1>1 DEF EntityInv, ShapeInv, ShownInv
<1>0. PICK draft, seen, changes : 
         proposal = [at |-> "shown", draft |-> draft, seen |-> seen, changes |-> changes,
                     results |-> results]
  BY <1>1 DEF EntityInv, ShapeInv
<1>4. changes = proposal.changes /\ seen = proposal.seen
  BY <1>0
<1>5. CASE Succeeds(change)
  <2>1. PICK at \in {"settled", "shown"} :
          /\ at = IF n = Len(changes) THEN "settled" ELSE "shown"
          /\ proposal' = [at |-> at, draft |-> draft, seen |-> seen, changes |-> changes,
                          results |-> Append(results, "applied")]
    <3>1. PICK at \in {"settled", "shown"} : at = IF n = Len(changes) THEN "settled" ELSE "shown"
      OBVIOUS
    <3>2. proposal' = Reported(at, Append(results, "applied"))
      BY <1>4, <1>5, <3>1 DEF Applies
    <3>3. proposal.draft = draft
      BY <1>0
    <3> QED
      BY <1>4, <3>1, <3>2, <3>3 DEF Reported
  <2>2. /\ proposal'.at = at /\ proposal'.seen = seen /\ proposal'.changes = changes
        /\ proposal'.results = Append(results, "applied")
    BY <2>1
  <2>3. rows' = RowsAfter(proposal.changes[n]) /\ Succeeds(proposal.changes[n])
    BY <1>5 DEF Applies
  <2>4. /\ RowsInv'
        /\ Cardinality(Free') >= Cardinality(Free) - 1 /\ Cardinality(Free) \in Nat
        /\ Cardinality(Free') \in Nat
        /\ \A j \in DOMAIN changes : j > n =>
              \A other : other = changes[j] => StillApplies(other)'
    BY <1>1, <1>4, <2>2, <2>3, ChangeApplies
  <2>5. /\ List(Append(results, "applied")) /\ Len(Append(results, "applied")) = Len(results) + 1
        /\ DOMAIN Append(results, "applied") = 1 .. Len(results) + 1
        /\ \A i \in 1 .. Len(results) : Append(results, "applied")[i] = results[i]
        /\ Append(results, "applied")[Len(results) + 1] = "applied"
    BY <1>3, ListAppend
  <2>6. Len(proposal'.results) = n /\ n = Len(results) + 1
    BY <2>2, <2>5
  <2>7. ShapeInv'
    BY <1>4, <2>1, <2>2, <2>5 DEF EntityInv, ShapeInv
  <2>8. StaleInv'
    <3> SUFFICES ASSUME NEW i \in 1 .. Len(results) + 1,
                        Append(results, "applied")[i] = "stale"
                 PROVE  changes[i].ref \in meddled
      BY <1>1, <2>2, <2>5 DEF StaleInv
    <3>1. i \in 1 .. Len(results)
      BY <1>2, <2>5
    <3> QED
      BY <1>2, <1>3, <1>4, <2>5, <3>1 DEF StaleInv
  <2>9. Pending'
    <3> SUFFICES ASSUME NEW i \in DOMAIN changes, i > n
                 PROVE  StillApplies(changes[i])'
      BY <2>2, <2>6 DEF Pending
    <3> QED
      BY <2>2, <2>4
  <2>10. ShownInv'
    <3> SUFFICES ASSUME at = "shown"
                 PROVE  ShownInv'
      BY <2>1, <2>2 DEF ShownInv
    <3>1. PICK a \in Nat, b \in Nat, c \in Nat, d \in Nat :
             a = Len(results) /\ b = Len(changes) /\ c = Cardinality(Free) /\ d = Cardinality(Free')
      BY <1>2, <1>4, <2>4
    <3>2. n = a + 1 /\ n \in 1 .. b /\ n # b /\ b - a <= c /\ d >= c - 1
      BY <1>2, <1>4, <2>1, <2>4, <2>6, <3>1
    <3>3. n < b /\ b - n <= d
      BY <3>1, <3>2
    <3> QED
      BY <1>3, <1>4, <2>2, <2>6, <2>9, <3>1, <3>3 DEF ShownInv
  <2>11. BindingInv'
    BY <2>1, <2>2 DEF BindingInv
  <2> QED
    BY <2>4, <2>7, <2>8, <2>10, <2>11 DEF EntityInv
<1>6. CASE ~Succeeds(change)
  <2>1. PICK m \in Nat : m = Len(changes) - n
    <3>1. PICK b \in Nat : b = Len(changes)
      BY <1>2, <1>4
    <3>2. n \in 1 .. b
      BY <1>2, <1>4, <3>1
    <3>3. b - n \in Nat
      BY <3>2
    <3> QED
      BY <3>1, <3>3
  <2>2. PICK all : all = SkipsRest(results, "stale", "skipped", m)
    OBVIOUS
  <2>3. /\ proposal' = [at |-> "settled", draft |-> draft, seen |-> seen, changes |-> changes,
                        results |-> all]
        /\ rows' = rows
    <3>1. proposal' = Reported("settled", all) /\ rows' = rows
      BY <1>4, <1>6, <2>1, <2>2 DEF Applies, SkipsRest
    <3>2. proposal.draft = draft
      BY <1>0
    <3> QED
      BY <1>4, <3>1, <3>2 DEF Reported
  <2>4. /\ proposal'.at = "settled" /\ proposal'.seen = seen /\ proposal'.changes = changes
        /\ proposal'.results = all
    BY <2>3
  <2>5. /\ List(all) /\ DOMAIN all = 1 .. Len(results) + 1 + m
        /\ \A i \in 1 .. Len(results) : all[i] = results[i]
        /\ all[Len(results) + 1] = "stale"
        /\ \A i \in Len(results) + 2 .. Len(results) + 1 + m : all[i] = "skipped"
    <3>1. m \in Nat /\ List(results)
      BY <1>3, <2>1
    <3> QED
      BY <2>2, <3>1, ListSkips
  <2>6. change.ref \in meddled
    BY <1>2, <1>6 DEF StillApplies, Succeeds
  <2>7. RowsInv'
    BY <1>4, <2>3, <2>4 DEF EntityInv, RowsInv, SeenRows, Fresh, Alike
  <2>8. ShapeInv'
    BY <1>4, <2>3, <2>4, <2>5 DEF EntityInv, ShapeInv
  <2>9. StaleInv'
    <3> SUFFICES ASSUME NEW i \in 1 .. Len(results) + 1 + m, all[i] = "stale"
                 PROVE  changes[i].ref \in meddled
      BY <1>1, <2>4, <2>5 DEF StaleInv
    <3>1. CASE i \in 1 .. Len(results)
      BY <1>2, <1>3, <1>4, <2>5, <3>1 DEF StaleInv
    <3>2. CASE i = Len(results) + 1
      BY <1>4, <2>6, <3>2
    <3>3. CASE i \in Len(results) + 2 .. Len(results) + 1 + m
      BY <2>5, <3>3
    <3>4. PICK k \in Nat : k = Len(results)
      BY <1>2
    <3>5. m \in Nat
      BY <2>1
    <3>6. i \in 1 .. k \/ i = k + 1 \/ i \in k + 2 .. k + 1 + m
      BY <3>4, <3>5
    <3> QED
      BY <3>1, <3>2, <3>3, <3>4, <3>6
  <2>10. ShownInv' /\ BindingInv'
    BY <2>4 DEF ShownInv, BindingInv
  <2> QED
    BY <2>7, <2>8, <2>9, <2>10 DEF EntityInv
<1> QED
  BY <1>5, <1>6

(* Every step keeps the invariant.                                        *)
LEMMA EntityStepKeeps ==
    ASSUME EntityInv, [Next]_vars
    PROVE  EntityInv'
<1>1. CASE UNCHANGED entityVars
  <2>1. proposal' = proposal /\ meddled' = meddled /\ rows' = rows
    BY <1>1 DEF entityVars
  <2>2. RowsMove
    BY <2>1 DEF RowsMove
  <2> QED
    BY <2>1, <2>2, WriterKeeps
<1>2. CASE EntityStep
  <2>1. CASE Proposes
    BY <2>1, ProposesKeeps
  <2>2. CASE ReadsRoster
    BY <2>2, ReadsRosterKeeps
  <2>3. CASE BindsChange
    BY <2>3, BindsChangeKeeps
  <2>4. CASE Applies
    BY <2>4, AppliesKeeps
  <2>5. CASE Decides
    BY <2>5, NothingProposed DEF Decides
  <2> QED
    BY <1>2, <2>1, <2>2, <2>3, <2>4, <2>5 DEF EntityStep
<1>3. CASE EntityWriter
  BY <1>3, WritesKeep
<1> QED
  BY <1>1, <1>2, <1>3 DEF Next, vars, ListsBlocks, EditsBlocks, AppendsText, FetchesPage,
     DeliversPage, TellsRows, SavesChapter, DeletesStory, WorksOnEntities

(* ProposalsStandAlone, for every story, every proposal and whatever the   *)
(* writer does meanwhile: a change is stale only if the writer changed its *)
(* row since it was read, and no two rows a proposal made are alike        *)
(* (entity_changes.py:300-318).                                            *)
THEOREM ToolsProposalsStandAlone == Spec => []ProposalsStandAlone
<1>1. Init => EntityInv
  BY EntityStart DEF Init
<1>2. EntityInv /\ [Next]_vars => EntityInv'
  BY EntityStepKeeps
<1>3. EntityInv => ProposalsStandAlone
  <2> SUFFICES ASSUME EntityInv
               PROVE  ProposalsStandAlone
    OBVIOUS
  <2>1. \A row, other \in rows : Fresh(row) /\ Fresh(other) /\ Alike(row, other) => row = other
    BY DEF EntityInv, RowsInv
  <2> QED
    BY <2>1 DEF EntityInv, StaleInv, ProposalsStandAlone, Fresh, Alike
<1> QED
  BY <1>1, <1>2, <1>3, PTL DEF Spec

-----------------------------------------------------------------------------
(* Edits and the listings they go by.                                      *)

(* What every edition holds, whoever stored it.                            *)
Held == [content : Seq(AnyToken), title : DOMAIN Titles, by : {"writer", "edit", "append"},
         base : Int, meant : Seq(BlockSet)]

(* What the caller knows is the first blocks there were at its revision,   *)
(* as far as it has listed them.                                           *)
Listed(known, all) ==
    IF known.next = Done THEN known.blocks = all
    ELSE /\ known.next \in 0 .. Len(all)
         /\ known.blocks = SubSeq(all, 1, known.next)

(* What a listing is.                                                      *)
Knowledge == [revision : Nat, blocks : Seq(BlockSet), next : Int]

(* What the caller knows, it knows of an edition there is.                 *)
ListInv ==
    /\ editions \in Seq(Held) /\ editions # <<>>
    /\ listing \in Knowledge /\ listing.revision <= Revision
    /\ IF listing.revision = 0 THEN listing = NoListing
       ELSE Listed(listing, SplitBlocks(editions[listing.revision].content))

(* And every edit has landed where it was meant to.                        *)
EditInv == ListInv /\ EditsLandWhereRead

(* The last edition is one of them.                                        *)
LEMMA ContentHeld ==
    ASSUME ListInv
    PROVE  /\ Revision \in Nat \ {0} /\ Content \in Seq(AnyToken)
           /\ Content = editions[Revision].content /\ Last(editions).title \in DOMAIN Titles
           /\ \A r \in 1 .. Revision : editions[r] \in Held /\ editions[r].content \in Seq(AnyToken)
           /\ Revision = Len(editions)
<1>1. editions \in Seq(Held) /\ editions # <<>>
  BY DEF ListInv
<1>2. Revision \in Nat \ {0} /\ \A r \in 1 .. Revision : editions[r] \in Held
  <2> HIDE DEF Held
  <2> QED
    BY <1>1 DEF Revision
<1>3. \A held \in Held : held.content \in Seq(AnyToken) /\ held.title \in DOMAIN Titles
  BY DEF Held
<1>4. Last(editions) = editions[Revision]
  BY DEF Last, Revision
<1>5. Revision \in 1 .. Revision
  BY <1>2
<1> HIDE DEF Held
<1> QED
  BY <1>2, <1>3, <1>4, <1>5 DEF Content, Revision

(* The blocks of a chapter.                                                *)
LEMMA SplitTyped ==
    ASSUME NEW content \in Seq(AnyToken)
    PROVE  SplitBlocks(content) \in Seq(BlockSet) /\ Len(SplitBlocks(content)) \in Nat
<1>1. SplitBlocks(content) \in Seq(BlockSet)
  BY SplitFormed DEF Formed
<1> HIDE DEF BlockSet
<1> QED
  BY <1>1

(* What the writer saves is made of tokens.                                *)
LEMMA ContentsHeld ==
    /\ <<>> \in Seq(AnyToken) /\ Contents \subseteq Seq(AnyToken)
    /\ TitlesFor(load) \subseteq DOMAIN Titles
    /\ ContentsFor(load) \subseteq Seq(AnyToken)
<1>1. <<>> \in Seq(AnyToken)
  BY NothingSplits
<1>2. Contents \subseteq Seq(AnyToken)
  <2>1. Token \subseteq AnyToken
    BY DEF Token, AnyToken, Tags
  <2>2. Seq(Token) \subseteq Seq(AnyToken)
    BY <2>1, SeqMonotonic
  <2> QED
    BY <2>2, EditsAssumption
<1>3. TitlesFor(load) \subseteq DOMAIN Titles
  <2>1. DOMAIN Titles # {}
    BY PagesAssumption
  <2> QED
    BY <2>1 DEF TitlesFor
<1> QED
  BY <1>1, <1>2, <1>3 DEF ContentsFor

(* Initially there is the writer's chapter, and nothing is known of it.    *)
LEMMA EditStart ==
    ASSUME Init
    PROVE  EditInv
<1>1. PICK content \in ContentsFor(load), title \in TitlesFor(load) :
        editions = <<Edition(content, title, "writer", 0, <<>>)>>
  BY DEF Init
<1>2. Edition(content, title, "writer", 0, <<>>) \in Held
  <2>1. content \in Seq(AnyToken) /\ title \in DOMAIN Titles
    BY ContentsHeld
  <2> QED
    BY <2>1 DEF Edition, Held
<1>3. editions \in Seq(Held) /\ editions # <<>> /\ Revision = 1
  <2>1. PICK edition \in Held : editions = <<edition>>
    BY <1>1, <1>2
  <2> HIDE DEF Held
  <2> QED
    BY <2>1 DEF Revision
<1>4. listing = NoListing /\ NoListing \in Knowledge /\ NoListing.revision = 0
  BY DEF Init, NoListing, Knowledge
<1>5. EditsLandWhereRead
  BY <1>3 DEF EditsLandWhereRead
<1> QED
  BY <1>3, <1>4, <1>5 DEF EditInv, ListInv

(* An edition more: the editions before it stay, and so does what is known *)
(* of them.                                                                *)
LEMMA StoresKeeps ==
    ASSUME EditInv, NEW edition \in Held, Stores(edition), edition.base = Revision,
           edition.by = "edit" => edition.content = JoinBlocks(Html(edition.meant)),
           edition.by = "append" => IsPrefix(Content, edition.content)
    PROVE  /\ editions' \in Seq(Held) /\ editions' # <<>> /\ Revision' = Revision + 1
           /\ \A r \in 1 .. Revision : editions'[r] = editions[r]
           /\ editions'[Revision + 1] = edition
           /\ EditsLandWhereRead'
<1>1. /\ editions \in Seq(Held) /\ editions' = Append(editions, edition)
      /\ Revision \in Nat \ {0} /\ Content = editions[Revision].content
      /\ Revision = Len(editions)
  BY ContentHeld DEF EditInv, ListInv, Stores
<1>2. /\ editions' \in Seq(Held) /\ editions' # <<>> /\ Len(editions') = Revision + 1
      /\ \A r \in 1 .. Revision : editions'[r] = editions[r]
      /\ editions'[Revision + 1] = edition
  <2> HIDE DEF Held
  <2> QED
    BY <1>1, AppendProperties
<1>3. Revision' = Revision + 1
  BY <1>2 DEF Revision
<1>4. ASSUME NEW r \in 2 .. Revision'
      PROVE  /\ editions'[r].base = r - 1
             /\ editions'[r].by = "edit" => editions'[r].content = JoinBlocks(Html(editions'[r].meant))
             /\ editions'[r].by = "append" => IsPrefix(editions'[r - 1].content, editions'[r].content)
  <2>1. r \in 2 .. Revision \/ (r = Revision + 1 /\ r - 1 = Revision)
    BY <1>1, <1>3
  <2>2. CASE r \in 2 .. Revision
    <3>1. editions'[r] = editions[r] /\ editions'[r - 1] = editions[r - 1]
      <4>1. r \in 1 .. Revision /\ r - 1 \in 1 .. Revision
        BY <1>1, <2>2
      <4> QED
        BY <1>2, <4>1
    <3>2. /\ editions[r].base = r - 1
          /\ editions[r].by = "edit" => editions[r].content = JoinBlocks(Html(editions[r].meant))
          /\ editions[r].by = "append" => IsPrefix(editions[r - 1].content, editions[r].content)
      BY <2>2 DEF EditInv, EditsLandWhereRead
    <3> QED
      BY <3>1, <3>2
  <2>3. CASE r = Revision + 1 /\ r - 1 = Revision
    <3>1. editions'[r] = edition /\ editions'[r - 1] = editions[Revision]
      <4>1. Revision \in 1 .. Revision
        BY <1>1
      <4> QED
        BY <1>2, <2>3, <4>1
    <3> QED
      BY <1>1, <2>3, <3>1
  <2> QED
    BY <2>1, <2>2, <2>3
<1>5. EditsLandWhereRead'
  BY <1>4 DEF EditsLandWhereRead
<1> QED
  BY <1>2, <1>3, <1>5

(* The writer saves: what was known is still known of its revision.        *)
LEMMA SaveKeepsListing ==
    ASSUME EditInv, SavesChapter
    PROVE  EditInv'
<1>1. PICK content \in Contents, title \in TitlesFor(load) :
        Stores(Edition(content, title, "writer", Revision, <<>>))
  BY DEF SavesChapter
<1> DEFINE edition == Edition(content, title, "writer", Revision, <<>>)
<1>2. Revision \in Nat \ {0}
  BY ContentHeld DEF EditInv
<1>3. edition \in Held /\ edition.base = Revision /\ edition.by = "writer"
  <2>1. content \in Seq(AnyToken) /\ title \in DOMAIN Titles
    BY ContentsHeld
  <2>2. <<>> \in Seq(BlockSet)
    OBVIOUS
  <2> QED
    BY <1>2, <2>1, <2>2 DEF Edition, Held
<1> HIDE DEF edition
<1>4. /\ editions' \in Seq(Held) /\ editions' # <<>> /\ Revision' = Revision + 1
      /\ \A r \in 1 .. Revision : editions'[r] = editions[r]
      /\ EditsLandWhereRead'
  BY <1>1, <1>3, StoresKeeps DEF edition
<1>5. listing' = listing
  BY DEF SavesChapter
<1>6. /\ listing \in Knowledge /\ listing.revision <= Revision /\ listing.revision \in Nat
      /\ IF listing.revision = 0 THEN listing = NoListing
         ELSE Listed(listing, SplitBlocks(editions[listing.revision].content))
  BY DEF EditInv, ListInv, Knowledge
<1>7. listing.revision # 0 => editions'[listing.revision] = editions[listing.revision]
  BY <1>2, <1>4, <1>6
<1>8. listing.revision <= Revision'
  BY <1>2, <1>4, <1>6
<1> QED
  BY <1>4, <1>5, <1>6, <1>7, <1>8 DEF EditInv, ListInv

(* A page of blocks from the start, or from where the last one ended.      *)
FollowsOn(all, start, end) ==
    /\ SubSeq(all, start + 1, end) \in Seq(BlockSet)
    /\ SubSeq(all, 1, start) \o SubSeq(all, start + 1, end) = SubSeq(all, 1, end)
    /\ SubSeq(all, 1, end) \in Seq(BlockSet) /\ SubSeq(all, 1, Len(all)) = all

(* It is from the last block shown, or from the start.                     *)
LEMMA PageOfBlocks ==
    ASSUME NEW all \in Seq(BlockSet), NEW start \in 0 .. Len(all), NEW max \in Nat \ {0}
    PROVE  \E end \in Nat :
              /\ end = (IF start + max < Len(all) THEN start + max ELSE Len(all))
              /\ Min({start + max, Len(all)}) = end /\ end <= Len(all)
              /\ FollowsOn(all, start, end)
<1>1. PICK N \in Nat : N = Len(all) /\ start \in Nat /\ max \in Nat
  OBVIOUS
<1>2. PICK end \in Nat : end = IF start + max < N THEN start + max ELSE N
  <2>1. (IF start + max < N THEN start + max ELSE N) \in Nat
    BY <1>1
  <2> QED
    BY <2>1, Zenon
<1>3. /\ end \in start .. N /\ 1 \in 1 .. N + 1 /\ start \in 1 - 1 .. N /\ 1 \in Int
      /\ start + 1 \in Int /\ end \in Int /\ start \in Nat /\ end <= N
      /\ \A i \in start + 1 .. end : i \in 1 .. N
      /\ \A i \in 1 .. end : i \in 1 .. N
  BY <1>1, <1>2
<1>4. Min({start + max, N}) = end
  <2>1. start + max \in Int /\ N \in Int
    BY <1>1, <1>3
  <2>2. Min({start + max, N}) = IF start + max <= N THEN start + max ELSE N
    BY <2>1, MinOfTwo
  <2> QED
    BY <1>1, <1>2, <1>3, <2>2
<1>5. \A i \in 1 .. N : all[i] \in BlockSet
  BY <1>1
<1> HIDE DEF BlockSet
<1>6. SubSeq(all, start + 1, end) \in Seq(BlockSet) /\ SubSeq(all, 1, end) \in Seq(BlockSet)
  <2>1. \A i \in start + 1 .. end : all[i] \in BlockSet
    BY <1>3, <1>5
  <2>2. \A i \in 1 .. end : all[i] \in BlockSet
    BY <1>3, <1>5
  <2>3. SubSeq(all, start + 1, end) \in Seq(BlockSet)
    BY <1>3, <2>1, SubSeqProperties
  <2>4. SubSeq(all, 1, end) \in Seq(BlockSet)
    BY <1>3, <2>2, SubSeqProperties
  <2> QED
    BY <2>3, <2>4
<1>7. SubSeq(all, 1, start) \o SubSeq(all, start + 1, end) = SubSeq(all, 1, end)
  BY <1>1, <1>3, ConcatAdjacentSubSeq
<1>8. SubSeq(all, 1, Len(all)) = all
  BY SubSeqFull
<1> QED
  BY <1>1, <1>2, <1>3, <1>4, <1>6, <1>7, <1>8, Zenon DEF FollowsOn

(* Learning what there is.                                                 *)
LEMMA ListingKeeps ==
    ASSUME EditInv, UNCHANGED editions,
           listing' \in Knowledge, listing'.revision = Revision,
           Listed(listing', SplitBlocks(Content))
    PROVE  EditInv'
<1>1. Revision \in Nat \ {0} /\ Content = editions[Revision].content
  BY ContentHeld DEF EditInv
<1>2. Revision' = Revision
  BY DEF Revision
<1>3. EditsLandWhereRead'
  BY <1>2 DEF EditInv, EditsLandWhereRead
<1>4. ListInv'
  BY <1>1, <1>2 DEF EditInv, ListInv
<1> QED
  BY <1>3, <1>4 DEF EditInv

(* Forgetting it, as whoever is told that it is stale does.                *)
LEMMA ForgettingKeeps ==
    ASSUME EditInv, UNCHANGED editions, listing' = NoListing
    PROVE  EditInv'
<1>1. Revision' = Revision /\ Revision \in Nat \ {0}
  BY ContentHeld DEF Revision, EditInv
<1>2. NoListing \in Knowledge /\ NoListing.revision = 0
  BY DEF NoListing, Knowledge
<1>3. EditsLandWhereRead'
  BY <1>1 DEF EditInv, EditsLandWhereRead
<1> QED
  BY <1>1, <1>2, <1>3 DEF EditInv, ListInv

(* A page of blocks is listed.                                             *)
LEMMA ListsKeeps ==
    ASSUME EditInv, ListsBlocks
    PROVE  EditInv'
<1> DEFINE all == SplitBlocks(Content)
<1>1. /\ all \in Seq(BlockSet) /\ Len(all) \in Nat /\ Revision \in Nat \ {0}
      /\ Content = editions[Revision].content
  BY ContentHeld, SplitTyped DEF EditInv
<1>2. /\ listing \in Knowledge /\ listing.revision \in Nat
      /\ IF listing.revision = 0 THEN listing = NoListing
         ELSE Listed(listing, SplitBlocks(editions[listing.revision].content))
  BY DEF EditInv, ListInv, Knowledge
<1>3. UNCHANGED editions
  BY DEF ListsBlocks
<1>4. PICK max \in PageSizes, start \in {0, listing.next} \ {Done} :
         LET shown == SubSeq(all, start + 1, Min({start + max, Len(all)}))
             next  == IF start + max < Len(all) THEN start + max ELSE Done
         IN listing' =
              IF start = 0 THEN [revision |-> Revision, blocks |-> shown, next |-> next]
              ELSE IF listing.revision = Revision
              THEN [listing EXCEPT !.blocks = listing.blocks \o shown, !.next = next]
              ELSE NoListing
  BY DEF ListsBlocks
<1>5. max \in Nat \ {0} /\ Done = -1
  BY EditsAssumption DEF Done
<1> HIDE DEF all
<1>6. CASE start # 0 /\ listing.revision # Revision
  <2>1. listing' = NoListing
    BY <1>4, <1>6
  <2> QED
    BY <1>3, <2>1, ForgettingKeeps
<1>7. CASE start = 0 \/ listing.revision = Revision
  <2>1. start \in 0 .. Len(all)
    <3>1. CASE start = 0
      BY <1>1, <3>1
    <3>2. CASE start # 0
      <4>1. start = listing.next /\ listing.next # Done /\ listing.revision = Revision
        BY <1>7, <3>2
      <4>2. Listed(listing, all)
        BY <1>1, <1>2, <4>1 DEF all
      <4> QED
        BY <4>1, <4>2 DEF Listed
    <3> QED
      BY <3>1, <3>2
  <2>5. PICK end \in Nat :
        /\ end = (IF start + max < Len(all) THEN start + max ELSE Len(all))
        /\ Min({start + max, Len(all)}) = end /\ end <= Len(all)
        /\ FollowsOn(all, start, end)
    BY <1>1, <1>5, <2>1, PageOfBlocks
  <2>6. PICK next \in Int :
        /\ next = (IF start + max < Len(all) THEN start + max ELSE Done)
        /\ next = Done => end = Len(all)
        /\ next # Done => next = end
    BY <1>1, <1>5, <2>1, <2>5
  <2>7. /\ SubSeq(all, 1, start) \o SubSeq(all, start + 1, end) = SubSeq(all, 1, end)
        /\ SubSeq(all, 1, end) \in Seq(BlockSet) /\ SubSeq(all, 1, Len(all)) = all
    BY <2>5 DEF FollowsOn
  <2>2. listing' = [revision |-> Revision, blocks |-> SubSeq(all, 1, end), next |-> next]
    <3>1. CASE start = 0
      <4>1. SubSeq(all, start + 1, end) = SubSeq(all, 1, end)
        BY <3>1
      <4> QED
        BY <1>4, <2>5, <2>6, <3>1, <4>1, Zenon
    <3>2. CASE start # 0
      <4>1. start = listing.next /\ listing.next # Done /\ listing.revision = Revision
        BY <1>7, <3>2
      <4>2. listing.blocks = SubSeq(all, 1, start)
        BY <1>1, <1>2, <4>1 DEF all, Listed
      <4>3. listing' = [listing EXCEPT !.blocks = listing.blocks \o SubSeq(all, start + 1, end),
                                       !.next = next]
        BY <1>4, <2>5, <2>6, <3>2, <4>1, Zenon
      <4>4. listing' = [listing EXCEPT !.blocks = SubSeq(all, 1, end), !.next = next]
        BY <2>7, <4>2, <4>3, Zenon
      <4> QED
        BY <1>2, <4>1, <4>4 DEF Knowledge
    <3> QED
      BY <3>1, <3>2
  <2>3. listing' \in Knowledge /\ listing'.revision = Revision
    BY <1>1, <2>2, <2>6, <2>7 DEF Knowledge
  <2>4. Listed(listing', all)
    <3>1. CASE next = Done
      <4>1. listing'.blocks = all /\ listing'.next = Done
        BY <2>2, <2>6, <2>7, <3>1, Zenon
      <4> QED
        BY <4>1 DEF Listed
    <3>2. CASE next # Done
      <4>1. listing'.blocks = SubSeq(all, 1, next) /\ listing'.next = next /\ next \in 0 .. Len(all)
        BY <1>1, <2>2, <2>5, <2>6, <3>2
      <4> QED
        BY <3>2, <4>1, Zenon DEF Listed
    <3> QED
      BY <3>1, <3>2
  <2> QED
    BY <1>3, <2>3, <2>4, ListingKeeps DEF all
<1> QED
  BY <1>6, <1>7

(* A write that is answered with as many blocks as the caller expects: the *)
(* blocks it meant are the blocks there are.                               *)
LEMMA WriteKeeps ==
    ASSUME EditInv, NEW stored \in Seq(AnyToken), NEW by \in {"edit", "append"},
           NEW meant \in Seq(BlockSet), Writes(stored, by, meant), AtRevision,
           by = "edit" => stored = JoinBlocks(Html(meant)),
           by = "append" => IsPrefix(Content, stored),
           Whole(listing) /\ BlockCount(stored) = Len(meant) => SplitBlocks(stored) = meant
    PROVE  EditInv'
<1> DEFINE edition == Edition(stored, Last(editions).title, by, listing.revision, meant)
<1>1. Revision \in Nat \ {0} /\ Last(editions).title \in DOMAIN Titles
  BY ContentHeld DEF EditInv
<1>2. /\ edition \in Held /\ edition.base = Revision /\ edition.content = stored
      /\ edition.by = by /\ edition.meant = meant
  BY <1>1 DEF Edition, Held, AtRevision
<1>3. Stores(edition) /\ listing' = Chained(stored, meant)
  BY DEF Writes
<1> HIDE DEF edition
<1>4. /\ editions' \in Seq(Held) /\ editions' # <<>> /\ Revision' = Revision + 1
      /\ editions'[Revision + 1] = edition
      /\ EditsLandWhereRead'
  BY <1>2, <1>3, StoresKeeps
<1>5. CASE Whole(listing) /\ BlockCount(stored) = Len(meant)
  <2>1. listing' = [revision |-> Revision + 1, blocks |-> meant, next |-> Done]
    BY <1>3, <1>5 DEF Chained
  <2>2. Done \in Int
    BY DEF Done
  <2>3. listing' \in Knowledge /\ listing'.revision = Revision + 1
    BY <1>1, <2>1, <2>2 DEF Knowledge
  <2>4. Listed(listing', SplitBlocks(editions'[listing'.revision].content))
    BY <1>2, <1>4, <1>5, <2>1 DEF Listed
  <2> QED
    BY <1>1, <1>4, <2>3, <2>4 DEF EditInv, ListInv
<1>6. CASE ~(Whole(listing) /\ BlockCount(stored) = Len(meant))
  <2>1. listing' = NoListing
    BY <1>3, <1>6 DEF Chained
  <2>2. NoListing \in Knowledge /\ NoListing.revision = 0
    BY DEF NoListing, Knowledge
  <2> QED
    BY <1>1, <1>4, <2>1, <2>2 DEF EditInv, ListInv
<1> QED
  BY <1>5, <1>6

(* What a sequence begins with.                                            *)
LEMMA BeginningPrefix ==
    ASSUME NEW seq \in Seq(BlockSet), NEW n \in 0 .. Len(seq)
    PROVE  IsPrefix(SubSeq(seq, 1, n), seq)
<1>1. n \in Nat /\ n \in Int /\ 1 \in Int /\ n <= Len(seq) /\ n - 1 + 1 = n
  OBVIOUS
<1>2. \A i \in 1 .. n : seq[i] \in BlockSet
  BY <1>1
<1> HIDE DEF BlockSet
<1>3. PICK front \in Seq(BlockSet) : front = SubSeq(seq, 1, n) /\ Len(front) = n
  <2>1. /\ SubSeq(seq, 1, n) \in Seq(BlockSet)
        /\ Len(SubSeq(seq, 1, n)) = IF 1 <= n THEN n - 1 + 1 ELSE 0
    BY <1>1, <1>2, SubSeqProperties
  <2>2. (IF 1 <= n THEN n - 1 + 1 ELSE 0) = n
    BY <1>1
  <2> QED
    BY <2>1, <2>2, Zenon
<1>4. SubSeq(front, 1, n) = front
  BY <1>3, SubSeqFull
<1> QED
  BY <1>1, <1>3, <1>4 DEF IsPrefix

(* What is glued to something is something.                                *)
LEMMA GluedSolid ==
    ASSUME NEW content \in Seq(AnyToken), NEW part \in Seq(AnyToken), part # <<>>
    PROVE  Glue(content, part) # <<>>
<1>1. CASE content = <<>>
  BY <1>1 DEF Glue
<1>2. CASE content # <<>>
  <2>1. Glue(content, part) = (content \o <<WS>>) \o part
    BY <1>2 DEF Glue
  <2>2. WS \in AnyToken
    BY DEF WS, AnyToken, Tags, Kinds
  <2> PICK with \in Seq(AnyToken) : with = content \o <<WS>>
    <3>1. <<WS>> \in Seq(AnyToken)
      BY <2>2, OneAlone
    <3> QED
      BY <3>1, ConcatClosed, Zenon
  <2>3. with \o part # <<>>
    <3> HIDE DEF AnyToken
    <3> QED
      BY ConcatEqualIffEmpty
  <2> QED
    BY <2>1, <2>3
<1> QED
  BY <1>1, <1>2

(* A content is what it begins with after gluing.                          *)
LEMMA GluedPrefix ==
    ASSUME NEW content \in Seq(AnyToken), NEW part \in Seq(AnyToken), part # <<>>
    PROVE  IsPrefix(content, Glue(content, part))
<1> PICK n \in Nat : n = Len(content)
  OBVIOUS
<1>1. CASE content = <<>>
  <2>1. Glue(content, part) = part /\ n = 0 /\ Len(part) \in Nat
    BY <1>1 DEF Glue
  <2>2. SubSeq(content, 1, 0) = <<>> /\ SubSeq(part, 1, 0) = <<>>
    BY SubSeqEmpty
  <2> QED
    BY <2>1, <2>2 DEF IsPrefix
<1>2. CASE content # <<>>
  <2>1. Glue(content, part) = (content \o <<WS>>) \o part
    BY <1>2 DEF Glue
  <2>2. WS \in AnyToken
    BY DEF WS, AnyToken, Tags, Kinds
  <2> PICK rest \in Seq(AnyToken) : rest = <<WS>> \o part
    <3>1. <<WS>> \in Seq(AnyToken)
      BY <2>2, OneAlone
    <3> QED
      BY <3>1, ConcatClosed, Zenon
  <2>3. PICK one \in Seq(AnyToken) : one = <<WS>>
    BY <2>2, OneAlone
  <2>4. (content \o one) \o part = content \o (one \o part)
    <3> HIDE DEF AnyToken
    <3> QED
      BY <2>3, ConcatAssociative
  <2>5. Glue(content, part) = content \o rest
    BY <2>1, <2>3, <2>4, Zenon
  <2>6. n \in 1 .. n /\ 1 \in 1 .. n
    BY <1>2, EmptySeq
  <2> HIDE DEF AnyToken
  <2>7. SubSeq(content \o rest, 1, n) = SubSeq(content, 1, n)
    BY <2>6, SubSeqOfConcat1
  <2>8. n <= Len(content \o rest)
    <3>1. Len(content \o rest) = n + Len(rest) /\ Len(rest) \in Nat
      BY ConcatProperties
    <3> QED
      BY <3>1
  <2> QED
    BY <2>5, <2>7, <2>8 DEF IsPrefix
<1> QED
  BY <1>1, <1>2

(* An edit: applied one after the other, the operations do what was meant. *)
LEMMA EditKeeps ==
    ASSUME EditInv, EditsBlocks
    PROVE  EditInv'
<1> DEFINE blocks == SplitBlocks(Content)
<1>1. PICK ops \in Edits :
        /\ NormalOps(ops)
        /\ IF ~AtRevision THEN FindsStale
           ELSE /\ Applicable(blocks, ops)
                /\ Writes(JoinBlocks(ApplyOps(blocks, ops)), "edit",
                          MeantBy(ops, listing.blocks))
  BY DEF EditsBlocks
<1>2. ops \in Seq(Op) /\ Apart(ops) /\ Whole(listing)
  BY <1>1, EditsAssumption DEF Op, NormalOps, Apart, EditsBlocks
<1>3. /\ Content \in Seq(AnyToken) /\ Revision \in Nat \ {0}
      /\ Content = editions[Revision].content
  BY ContentHeld DEF EditInv
<1>4. Formed(blocks) /\ blocks \in Seq(BlockSet)
  BY <1>3, SplitFormed DEF Formed
<1> HIDE DEF blocks
<1>5. CASE ~AtRevision
  BY <1>1, <1>5, ForgettingKeeps DEF FindsStale
<1>6. CASE AtRevision
  <2>1. listing.blocks = blocks
    BY <1>2, <1>3, <1>6 DEF EditInv, ListInv, Listed, AtRevision, Whole, blocks
  <2>2. Applicable(blocks, ops)
    BY <1>1, <1>6
  <2> DEFINE meant == MeantBy(ops, blocks)
             stored == JoinBlocks(Html(meant))
  <2>3. Formed(meant) /\ meant \in Seq(BlockSet)
    BY <1>2, <1>4, <2>2, MeantFormed DEF Formed
  <2>4. JoinBlocks(ApplyOps(blocks, ops)) = stored
    BY <1>2, <1>4, <2>2, EditsAsMeant
  <2>5. Writes(stored, "edit", meant)
    BY <1>1, <1>6, <2>1, <2>4
  <2> HIDE DEF meant
  <2>6. stored \in Seq(AnyToken) /\ (BlockCount(stored) = Len(meant) => SplitBlocks(stored) = meant)
    <3>1. Glue(<<>>, stored) = stored /\ stored \in Seq(AnyToken)
      BY <2>3, GlueNothing, JoinHtml
    <3>2. BlockCount(stored) = 0 + Len(meant) => SplitBlocks(stored) = <<>> \o meant
      BY <2>3, <3>1, JoinedBlocksHold, NothingSplits
    <3>3. <<>> \o meant = meant /\ 0 + Len(meant) = Len(meant)
      <4> HIDE DEF BlockSet
      <4>1. Len(meant) \in Nat
        BY <2>3
      <4>2. <<>> \o meant = meant
        BY <2>3, ConcatEmptySeq
      <4> QED
        BY <4>1, <4>2
    <3> QED
      BY <3>1, <3>2, <3>3, Zenon
  <2> QED
    BY <1>6, <2>3, <2>5, <2>6, WriteKeeps
<1> QED
  BY <1>5, <1>6

(* Text appended is glued behind the content there is.                     *)
LEMMA AppendGlues ==
    ASSUME NEW content \in Seq(AnyToken), NEW text \in Seq(Seq(Inline)), text # <<>>
    PROVE  /\ ParagraphHtml(text) # <<>>
           /\ ParagraphHtml(text) = JoinBlocks(Html(Paragraphs(text)))
           /\ Formed(Paragraphs(text)) /\ Paragraphs(text) \in Seq(BlockSet)
           /\ \A n \in 1 .. Len(Paragraphs(text)) : Wraps(Paragraphs(text)[n].html)
<1> DEFINE paragraphs == Paragraphs(text)
           parts == Html(paragraphs)
<1>1. /\ AllWrap(paragraphs) /\ Len(paragraphs) = Len(text)
      /\ ParagraphHtml(text) = JoinBlocks(parts)
  BY ParagraphsAre
<1> HIDE DEF paragraphs
<1>2. /\ Formed(paragraphs) /\ paragraphs \in Seq(BlockSet)
      /\ \A n \in 1 .. Len(paragraphs) : Wraps(paragraphs[n].html)
  BY <1>1, WrapsFormed DEF AllWrap
<1>3. PICK n \in Nat \ {0} : n = Len(text)
  <2>1. Len(text) \in Nat /\ Len(text) # 0
    BY EmptySeq
  <2> QED
    BY <2>1
<1>4. n \in 1 .. Len(paragraphs)
  BY <1>1, <1>3
<1>5. /\ parts \in Seq(Seq(AnyToken)) /\ Len(parts) = n /\ n \in 1 .. Len(parts)
      /\ parts[n] = paragraphs[n].html
  BY <1>1, <1>2, <1>3, <1>4, HtmlIs
<1>6. parts[n] # <<>> /\ parts[n] \in Seq(AnyToken)
  <2>1. parts[n] \in Seq(AnyToken) /\ Len(parts[n]) >= 2
    BY <1>2, <1>4, <1>5 DEF Wraps
  <2> QED
    BY <2>1
<1> HIDE DEF parts
<1>7. JoinBlocks(parts) # <<>>
  <2>1. JoinBlocks(parts) = Glue(Joined(parts)[n - 1], parts[n])
    BY <1>5, JoinsAll
  <2>2. Joined(parts)[n - 1] \in Seq(AnyToken)
    <3>1. n - 1 \in 0 .. Len(parts)
      BY <1>5
    <3> QED
      BY <1>5, <3>1, JoinsAll
  <2> PICK before \in Seq(AnyToken), part \in Seq(AnyToken) :
         before = Joined(parts)[n - 1] /\ part = parts[n] /\ part # <<>>
    BY <1>6, <2>2
  <2>3. Glue(before, part) # <<>>
    BY GluedSolid
  <2> QED
    BY <2>1, <2>3
<1> QED
  BY <1>1, <1>2, <1>7 DEF parts, paragraphs

(* An append: the paragraphs are blocks behind those there are.            *)
LEMMA AppendKeeps ==
    ASSUME EditInv, AppendsText
    PROVE  EditInv'
<1>1. PICK text \in Texts :
        IF ~AtRevision THEN FindsStale
        ELSE Writes(Appended(text), "append", listing.blocks \o Paragraphs(text))
  BY DEF AppendsText
<1>2. text \in Seq(Seq(Inline)) /\ text # <<>>
  BY EditsAssumption
<1>3. /\ Content \in Seq(AnyToken) /\ Revision \in Nat \ {0}
      /\ Content = editions[Revision].content
  BY ContentHeld DEF EditInv
<1> DEFINE new == Paragraphs(text)
           html == JoinBlocks(Html(new))
<1>4. /\ ParagraphHtml(text) = html /\ html # <<>> /\ Formed(new) /\ new \in Seq(BlockSet)
      /\ \A n \in 1 .. Len(new) : Wraps(new[n].html)
  BY <1>2, <1>3, AppendGlues
<1>5. Appended(text) = Glue(Content, html)
  BY <1>4 DEF Appended, Glue
<1> HIDE DEF new
<1>6. CASE ~AtRevision
  BY <1>1, <1>6, ForgettingKeeps DEF FindsStale
<1>7. CASE AtRevision
  <2> DEFINE meant == listing.blocks \o new
  <2>1. listing.blocks \in Seq(BlockSet)
    BY DEF EditInv, ListInv, Knowledge
  <2>2. meant \in Seq(BlockSet) /\ Len(meant) = Len(listing.blocks) + Len(new)
    <3> HIDE DEF BlockSet
    <3> QED
      BY <1>4, <2>1, ConcatProperties
  <2>3. Writes(Glue(Content, html), "append", meant)
    BY <1>1, <1>5, <1>7 DEF new
  <2>4. /\ Glue(Content, html) \in Seq(AnyToken)
        /\ BlockCount(Glue(Content, html)) = BlockCount(Content) + Len(new) =>
             SplitBlocks(Glue(Content, html)) = SplitBlocks(Content) \o new
    BY <1>3, <1>4, JoinedBlocksHold
  <2>5. Whole(listing) => listing.blocks = SplitBlocks(Content)
    BY <1>3, <1>7 DEF EditInv, ListInv, Listed, AtRevision, Whole
  <2>6. IsPrefix(Content, Glue(Content, html))
    <3>1. html \in Seq(AnyToken)
      BY <1>4, JoinHtml
    <3> QED
      BY <1>3, <1>4, <3>1, GluedPrefix
  <2>7. Whole(listing) /\ BlockCount(Glue(Content, html)) = Len(meant)
          => SplitBlocks(Glue(Content, html)) = meant
    BY <2>2, <2>4, <2>5, Zenon DEF BlockCount
  <2> HIDE DEF meant
  <2> QED
    BY <1>7, <2>2, <2>3, <2>4, <2>6, <2>7, WriteKeeps
<1> QED
  BY <1>6, <1>7

(* No other step touches the editions, or what is known of them.           *)
LEMMA EditStep ==
    ASSUME EditInv, [Next]_vars
    PROVE  EditInv'
<1>1. CASE ListsBlocks
  BY <1>1, ListsKeeps
<1>2. CASE EditsBlocks
  BY <1>2, EditKeeps
<1>3. CASE AppendsText
  BY <1>3, AppendKeeps
<1>4. CASE SavesChapter
  BY <1>4, SaveKeepsListing
<1>5. CASE UNCHANGED chapterVars
  <2>1. UNCHANGED <<editions, listing>>
    BY <1>5 DEF chapterVars
  <2> QED
    BY <2>1 DEF EditInv, ListInv, EditsLandWhereRead, Revision
<1>6. CASE FetchesPage \/ DeliversPage \/ TellsRows \/ DeletesStory \/ WorksOnEntities
           \/ UNCHANGED vars
  BY <1>5, <1>6 DEF FetchesPage, DeliversPage, TellsRows, DeletesStory, WorksOnEntities, vars,
     chapterVars
<1> QED
  BY <1>1, <1>2, <1>3, <1>4, <1>6 DEF Next

(* EditsLandWhereRead, for every chapter, every list of operations and     *)
(* whatever the writer saves meanwhile: an accepted edit changes the       *)
(* blocks its caller listed the way it meant, all at once, and an append   *)
(* leaves what was there (writes.py:760-852).                              *)
THEOREM ToolsEditsLandWhereRead == Spec => []EditsLandWhereRead
<1>1. Init => EditInv
  BY EditStart
<1>2. EditInv /\ [Next]_vars => EditInv'
  BY EditStep
<1>3. EditInv => EditsLandWhereRead
  BY DEF EditInv
<1> QED
  BY <1>1, <1>2, <1>3, PTL DEF Spec

(* ListingsHold, for every chapter: the block count a write answers with   *)
(* is enough to know the blocks there are, though the stored text was      *)
(* never listed again (writes.py:616-626).                                 *)
THEOREM ToolsListingsHold == Spec => []ListingsHold
<1>1. Init => EditInv
  BY EditStart
<1>2. EditInv /\ [Next]_vars => EditInv'
  BY EditStep
<1>3. EditInv => ListingsHold
  <2> SUFFICES ASSUME EditInv, listing.revision > 0
               PROVE  LET all == SplitBlocks(editions[listing.revision].content)
                      IN IF Whole(listing) THEN listing.blocks = all
                         ELSE IsPrefix(listing.blocks, all)
    BY DEF ListingsHold
  <2> DEFINE all == SplitBlocks(editions[listing.revision].content)
  <2>1. listing.revision \in 1 .. Revision /\ listing.revision # 0
    BY ContentHeld DEF EditInv, ListInv, Knowledge
  <2>2. all \in Seq(BlockSet)
    BY <2>1, ContentHeld, SplitTyped DEF EditInv
  <2>3. Listed(listing, all)
    BY <2>1 DEF EditInv, ListInv
  <2> HIDE DEF all
  <2>4. CASE Whole(listing)
    BY <2>3, <2>4 DEF Listed, Whole, all
  <2>5. CASE ~Whole(listing)
    <3>1. listing.next \in 0 .. Len(all) /\ listing.blocks = SubSeq(all, 1, listing.next)
      BY <2>3, <2>5 DEF Listed, Whole
    <3>2. IsPrefix(listing.blocks, all)
      BY <2>2, <3>1, BeginningPrefix
    <3> QED
      BY <2>5, <3>2 DEF all
  <2> QED
    BY <2>4, <2>5
<1> QED
  BY <1>1, <1>2, <1>3, PTL DEF Spec
=============================================================================
