------------------------- MODULE StreamReaderProofs -------------------------
(***************************************************************************)
(* Proofs about StreamReader, for any bounds: however a stream is cut into *)
(* chunks, the outcome is the one that the whole stream calls for, and it  *)
(* is given as soon as its last byte is there.                             *)
(***************************************************************************)
EXTENDS StreamReader, FunctionTheorems, FiniteSetTheorems, SequenceTheorems, TLAPS

----------------------------------------------------------------------------
(* The inductive invariant.                                                *)

\* Before the message is complete nothing is taken out of the buffer.
Collecting ==
  /\ expected = Unset
  /\ buffer = Delivered
  /\ MessageEnds(Delivered) = {}

\* Afterwards, the buffer is what was delivered behind the message, and shorter
\* than the archive that the message announces.
Downloading ==
  /\ kind # "request"
  /\ \E end \in MessageEnds(Delivered) :
       LET m == SubSeq(Delivered, MessageBegin, end)
       IN  /\ ~Refuses(m)
           /\ expected = Announced(m)
           /\ buffer = SubSeq(Delivered, end + 1, taken)
           /\ taken < end + expected

IndInv ==
  /\ TypeOK
  /\ stream \in Streams
  /\ outcome.code = "none" => outcome = Pending
  /\ outcome = Pending /\ WellFormed(stream) => Collecting \/ Downloading
  /\ ChunksDoNotShow
  /\ AnswersPromptly

----------------------------------------------------------------------------
(* Induction and recursion over data.  The proof of Induction: were m not  *)
(* in S, x - 1 would be an injection of a finite set into itself that does *)
(* not reach m.                                                            *)

LEMMA Induction ==
  ASSUME NEW S, 0 \in S, \A n \in Nat : n \in S => n + 1 \in S
  PROVE  Nat \subseteq S
<1> SUFFICES ASSUME NEW m \in Nat, m \notin S PROVE FALSE
  OBVIOUS
<1> DEFINE T == {x \in 0 .. m : x \notin S}
           f == [x \in T |-> x - 1]
<1>1. \A x \in T : x - 1 \in T
  OBVIOUS
<1>2. f \in Injection(T, T)
  BY <1>1 DEF Injection, IsInjective
<1>3. IsFiniteSet(T)
  <2>1. IsFiniteSet(0 .. m)
    BY FS_Interval
  <2>2. T \in SUBSET (0 .. m)
    OBVIOUS
  <2> HIDE DEF T
  <2> QED BY <2>1, <2>2, FS_Subset
<1>4. f \in Surjection(T, T)
  <2> HIDE DEF T, f
  <2> QED BY <1>2, <1>3, FS_Injection
<1>5. m \in T
  OBVIOUS
<1>6. PICK x \in T : f[x] = m
  BY <1>4, <1>5 DEF Surjection
<1> QED BY <1>6

LEMMA InductionUpTo ==
  ASSUME NEW N \in Nat, NEW S, 0 \in S, \A n \in 0 .. N - 1 : n \in S => n + 1 \in S
  PROVE  0 .. N \subseteq S
<1> DEFINE R == {n \in Nat : n <= N => n \in S}
<1>1. 0 \in R /\ \A n \in Nat : n \in R => n + 1 \in R
  OBVIOUS
<1> HIDE DEF R
<1>2. Nat \subseteq R
  BY <1>1, Induction
<1> USE DEF R
<1> QED BY <1>2

LEMMA CompleteInduction ==
  ASSUME NEW S, \A n \in Nat : (\A m \in 0 .. n - 1 : m \in S) => n \in S
  PROVE  Nat \subseteq S
<1> DEFINE R == {n \in Nat : \A m \in 0 .. n - 1 : m \in S}
<1>1. 0 \in R
  OBVIOUS
<1>2. ASSUME NEW n \in Nat, n \in R
      PROVE  n + 1 \in R
  <2>1. n \in S
    BY <1>2
  <2> QED BY <1>2, <2>1
<1> HIDE DEF R
<1>3. Nat \subseteq R
  BY <1>1, <1>2, Induction
<1> USE DEF R
<1> QED BY <1>3

\* An equation for a function f on D, f[x] = F[<<f, x>>], whose right-hand side at
\* x depends only on the values of f at the y of a smaller rank.
Recurrence(D, V, N, rank, F) ==
  /\ V # {} /\ N \in Nat /\ rank \in [D -> 0 .. N]
  /\ F \in [[D -> V] \X D -> V]
  /\ \A g, h \in [D -> V], x \in D :
        (\A y \in D : rank[y] < rank[x] => g[y] = h[y]) => F[<<g, x>>] = F[<<h, x>>]

LEMMA Recursion ==
  ASSUME NEW D, NEW V, NEW N, NEW rank, NEW F, Recurrence(D, V, N, rank, F)
  PROVE  \E f \in [D -> V] : \A x \in D : f[x] = F[<<f, x>>]
<1> USE DEF Recurrence
<1> DEFINE Solves(f, n) == \A x \in D : rank[x] < n => f[x] = F[<<f, x>>]
           S == {n \in Nat : \E f \in [D -> V] : Solves(f, n)}
<1>1. 0 \in S
  <2>1. PICK v \in V : TRUE
    OBVIOUS
  <2>2. [x \in D |-> v] \in [D -> V] /\ Solves([x \in D |-> v], 0)
    OBVIOUS
  <2> QED BY <2>2
<1>2. ASSUME NEW n \in Nat, n \in S
      PROVE  n + 1 \in S
  <2>1. PICK f \in [D -> V] : Solves(f, n)
    BY <1>2
  <2> DEFINE g == [x \in D |-> IF rank[x] = n THEN F[<<f, x>>] ELSE f[x]]
  <2>2. g \in [D -> V]
    OBVIOUS
  <2>3. ASSUME NEW x \in D, rank[x] < n + 1
        PROVE  g[x] = F[<<g, x>>]
    <3>1. rank[x] \in Nat /\ \A y \in D : rank[y] \in Nat
      OBVIOUS
    <3>2. \A y \in D : rank[y] < rank[x] => f[y] = g[y]
      BY <2>3, <3>1
    <3>3. F[<<f, x>>] = F[<<g, x>>]
      <4> HIDE DEF g
      <4> QED BY <2>2, <3>2
    <3>4. g[x] = F[<<f, x>>]
      BY <2>1, <2>3, <3>1
    <3> QED BY <3>3, <3>4
  <2>4. Solves(g, n + 1)
    BY <2>3
  <2> HIDE DEF g
  <2> QED BY <2>2, <2>4
<1>3. N + 1 \in S
  <2> HIDE DEF S
  <2> QED BY <1>1, <1>2, Induction
<1>4. PICK f \in [D -> V] : Solves(f, N + 1)
  BY <1>3
<1>5. \A x \in D : rank[x] < N + 1
  OBVIOUS
<1> QED BY <1>4, <1>5

----------------------------------------------------------------------------
(* The scanner.                                                            *)

Scans == [started : BOOLEAN, depth : Int, inString : BOOLEAN, escaped : BOOLEAN,
          at : Int, end : Int]

LEMMA InStringType ==
  ASSUME NEW scan \in Scans, NEW char
  PROVE  InString(scan, char) \in Scans
BY DEF InString, Scans

LEMMA InObjectType ==
  ASSUME NEW scan \in Scans, NEW char
  PROVE  InObject(scan, char) \in Scans
<1> DEFINE depth == IF char = "open" THEN scan.depth + 1
                    ELSE IF char = "close" THEN scan.depth - 1 ELSE scan.depth
           end == IF char = "close" /\ scan.depth = 1 THEN scan.at ELSE scan.end
<1>1. depth \in Int /\ end \in Int
  <2>1. scan.depth \in Int /\ scan.at \in Int /\ scan.end \in Int
    BY DEF Scans
  <2>2. depth \in {scan.depth, scan.depth + 1, scan.depth - 1}
    BY Zenon
  <2>3. end \in {scan.at, scan.end}
    BY Zenon
  <2> HIDE DEF depth, end
  <2> QED BY <2>1, <2>2, <2>3
<1>2. InObject(scan, char) = [scan EXCEPT !.inString = (char = "quote"), !.depth = depth, !.end = end]
  BY DEF InObject
<1> HIDE DEF depth, end
<1>3. [scan EXCEPT !.inString = (char = "quote"), !.depth = depth, !.end = end] \in Scans
  BY <1>1, Zenon DEF Scans
<1> QED BY <1>2, <1>3

LEMMA ScanCharType ==
  ASSUME NEW scan \in Scans, NEW char
  PROVE  ScanChar(scan, char) \in Scans
<1> DEFINE s == [scan EXCEPT !.at = @ + 1]
<1>1. s \in Scans
  BY DEF Scans
<1>2. InString(s, char) \in Scans /\ InObject(s, char) \in Scans
  BY <1>1, InStringType, InObjectType
<1>3. [s EXCEPT !.started = (char = "open"), !.depth = 1] \in Scans
  <2>1. 1 \in Int
    OBVIOUS
  <2> HIDE DEF s
  <2> QED BY <1>1, <2>1, Zenon DEF Scans
<1>4. ScanChar(scan, char) \in {s, [s EXCEPT !.started = (char = "open"), !.depth = 1],
                                  InString(s, char), InObject(s, char)}
  BY DEF ScanChar
<1> QED BY <1>1, <1>2, <1>3, <1>4

LEMMA ScanIs ==
  ASSUME NEW T, NEW b \in Seq(T)
  PROVE  /\ Scan(b) \in [0 .. Len(b) -> Scans]
         /\ Scan(b)[0] = Outside
         /\ \A i \in 1 .. Len(b) : Scan(b)[i] = ScanChar(Scan(b)[i - 1], b[i])
<1> DEFINE D == 0 .. Len(b)
           F == [p \in [D -> Scans] \X D |->
                   IF p[2] = 0 THEN Outside ELSE ScanChar(p[1][p[2] - 1], b[p[2]])]
           rank == [i \in D |-> i]
<1>1. Outside \in Scans /\ Len(b) \in Nat
  BY LenProperties DEF Outside, Scans
<1>2. \A g \in [D -> Scans], i \in D : i # 0 => i - 1 \in D /\ g[i - 1] \in Scans
  BY <1>1
<1>3. F \in [[D -> Scans] \X D -> Scans]
  BY <1>1, <1>2, ScanCharType
<1>4. ASSUME NEW g \in [D -> Scans], NEW h \in [D -> Scans], NEW i \in D,
             \A j \in D : rank[j] < rank[i] => g[j] = h[j]
      PROVE  F[<<g, i>>] = F[<<h, i>>]
  BY <1>1, <1>2, <1>4
<1>5. rank \in [D -> 0 .. Len(b)]
  OBVIOUS
<1>6. Recurrence(D, Scans, Len(b), rank, F)
  <2> HIDE DEF D, F, rank
  <2> QED BY <1>1, <1>3, <1>4, <1>5 DEF Recurrence
<1>7. PICK f \in [D -> Scans] : \A i \in D : f[i] = F[<<f, i>>]
  <2> HIDE DEF D, F, rank
  <2> QED BY <1>6, Recursion
<1>8. f = [i \in 0 .. Len(b) |-> IF i = 0 THEN Outside ELSE ScanChar(f[i - 1], b[i])]
  BY <1>7
<1> HIDE DEF D, F
<1>9. Scan(b) = [i \in 0 .. Len(b) |-> IF i = 0 THEN Outside ELSE ScanChar(Scan(b)[i - 1], b[i])]
  <2> DEFINE G(g) == [i \in 0 .. Len(b) |-> IF i = 0 THEN Outside ELSE ScanChar(g[i - 1], b[i])]
  <2>1. f = G(f)
    BY <1>8
  <2>2. Scan(b) = CHOOSE g : g = G(g)
    BY DEF Scan
  <2> HIDE DEF G
  <2>3. Scan(b) = G(Scan(b))
    BY <2>1, <2>2
  <2> QED BY <2>3 DEF G
<1> DEFINE S == {n \in Nat : n <= Len(b) => Scan(b)[n] \in Scans}
<1>10. 0 \in S
  BY <1>1, <1>9
<1>11. ASSUME NEW n \in Nat, n \in S
       PROVE  n + 1 \in S
  BY <1>1, <1>9, <1>11, ScanCharType
<1>12. \A n \in 0 .. Len(b) : Scan(b)[n] \in Scans
  <2>1. Nat \subseteq S
    <3> HIDE DEF S
    <3> QED BY <1>10, <1>11, Induction
  <2>2. ASSUME NEW n \in 0 .. Len(b)
        PROVE  Scan(b)[n] \in Scans
    <3>1. n \in Nat /\ n <= Len(b)
      BY <1>1
    <3>2. n \in S
      BY <2>1, <3>1
    <3> QED BY <3>1, <3>2
  <2> QED BY <2>2
<1> DEFINE scan == Scan(b)
<1> HIDE DEF scan, S
<1>13. scan = [i \in 0 .. Len(b) |-> IF i = 0 THEN Outside ELSE ScanChar(scan[i - 1], b[i])]
  BY <1>9 DEF scan
<1>14. scan \in [0 .. Len(b) -> Scans]
  BY <1>12, <1>13 DEF scan
<1>15. scan[0] = Outside
  BY <1>1, <1>13
<1>16. ASSUME NEW i \in 1 .. Len(b)
       PROVE  scan[i] = ScanChar(scan[i - 1], b[i])
  <2>1. i \in 0 .. Len(b) /\ i # 0
    BY <1>1
  <2> QED BY <1>13, <2>1
<1> QED BY <1>14, <1>15, <1>16 DEF scan

\* A byte moves the position on, and sets the end at most once.
LEMMA ScanCharEnd ==
  ASSUME NEW scan \in Scans, NEW char
  PROVE  /\ ScanChar(scan, char).at = scan.at + 1
         /\ ScanChar(scan, char).end \in {scan.end, scan.at + 1}
         /\ scan.end >= 0 => ScanChar(scan, char).end = scan.end
BY DEF ScanChar, InString, InObject, Scans

LEMMA ScanEnd ==
  ASSUME NEW T, NEW b \in Seq(T), NEW i \in 0 .. Len(b)
  PROVE  /\ Scan(b)[i] \in Scans
         /\ Scan(b)[i].at = i
         /\ Scan(b)[i].end \in {-1} \union 1 .. i
         /\ \A j \in i .. Len(b) :
              Scan(b)[i].end >= 0 => Scan(b)[j].end = Scan(b)[i].end
<1>1. Len(b) \in Nat
  BY LenProperties
<1> DEFINE Good(n) == /\ Scan(b)[n].at = n
                      /\ Scan(b)[n].end \in {-1} \union 1 .. n
                      /\ n >= i /\ Scan(b)[i].end >= 0 => Scan(b)[n].end = Scan(b)[i].end
           S == {n \in 0 .. Len(b) : Good(n)}
<1>2. 0 \in S
  <2>1. Scan(b)[0].at = 0 /\ Scan(b)[0].end = -1
    BY ScanIs DEF Outside
  <2> QED BY <1>1, <2>1
<1>3. ASSUME NEW n \in 0 .. Len(b) - 1, n \in S
      PROVE  n + 1 \in S
  <2> DEFINE old == Scan(b)[n]
             new == Scan(b)[n + 1]
  <2>1. old \in Scans /\ new = ScanChar(old, b[n + 1])
    <3>1. n \in 0 .. Len(b) /\ n + 1 \in 1 .. Len(b) /\ (n + 1) - 1 = n
      BY <1>1
    <3>2. Scan(b)[n + 1] = ScanChar(Scan(b)[(n + 1) - 1], b[n + 1])
      BY <3>1, ScanIs
    <3>3. Scan(b)[n] \in Scans
      BY <3>1, ScanIs
    <3> QED BY <3>1, <3>2, <3>3
  <2>2. new.at = old.at + 1 /\ new.end \in {old.end, old.at + 1}
        /\ (old.end >= 0 => new.end = old.end)
    <3> HIDE DEF old, new
    <3> QED BY <2>1, ScanCharEnd
  <2>3. old.at = n /\ old.end \in {-1} \union 1 .. n
        /\ (n >= i /\ Scan(b)[i].end >= 0 => old.end = Scan(b)[i].end)
    BY <1>3
  <2>4. new.at = n + 1 /\ new.end \in {-1} \union 1 .. n + 1
    <3> HIDE DEF old, new
    <3> QED BY <1>1, <2>2, <2>3
  <2>5. n + 1 >= i /\ Scan(b)[i].end >= 0 => new.end = Scan(b)[i].end
    <3>1. n + 1 = i => new = Scan(b)[i]
      OBVIOUS
    <3>2. i \in Nat
      BY <1>1
    <3> HIDE DEF old, new
    <3> QED BY <1>1, <2>2, <2>3, <3>1, <3>2
  <2> QED BY <1>1, <2>4, <2>5
<1>4. 0 .. Len(b) \subseteq S
  <2> HIDE DEF S
  <2> QED BY <1>1, <1>2, <1>3, InductionUpTo
<1>5. Scan(b)[i] \in Scans
  BY ScanIs
<1> QED BY <1>1, <1>4, <1>5

\* The scanner does not look ahead.
LEMMA EndOfPrefix ==
  ASSUME NEW T, NEW b \in Seq(T), NEW n \in 0 .. Len(b)
  PROVE  findJSONObjectEnd(SubSeq(b, 1, n)) = Scan(b)[n].end
<1> DEFINE c == SubSeq(b, 1, n)
<1>1. c \in Seq(T) /\ Len(c) = n /\ n \in Nat /\ \A i \in 1 .. n : c[i] = b[i]
  OBVIOUS
<1> HIDE DEF c
<1> DEFINE S == {i \in 0 .. n : Scan(c)[i] = Scan(b)[i]}
<1>2. 0 \in S
  BY <1>1, ScanIs
<1>3. ASSUME NEW i \in 0 .. n - 1, i \in S
      PROVE  i + 1 \in S
  <2>1. i + 1 \in 1 .. Len(b) /\ i + 1 \in 1 .. Len(c) /\ c[i + 1] = b[i + 1]
    BY <1>1
  <2>2. Scan(c)[i + 1] = ScanChar(Scan(c)[i], c[i + 1])
    BY <1>1, <2>1, ScanIs
  <2>3. Scan(b)[i + 1] = ScanChar(Scan(b)[i], b[i + 1])
    BY <1>1, <2>1, ScanIs
  <2> QED BY <1>1, <1>3, <2>1, <2>2, <2>3
<1>4. 0 .. n \subseteq S
  <2> HIDE DEF S
  <2> QED BY <1>1, <1>2, <1>3, InductionUpTo
<1>5. Scan(c)[n] = Scan(b)[n]
  BY <1>1, <1>4
<1> QED BY <1>1, <1>5 DEF findJSONObjectEnd, c

\* Inside an object of depth d, outside of strings or between two of a string's
\* characters.
Inside(scan, p, d) ==
  /\ scan \in Scans
  /\ scan.started /\ ~scan.escaped
  /\ scan.at = p /\ scan.depth = d /\ scan.end = -1

InsideObject(scan, p, d) == Inside(scan, p, d) /\ ~scan.inString
InsideString(scan, p, d) == Inside(scan, p, d) /\ scan.inString

LEMMA FirstBrace == InsideObject(ScanChar(Outside, "open"), 1, 1)
<1> DEFINE s == ScanChar(Outside, "open")
<1>1. Outside \in Scans
  BY DEF Outside, Scans
<1>2. s \in Scans
  BY <1>1, ScanCharType
<1>3. ASSUME NEW scan \in Scans, scan = Outside, NEW char, char = "open"
      PROVE  LET new == ScanChar(scan, char)
             IN  /\ new.started /\ new.depth = 1 /\ new.at = 1 /\ new.end = -1
                 /\ ~new.inString /\ ~new.escaped
  <2>1. /\ ~scan.started /\ ~scan.inString /\ ~scan.escaped
        /\ scan.at = 0 /\ scan.end = -1
    BY <1>3 DEF Outside
  <2> DEFINE new == ScanChar(scan, char)
  <2>2. new.started <=> char = "open"
    <3> DEFINE t == [scan EXCEPT !.at = @ + 1]
    <3>1. t \in Scans /\ new = [t EXCEPT !.started = (char = "open"), !.depth = 1]
      BY <2>1 DEF ScanChar, Scans
    <3> HIDE DEF t, new
    <3> QED BY <3>1 DEF Scans
  <2>3. ~new.inString /\ ~new.escaped
    BY <2>1 DEF ScanChar, Scans
  <2>4. new.depth = 1 /\ new.at = 1 /\ new.end = -1
    BY <2>1 DEF ScanChar, Scans
  <2> QED BY <1>3, <2>2, <2>3, <2>4
<1> HIDE DEF s
<1>4. s = ScanChar(Outside, "open")
  BY DEF s
<1> QED BY <1>1, <1>2, <1>3, <1>4 DEF Inside, InsideObject

LEMMA ObjectSteps ==
  ASSUME NEW p \in Nat, NEW d \in Nat \ {0}, NEW scan, InsideObject(scan, p, d)
  PROVE  /\ InsideObject(ScanChar(scan, "open"), p + 1, d + 1)
         /\ d > 1 => InsideObject(ScanChar(scan, "close"), p + 1, d - 1)
         /\ d = 1 => ScanChar(scan, "close").end = p + 1
         /\ InsideString(ScanChar(scan, "quote"), p + 1, d)
<1>1. ASSUME NEW char
      PROVE  LET new == ScanChar(scan, char)
             IN  /\ new \in Scans /\ new.started /\ ~new.escaped /\ new.at = p + 1
                 /\ new.inString <=> char = "quote"
                 /\ char = "open" => new.depth = d + 1
                 /\ char = "close" => new.depth = d - 1
                 /\ char \notin {"open", "close"} => new.depth = d
                 /\ new.end = IF char = "close" /\ d = 1 THEN p + 1 ELSE -1
  <2> DEFINE s == [scan EXCEPT !.at = @ + 1]
             new == InObject(s, char)
  <2>1. /\ scan \in Scans /\ scan.started /\ ~scan.escaped /\ ~scan.inString
        /\ scan.at = p /\ scan.depth = d /\ scan.end = -1
    BY DEF InsideObject, Inside
  <2>2. s \in Scans /\ s.started /\ ~s.escaped /\ s.at = p + 1 /\ s.depth = d /\ s.end = -1
    BY <2>1 DEF Scans
  <2>3. ScanChar(scan, char) = new
    BY <2>1 DEF ScanChar, Scans
  <2> HIDE DEF s
  <2>4. new \in Scans
    BY <2>2, InObjectType
  <2>5. new.started /\ ~new.escaped /\ new.at = p + 1
    BY <2>2 DEF InObject, Scans
  <2>6. new.inString <=> char = "quote"
    BY <2>2 DEF InObject, Scans
  <2>7. new.depth = IF char = "open" THEN d + 1 ELSE IF char = "close" THEN d - 1 ELSE d
    BY <2>2 DEF InObject, Scans
  <2>8. new.end = IF char = "close" /\ d = 1 THEN p + 1 ELSE -1
    BY <2>2 DEF InObject, Scans
  <2> HIDE DEF new
  <2> QED BY <2>3, <2>4, <2>5, <2>6, <2>7, <2>8
<1>2. InsideObject(ScanChar(scan, "open"), p + 1, d + 1)
  <2> DEFINE new == ScanChar(scan, "open")
  <2>1. /\ new \in Scans /\ new.started /\ ~new.escaped /\ new.at = p + 1
    BY <1>1
  <2>2. ~new.inString
    BY <1>1
  <2>3. new.depth = d + 1
    BY <1>1
  <2>4. new.end = -1
    BY <1>1
  <2> HIDE DEF new
  <2>5. InsideObject(new, p + 1, d + 1)
    BY <2>1, <2>2, <2>3, <2>4 DEF Inside, InsideObject
  <2> QED BY <2>5 DEF new
<1>3. d > 1 => InsideObject(ScanChar(scan, "close"), p + 1, d - 1)
  BY <1>1 DEF Inside, InsideObject
<1>4. d = 1 => ScanChar(scan, "close").end = p + 1
  BY <1>1
<1>5. InsideString(ScanChar(scan, "quote"), p + 1, d)
  BY <1>1 DEF Inside, InsideString
<1> QED BY <1>2, <1>3, <1>4, <1>5

LEMMA StringSteps ==
  ASSUME NEW p \in Nat, NEW d \in Nat \ {0}, NEW scan, InsideString(scan, p, d)
  PROVE  /\ InsideObject(ScanChar(scan, "quote"), p + 1, d)
         /\ InsideString(ScanChar(scan, "open"), p + 1, d)
         /\ InsideString(ScanChar(scan, "close"), p + 1, d)
         /\ \A char : InsideString(ScanChar(ScanChar(scan, "backslash"), char), p + 2, d)
<1>1. ASSUME NEW t \in Scans, NEW q \in Nat, NEW char,
             t.started, t.inString, t.at = q, t.depth = d, t.end = -1
      PROVE  LET new == ScanChar(t, char)
             IN  /\ new \in Scans /\ new.started
                 /\ new.at = q + 1 /\ new.depth = d /\ new.end = -1
                 /\ new.escaped <=> ~t.escaped /\ char = "backslash"
                 /\ new.inString <=> t.escaped \/ char # "quote"
  <2> DEFINE s == [t EXCEPT !.at = @ + 1]
             new == InString(s, char)
  <2>1. /\ s \in Scans /\ s.started /\ s.inString
        /\ s.at = q + 1 /\ s.depth = d /\ s.end = -1 /\ s.escaped = t.escaped
    BY <1>1 DEF Scans
  <2>2. ScanChar(t, char) = new
    BY <1>1 DEF ScanChar, Scans
  <2> HIDE DEF s
  <2>3. new \in Scans
    BY <2>1, InStringType
  <2>4. new.started /\ new.at = q + 1 /\ new.depth = d /\ new.end = -1
    BY <2>1 DEF InString, Scans
  <2>5. new.escaped <=> ~s.escaped /\ char = "backslash"
    BY <2>1 DEF InString, Scans
  <2>6. new.inString <=> s.escaped \/ char # "quote"
    BY <2>1 DEF InString, Scans
  <2> HIDE DEF new
  <2> QED BY <2>1, <2>2, <2>3, <2>4, <2>5, <2>6
<1>2. /\ scan \in Scans /\ scan.started /\ ~scan.escaped /\ scan.inString
      /\ scan.at = p /\ scan.depth = d /\ scan.end = -1
  BY DEF InsideString, Inside
<1>3. InsideObject(ScanChar(scan, "quote"), p + 1, d)
  BY <1>1, <1>2 DEF Inside, InsideObject
<1>4. InsideString(ScanChar(scan, "open"), p + 1, d) /\ InsideString(ScanChar(scan, "close"), p + 1, d)
  BY <1>1, <1>2 DEF Inside, InsideString
<1>5. ASSUME NEW char
      PROVE  InsideString(ScanChar(ScanChar(scan, "backslash"), char), p + 2, d)
  <2> DEFINE s == ScanChar(scan, "backslash")
  <2>1. /\ s \in Scans /\ s.started /\ s.escaped /\ s.inString
        /\ s.at = p + 1 /\ s.depth = d /\ s.end = -1
    BY <1>1, <1>2
  <2> HIDE DEF s
  <2>2. InsideString(ScanChar(s, char), (p + 1) + 1, d)
    BY <1>1, <2>1 DEF Inside, InsideString
  <2> QED BY <2>2 DEF s
<1> QED BY <1>3, <1>4, <1>5

----------------------------------------------------------------------------
(* The grammar.                                                            *)

LEMMA JoinedAre ==
  ASSUME NEW A, NEW B, NEW w \in Joined(A, B)
  PROVE  \E a \in A, b \in B : w = a \o b
BY DEF Joined

LEMMA JoinedType ==
  ASSUME NEW A, NEW B, A \subseteq Seq(Text), B \subseteq Seq(Text)
  PROVE  Joined(A, B) \subseteq Seq(Text)
<1> SUFFICES ASSUME NEW w \in Joined(A, B)
             PROVE  w \in Seq(Text)
  OBVIOUS
<1>1. PICK a \in A, b \in B : w = a \o b
  BY JoinedAre
<1> QED BY <1>1

Wrap(left, inner, right) == (<<left>> \o inner) \o <<right>>

LEMMA EnclosedAre ==
  ASSUME NEW a, NEW c, NEW B, NEW w \in Enclosed(a, B, c)
  PROVE  \E b \in B : w = Wrap(a, b, c)
<1> DEFINE L == {<<a>>}
           R == {<<c>>}
           A == Joined(L, B)
<1>1. w \in Joined(A, R)
  BY DEF Enclosed
<1>2. \A x \in L : x = <<a>>
  OBVIOUS
<1>3. \A x \in R : x = <<c>>
  OBVIOUS
<1> HIDE DEF L, R
<1>4. PICK v \in A, right \in R : w = v \o right
  <2> HIDE DEF A
  <2> QED BY <1>1, JoinedAre
<1>5. PICK left \in L, b \in B : v = left \o b
  BY JoinedAre
<1>6. left = <<a>> /\ right = <<c>>
  BY <1>2, <1>3
<1> QED BY <1>4, <1>5, <1>6 DEF Wrap

LEMMA EnclosedType ==
  ASSUME NEW a \in Text, NEW c \in Text, NEW B, B \subseteq Seq(Text)
  PROVE  Enclosed(a, B, c) \subseteq Seq(Text)
<1> DEFINE L == {<<a>>}
           R == {<<c>>}
<1>1. L \subseteq Seq(Text) /\ R \subseteq Seq(Text)
  OBVIOUS
<1>2. Enclosed(a, B, c) = Joined(Joined(L, B), R)
  BY DEF Enclosed
<1> HIDE DEF L, R
<1>3. Joined(L, B) \subseteq Seq(Text)
  BY <1>1, JoinedType
<1> DEFINE A == Joined(L, B)
<1> HIDE DEF A
<1>4. A \subseteq Seq(Text) /\ Enclosed(a, B, c) = Joined(A, R)
  BY <1>2, <1>3 DEF A
<1> QED BY <1>1, <1>4, JoinedType

\* One step of the recursion.
BodiesFrom(bodies, n) ==
  IF n = 0 THEN {<<>>}
  ELSE Joined({<<"open">>, <<"close">>}, bodies[n - 1])
       \union IF n = 1 THEN {}
              ELSE Joined({<<"backslash", c>> : c \in Text}, bodies[n - 2])

LEMMA BodiesType ==
  ASSUME NEW bodies, NEW n \in Nat, \A m \in 0 .. n - 1 : bodies[m] \subseteq Seq(Text)
  PROVE  BodiesFrom(bodies, n) \subseteq Seq(Text)
<1>1. {<<"open">>, <<"close">>} \subseteq Seq(Text)
  BY DEF Text
<1>2. {<<"backslash", c>> : c \in Text} \subseteq Seq(Text)
  <2>1. \A c \in Text : <<"backslash", c>> \in Seq(Text)
    BY DEF Text
  <2> QED BY <2>1
<1>3. ASSUME n # 0
      PROVE  Joined({<<"open">>, <<"close">>}, bodies[n - 1]) \subseteq Seq(Text)
  <2> DEFINE A == {<<"open">>, <<"close">>}
  <2>1. A \subseteq Seq(Text)
    BY <1>1
  <2> DEFINE B == bodies[n - 1]
  <2>2. B \subseteq Seq(Text)
    BY <1>3
  <2> HIDE DEF A, B
  <2>3. Joined(A, B) \subseteq Seq(Text)
    BY <2>1, <2>2, JoinedType
  <2> QED BY <2>3 DEF A, B
<1>4. ASSUME n # 0, n # 1
      PROVE  Joined({<<"backslash", c>> : c \in Text}, bodies[n - 2]) \subseteq Seq(Text)
  <2> DEFINE A == {<<"backslash", c>> : c \in Text}
  <2>1. A \subseteq Seq(Text)
    BY <1>2
  <2> DEFINE B == bodies[n - 2]
  <2>2. B \subseteq Seq(Text)
    BY <1>4
  <2> HIDE DEF A, B
  <2>3. Joined(A, B) \subseteq Seq(Text)
    BY <2>1, <2>2, JoinedType
  <2> QED BY <2>3 DEF A, B
<1>5. {<<>>} \subseteq Seq(Text)
  OBVIOUS
<1> QED BY <1>3, <1>4, <1>5 DEF BodiesFrom

LEMMA BodiesAre ==
  ASSUME NEW n \in 0 .. MaxText
  PROVE  StringBodies[n] = BodiesFrom(StringBodies, n) /\ StringBodies[n] \subseteq Seq(Text)
<1> DEFINE D == 0 .. MaxText
           V == SUBSET Seq(Text)
           F == [p \in [D -> V] \X D |-> BodiesFrom(p[1], p[2])]
           rank == [i \in D |-> i]
<1>1. MaxText \in Nat
  BY BoundsAreNat
<1>2. ASSUME NEW g \in [D -> V], NEW i \in D
      PROVE  F[<<g, i>>] = BodiesFrom(g, i) /\ BodiesFrom(g, i) \in V
  <2>1. \A m \in 0 .. i - 1 : g[m] \subseteq Seq(Text)
    BY <1>1
  <2>2. BodiesFrom(g, i) \in V
    BY <1>1, <2>1, BodiesType
  <2> QED BY <2>2
<1>3. F \in [[D -> V] \X D -> V]
  BY <1>2
<1>4. ASSUME NEW g \in [D -> V], NEW h \in [D -> V], NEW i \in D,
             \A j \in D : rank[j] < rank[i] => g[j] = h[j]
      PROVE  F[<<g, i>>] = F[<<h, i>>]
  <2>1. i # 0 => g[i - 1] = h[i - 1]
    BY <1>1, <1>4
  <2>2. i # 0 /\ i # 1 => g[i - 2] = h[i - 2]
    BY <1>1, <1>4
  <2>3. BodiesFrom(g, i) = BodiesFrom(h, i)
    BY <2>1, <2>2 DEF BodiesFrom
  <2> QED BY <1>2, <2>3
<1>5. Recurrence(D, V, MaxText, rank, F)
  <2>1. rank \in [D -> 0 .. MaxText] /\ {} \in V
    OBVIOUS
  <2> HIDE DEF D, V, F, rank
  <2> QED BY <1>1, <1>3, <1>4, <2>1 DEF Recurrence
<1>6. PICK f \in [D -> V] : \A i \in D : f[i] = F[<<f, i>>]
  <2> HIDE DEF D, V, F, rank
  <2> QED BY <1>5, Recursion
<1>7. f = [i \in 0 .. MaxText |-> BodiesFrom(f, i)]
  <2>1. \A i \in D : f[i] = BodiesFrom(f, i)
    BY <1>2, <1>6
  <2> QED BY <2>1
<1> HIDE DEF F
<1>8. StringBodies = [i \in 0 .. MaxText |-> BodiesFrom(StringBodies, i)]
  <2> DEFINE G(g) == [i \in 0 .. MaxText |-> BodiesFrom(g, i)]
  <2>1. f = G(f)
    BY <1>7
  <2>2. StringBodies = CHOOSE g : g = G(g)
    BY DEF StringBodies, BodiesFrom
  <2> HIDE DEF G
  <2>3. StringBodies = G(StringBodies)
    BY <2>1, <2>2
  <2> QED BY <2>3 DEF G
<1>9. \A i \in 0 .. MaxText : StringBodies[i] = BodiesFrom(StringBodies, i)
  BY <1>8
<1> DEFINE S == {i \in Nat : i <= MaxText => StringBodies[i] \subseteq Seq(Text)}
<1>10. ASSUME NEW i \in Nat, \A m \in 0 .. i - 1 : m \in S
       PROVE  i \in S
  <2>1. i <= MaxText => \A m \in 0 .. i - 1 : StringBodies[m] \subseteq Seq(Text)
    BY <1>1, <1>10
  <2>2. i <= MaxText => BodiesFrom(StringBodies, i) \subseteq Seq(Text)
    BY <2>1, BodiesType
  <2> QED BY <1>1, <1>9, <2>2
<1>11. Nat \subseteq S
  <2> HIDE DEF S
  <2> QED BY <1>10, CompleteInduction
<1> QED BY <1>1, <1>9, <1>11

FirstItems(items, k) ==
  Enclosed("quote", StringBodies[k - 2], "quote") \union Enclosed("open", items[k - 2], "close")

ItemsFrom(items, n) ==
  IF n = 0 THEN {<<>>}
  ELSE UNION {Joined(FirstItems(items, k), items[n - k]) : k \in 2 .. n}

LEMMA ItemsSplit ==
  ASSUME NEW items, NEW n \in Nat \ {0}, NEW w \in ItemsFrom(items, n)
  PROVE  \E k \in 2 .. n : \E first \in FirstItems(items, k), others \in items[n - k] :
           w = first \o others
<1>1. PICK k \in 2 .. n : w \in Joined(FirstItems(items, k), items[n - k])
  BY DEF ItemsFrom
<1>2. PICK first \in FirstItems(items, k), others \in items[n - k] : w = first \o others
  BY <1>1, JoinedAre
<1> QED BY <1>2

LEMMA ItemsType ==
  ASSUME NEW items, NEW n \in 0 .. MaxText, \A m \in 0 .. n - 1 : items[m] \subseteq Seq(Text)
  PROVE  ItemsFrom(items, n) \subseteq Seq(Text)
<1>1. MaxText \in Nat /\ n \in Nat
  BY BoundsAreNat
<1>2. CASE n = 0
  BY <1>2 DEF ItemsFrom
<1>3. CASE n # 0
  <2> SUFFICES ASSUME NEW w \in ItemsFrom(items, n)
               PROVE  w \in Seq(Text)
    OBVIOUS
  <2>1. PICK k \in 2 .. n : \E first \in FirstItems(items, k), others \in items[n - k] :
                              w = first \o others
    BY <1>1, <1>3, ItemsSplit
  <2>2. PICK first \in FirstItems(items, k), others \in items[n - k] : w = first \o others
    BY <2>1
  <2>3. /\ k - 2 \in 0 .. n - 1 /\ n - k \in 0 .. n - 1 /\ k - 2 \in 0 .. MaxText
    BY <1>1
  <2>4. items[k - 2] \subseteq Seq(Text) /\ items[n - k] \subseteq Seq(Text)
    BY <2>3
  <2>5. StringBodies[k - 2] \subseteq Seq(Text)
    BY <2>3, BodiesAre
  <2>6. "quote" \in Text /\ "open" \in Text /\ "close" \in Text
    BY DEF Text
  <2>7. Enclosed("quote", StringBodies[k - 2], "quote") \subseteq Seq(Text)
    BY <2>5, <2>6, EnclosedType
  <2>8. Enclosed("open", items[k - 2], "close") \subseteq Seq(Text)
    BY <2>4, <2>6, EnclosedType
  <2>9. first \in Seq(Text) /\ others \in Seq(Text)
    BY <2>4, <2>7, <2>8 DEF FirstItems
  <2> QED BY <2>2, <2>9
<1> QED BY <1>2, <1>3

LEMMA ItemsAre ==
  ASSUME NEW n \in 0 .. MaxText
  PROVE  Items[n] = ItemsFrom(Items, n) /\ Items[n] \subseteq Seq(Text)
<1> DEFINE D == 0 .. MaxText
           V == SUBSET Seq(Text)
           F == [p \in [D -> V] \X D |-> ItemsFrom(p[1], p[2])]
           rank == [i \in D |-> i]
<1>1. MaxText \in Nat
  BY BoundsAreNat
<1>2. ASSUME NEW g \in [D -> V], NEW i \in D
      PROVE  F[<<g, i>>] = ItemsFrom(g, i) /\ ItemsFrom(g, i) \in V
  <2>1. \A m \in 0 .. i - 1 : g[m] \subseteq Seq(Text)
    BY <1>1
  <2>2. ItemsFrom(g, i) \in V
    BY <1>1, <2>1, ItemsType
  <2> QED BY <2>2
<1>3. F \in [[D -> V] \X D -> V]
  BY <1>2
<1>4. ASSUME NEW g \in [D -> V], NEW h \in [D -> V], NEW i \in D,
             \A j \in D : rank[j] < rank[i] => g[j] = h[j]
      PROVE  F[<<g, i>>] = F[<<h, i>>]
  <2>1. \A j \in 0 .. i - 1 : g[j] = h[j]
    BY <1>1, <1>4
  <2>2. ASSUME NEW k \in 2 .. i
        PROVE  Joined(FirstItems(g, k), g[i - k]) = Joined(FirstItems(h, k), h[i - k])
    <3>1. g[k - 2] = h[k - 2] /\ g[i - k] = h[i - k]
      BY <1>1, <2>1
    <3> QED BY <3>1 DEF FirstItems
  <2>3. ItemsFrom(g, i) = ItemsFrom(h, i)
    BY <2>2 DEF ItemsFrom
  <2> QED BY <1>2, <2>3
<1>5. Recurrence(D, V, MaxText, rank, F)
  <2>1. rank \in [D -> 0 .. MaxText] /\ {} \in V
    OBVIOUS
  <2> HIDE DEF D, V, F, rank
  <2> QED BY <1>1, <1>3, <1>4, <2>1 DEF Recurrence
<1>6. PICK f \in [D -> V] : \A i \in D : f[i] = F[<<f, i>>]
  <2> HIDE DEF D, V, F, rank
  <2> QED BY <1>5, Recursion
<1>7. f = [i \in 0 .. MaxText |-> ItemsFrom(f, i)]
  <2>1. \A i \in D : f[i] = ItemsFrom(f, i)
    BY <1>2, <1>6
  <2> QED BY <2>1
<1> HIDE DEF F
<1>8. Items = [i \in 0 .. MaxText |-> ItemsFrom(Items, i)]
  <2> DEFINE G(g) == [i \in 0 .. MaxText |-> ItemsFrom(g, i)]
  <2>1. f = G(f)
    BY <1>7
  <2>2. Items = CHOOSE g : g = G(g)
    BY DEF Items, ItemsFrom, FirstItems
  <2> HIDE DEF G
  <2>3. Items = G(Items)
    BY <2>1, <2>2
  <2> QED BY <2>3 DEF G
<1>9. \A i \in 0 .. MaxText : Items[i] = ItemsFrom(Items, i)
  BY <1>8
<1> DEFINE S == {i \in Nat : i <= MaxText => Items[i] \subseteq Seq(Text)}
<1>10. ASSUME NEW i \in Nat, \A m \in 0 .. i - 1 : m \in S
       PROVE  i \in S
  <2>1. i <= MaxText => \A m \in 0 .. i - 1 : Items[m] \subseteq Seq(Text)
    BY <1>1, <1>10
  <2>2. i <= MaxText => ItemsFrom(Items, i) \subseteq Seq(Text)
    BY <1>1, <2>1, ItemsType
  <2> QED BY <1>1, <1>9, <2>2
<1>11. Nat \subseteq S
  <2> HIDE DEF S
  <2> QED BY <1>10, CompleteInduction
<1> QED BY <1>1, <1>9, <1>11

----------------------------------------------------------------------------
(* The scanner and the grammar agree.                                      *)

\* The word w is in b behind position p.
Occurs(b, p, w) ==
  /\ p + Len(w) <= Len(b)
  /\ \A j \in 1 .. Len(w) : b[p + j] = w[j]

LEMMA OccursParts ==
  ASSUME NEW b \in Seq(Text), NEW p \in Nat, NEW u \in Seq(Text), NEW v \in Seq(Text),
         Occurs(b, p, u \o v)
  PROVE  Occurs(b, p, u) /\ Occurs(b, p + Len(u), v)
<1>1. Len(u) \in Nat /\ Len(v) \in Nat /\ Len(b) \in Nat /\ Len(u \o v) = Len(u) + Len(v)
  BY LenProperties
<1>2. \A j \in 1 .. Len(u) : (u \o v)[j] = u[j]
  OBVIOUS
<1>3. \A j \in 1 .. Len(v) : (u \o v)[Len(u) + j] = v[j]
  OBVIOUS
<1>4. Occurs(b, p, u)
  BY <1>1, <1>2 DEF Occurs
<1>5. ASSUME NEW j \in 1 .. Len(v)
      PROVE  b[(p + Len(u)) + j] = v[j]
  <2>1. Len(u) + j \in 1 .. Len(u \o v) /\ p + (Len(u) + j) = (p + Len(u)) + j
    BY <1>1
  <2> QED BY <1>3, <2>1 DEF Occurs
<1> QED BY <1>1, <1>4, <1>5 DEF Occurs

\* A character is scanned.
LEMMA OccursOne ==
  ASSUME NEW b \in Seq(Text), NEW p \in Nat, NEW c, Occurs(b, p, <<c>>)
  PROVE  /\ p \in 0 .. Len(b) /\ p + 1 \in 1 .. Len(b)
         /\ Scan(b)[p + 1] = ScanChar(Scan(b)[p], c)
<1>1. Len(b) \in Nat /\ p + 1 <= Len(b) /\ b[p + 1] = c
  BY LenProperties DEF Occurs
<1>2. p \in 0 .. Len(b) /\ p + 1 \in 1 .. Len(b) /\ (p + 1) - 1 = p
  BY <1>1
<1>3. Scan(b)[p + 1] = ScanChar(Scan(b)[(p + 1) - 1], b[p + 1])
  BY <1>2, ScanIs
<1> QED BY <1>1, <1>2, <1>3

LEMMA BodySplit ==
  ASSUME NEW n \in 0 .. MaxText, NEW w \in StringBodies[n]
  PROVE  \/ w = <<>>
         \/ n >= 1 /\ \E c \in {"open", "close"}, v \in StringBodies[n - 1] : w = <<c>> \o v
         \/ n >= 2 /\ \E c \in Text, v \in StringBodies[n - 2] : w = <<"backslash", c>> \o v
<1>1. MaxText \in Nat /\ n \in Nat
  BY BoundsAreNat
<1>2. w \in BodiesFrom(StringBodies, n)
  BY BodiesAre
<1>3. CASE n = 0
  BY <1>2, <1>3 DEF BodiesFrom
<1> DEFINE A == {<<"open">>, <<"close">>}
           B == {<<"backslash", c>> : c \in Text}
<1>4. n # 0 => w \in Joined(A, StringBodies[n - 1])
               \/ (n # 1 /\ w \in Joined(B, StringBodies[n - 2]))
  <2>1. BodiesFrom(StringBodies, n) =
          IF n = 0 THEN {<<>>}
          ELSE Joined(A, StringBodies[n - 1])
               \union IF n = 1 THEN {} ELSE Joined(B, StringBodies[n - 2])
    BY Zenon DEF BodiesFrom
  <2> HIDE DEF A, B
  <2> QED BY <1>2, <2>1
<1>5. \A a \in A : \E c \in {"open", "close"} : a = <<c>>
  OBVIOUS
<1>6. \A a \in B : \E c \in Text : a = <<"backslash", c>>
  OBVIOUS
<1> HIDE DEF A, B
<1>7. ASSUME n # 0, w \in Joined(A, StringBodies[n - 1])
      PROVE  \E c \in {"open", "close"}, v \in StringBodies[n - 1] : w = <<c>> \o v
  <2>1. PICK a \in A, v \in StringBodies[n - 1] : w = a \o v
    BY <1>7, JoinedAre
  <2>2. PICK c \in {"open", "close"} : a = <<c>>
    BY <1>5
  <2> QED BY <2>1, <2>2
<1>8. ASSUME n # 0, n # 1, w \in Joined(B, StringBodies[n - 2])
      PROVE  \E c \in Text, v \in StringBodies[n - 2] : w = <<"backslash", c>> \o v
  <2>1. PICK a \in B, v \in StringBodies[n - 2] : w = a \o v
    BY <1>8, JoinedAre
  <2>2. PICK c \in Text : a = <<"backslash", c>>
    BY <1>6
  <2> QED BY <2>1, <2>2
<1> HIDE DEF A, B
<1>9. CASE n # 0
  <2>1. n >= 1 /\ (n # 1 => n >= 2)
    BY <1>1, <1>9
  <2> QED BY <1>4, <1>7, <1>8, <1>9, <2>1
<1> QED BY <1>3, <1>9

\* Scanning the inside of a string stays inside of it.
LEMMA StringScan ==
  ASSUME NEW b \in Seq(Text), NEW d \in Nat \ {0}
  PROVE  \A n \in 0 .. MaxText : \A w \in StringBodies[n], p \in Nat :
            Occurs(b, p, w) /\ InsideString(Scan(b)[p], p, d)
            => InsideString(Scan(b)[p + Len(w)], p + Len(w), d)
<1> DEFINE Stays(n) == \A w \in StringBodies[n], p \in Nat :
                         Occurs(b, p, w) /\ InsideString(Scan(b)[p], p, d)
                         => InsideString(Scan(b)[p + Len(w)], p + Len(w), d)
           S == {n \in Nat : n <= MaxText => Stays(n)}
<1>1. MaxText \in Nat
  BY BoundsAreNat
<1>2. ASSUME NEW n \in Nat, \A m \in 0 .. n - 1 : m \in S
      PROVE  n \in S
  <2> SUFFICES ASSUME n <= MaxText, NEW w \in StringBodies[n], NEW p \in Nat,
                      Occurs(b, p, w), InsideString(Scan(b)[p], p, d)
               PROVE  InsideString(Scan(b)[p + Len(w)], p + Len(w), d)
    OBVIOUS
  <2>1. CASE w = <<>>
    BY <2>1
  <2>2. ASSUME n >= 1, NEW c \in {"open", "close"}, NEW v \in StringBodies[n - 1], w = <<c>> \o v
        PROVE  InsideString(Scan(b)[p + Len(w)], p + Len(w), d)
    <3>1. n - 1 \in 0 .. n - 1 /\ n - 1 \in 0 .. MaxText
      BY <1>1, <2>2
    <3>2. v \in Seq(Text) /\ <<c>> \in Seq(Text) /\ Len(<<c>>) = 1
      BY <3>1, BodiesAre DEF Text
    <3>3. Occurs(b, p, <<c>>) /\ Occurs(b, p + 1, v)
      BY <2>2, <3>2, OccursParts
    <3>4. Scan(b)[p + 1] = ScanChar(Scan(b)[p], c)
      BY <3>3, OccursOne
    <3>5. InsideString(Scan(b)[p + 1], p + 1, d)
      BY <3>4, StringSteps
    <3>6. Stays(n - 1)
      BY <1>1, <1>2, <3>1
    <3>7. InsideString(Scan(b)[(p + 1) + Len(v)], (p + 1) + Len(v), d)
      BY <3>3, <3>5, <3>6
    <3>8. Len(v) \in Nat /\ Len(w) = 1 + Len(v) /\ (p + 1) + Len(v) = p + Len(w)
      BY <2>2, <3>2, LenProperties
    <3> QED BY <3>7, <3>8
  <2>3. ASSUME n >= 2, NEW c \in Text, NEW v \in StringBodies[n - 2], w = <<"backslash", c>> \o v
        PROVE  InsideString(Scan(b)[p + Len(w)], p + Len(w), d)
    <3>1. n - 2 \in 0 .. n - 1 /\ n - 2 \in 0 .. MaxText
      BY <1>1, <2>3
    <3>2. /\ v \in Seq(Text) /\ <<"backslash">> \in Seq(Text) /\ <<c>> \in Seq(Text)
          /\ <<"backslash", c>> \in Seq(Text)
          /\ Len(<<"backslash", c>>) = 2 /\ Len(<<"backslash">>) = 1
          /\ <<"backslash", c>> = <<"backslash">> \o <<c>>
      BY <3>1, BodiesAre DEF Text
    <3>3. Occurs(b, p, <<"backslash", c>>) /\ Occurs(b, p + 2, v)
      BY <2>3, <3>2, OccursParts
    <3>4. Occurs(b, p, <<"backslash">>) /\ Occurs(b, p + 1, <<c>>)
      BY <3>2, <3>3, OccursParts
    <3>5. Scan(b)[p + 1] = ScanChar(Scan(b)[p], "backslash")
      BY <3>4, OccursOne
    <3>6. Scan(b)[(p + 1) + 1] = ScanChar(Scan(b)[p + 1], c)
      BY <3>4, OccursOne
    <3>7. InsideString(Scan(b)[p + 2], p + 2, d)
      BY <3>5, <3>6, StringSteps
    <3>8. Stays(n - 2)
      BY <1>1, <1>2, <3>1
    <3>9. InsideString(Scan(b)[(p + 2) + Len(v)], (p + 2) + Len(v), d)
      BY <3>3, <3>7, <3>8
    <3>10. Len(v) \in Nat /\ Len(w) = 2 + Len(v) /\ (p + 2) + Len(v) = p + Len(w)
      BY <2>3, <3>2, LenProperties
    <3> QED BY <3>9, <3>10
  <2>4. n \in 0 .. MaxText
    BY <1>1
  <2>5. \/ w = <<>>
        \/ n >= 1 /\ \E c \in {"open", "close"}, v \in StringBodies[n - 1] : w = <<c>> \o v
        \/ n >= 2 /\ \E c \in Text, v \in StringBodies[n - 2] : w = <<"backslash", c>> \o v
    BY <2>4, BodySplit
  <2> QED BY <2>1, <2>2, <2>3, <2>5
<1>3. Nat \subseteq S
  <2> HIDE DEF S
  <2> QED BY <1>2, CompleteInduction
<1> QED BY <1>1, <1>3

LEMMA OccursEnclosed ==
  ASSUME NEW b \in Seq(Text), NEW p \in Nat, NEW left \in Text, NEW right \in Text,
         NEW v \in Seq(Text), Occurs(b, p, Wrap(left, v, right))
  PROVE  /\ Occurs(b, p, <<left>>)
         /\ Occurs(b, p + 1, v)
         /\ Occurs(b, (p + 1) + Len(v), <<right>>)
         /\ Len(Wrap(left, v, right)) = Len(v) + 2
         /\ Len(v) \in Nat
<1>1. /\ <<left>> \in Seq(Text) /\ <<right>> \in Seq(Text) /\ <<left>> \o v \in Seq(Text)
      /\ Len(<<left>>) = 1 /\ Len(<<right>>) = 1 /\ Len(v) \in Nat
      /\ Len(<<left>> \o v) = 1 + Len(v)
  BY LenProperties
<1>2. Occurs(b, p, <<left>> \o v) /\ Occurs(b, p + (1 + Len(v)), <<right>>)
  BY <1>1, OccursParts DEF Wrap
<1>3. Occurs(b, p, <<left>>) /\ Occurs(b, p + 1, v)
  BY <1>1, <1>2, OccursParts
<1>4. p + (1 + Len(v)) = (p + 1) + Len(v)
  BY <1>1
<1>5. Len(Wrap(left, v, right)) = Len(v) + 2
  BY <1>1 DEF Wrap
<1> QED BY <1>1, <1>2, <1>3, <1>4, <1>5

\* Scanning a string, or an object, comes back to where it began.
LEMMA FirstScan ==
  ASSUME NEW b \in Seq(Text), NEW p \in Nat, NEW d \in Nat \ {0}, NEW v \in Seq(Text),
         InsideObject(Scan(b)[p], p, d)
  PROVE  /\ \A m \in 0 .. MaxText :
              LET w == Wrap("quote", v, "quote")
              IN  v \in StringBodies[m] /\ Occurs(b, p, w)
                  => InsideObject(Scan(b)[p + Len(w)], p + Len(w), d)
         /\ LET w == Wrap("open", v, "close")
             IN  /\ Occurs(b, p, w)
                 /\ InsideObject(Scan(b)[p + 1], p + 1, d + 1) =>
                      InsideObject(Scan(b)[(p + 1) + Len(v)], (p + 1) + Len(v), d + 1)
                 => InsideObject(Scan(b)[p + Len(w)], p + Len(w), d)
<1>1. "quote" \in Text /\ "open" \in Text /\ "close" \in Text
  BY DEF Text
<1>2. ASSUME NEW m \in 0 .. MaxText, NEW w, w = Wrap("quote", v, "quote"),
             v \in StringBodies[m], Occurs(b, p, w)
      PROVE  InsideObject(Scan(b)[p + Len(w)], p + Len(w), d)
  <2>1. /\ Occurs(b, p, <<"quote">>) /\ Occurs(b, p + 1, v)
        /\ Occurs(b, (p + 1) + Len(v), <<"quote">>)
        /\ Len(w) = Len(v) + 2 /\ Len(v) \in Nat
    BY <1>1, <1>2, OccursEnclosed
  <2>2. InsideString(Scan(b)[p + 1], p + 1, d)
    BY <2>1, OccursOne, ObjectSteps
  <2>3. InsideString(Scan(b)[(p + 1) + Len(v)], (p + 1) + Len(v), d)
    <3>1. p + 1 \in Nat
      OBVIOUS
    <3> QED BY <1>2, <2>1, <2>2, <3>1, StringScan
  <2> DEFINE q == (p + 1) + Len(v)
  <2>4. q \in Nat /\ q + 1 = p + Len(w)
    BY <2>1
  <2> HIDE DEF q
  <2>5. Scan(b)[q + 1] = ScanChar(Scan(b)[q], "quote")
    BY <2>1, <2>4, OccursOne DEF q
  <2>6. InsideObject(Scan(b)[q + 1], q + 1, d)
    BY <2>3, <2>4, <2>5, StringSteps DEF q
  <2> QED BY <2>4, <2>6
<1>3. ASSUME NEW w, w = Wrap("open", v, "close"), Occurs(b, p, w),
             InsideObject(Scan(b)[p + 1], p + 1, d + 1) =>
               InsideObject(Scan(b)[(p + 1) + Len(v)], (p + 1) + Len(v), d + 1)
      PROVE  InsideObject(Scan(b)[p + Len(w)], p + Len(w), d)
  <2>1. /\ Occurs(b, p, <<"open">>)
        /\ Occurs(b, (p + 1) + Len(v), <<"close">>)
        /\ Len(w) = Len(v) + 2 /\ Len(v) \in Nat
    BY <1>1, <1>3, OccursEnclosed
  <2>2. InsideObject(Scan(b)[p + 1], p + 1, d + 1)
    BY <2>1, OccursOne, ObjectSteps
  <2>3. InsideObject(Scan(b)[(p + 1) + Len(v)], (p + 1) + Len(v), d + 1)
    BY <1>3, <2>2
  <2> DEFINE q == (p + 1) + Len(v)
  <2>4. q \in Nat /\ q + 1 = p + Len(w) /\ d + 1 \in Nat \ {0} /\ d + 1 > 1 /\ (d + 1) - 1 = d
    BY <2>1
  <2> HIDE DEF q
  <2>5. Scan(b)[q + 1] = ScanChar(Scan(b)[q], "close")
    BY <2>1, <2>4, OccursOne DEF q
  <2>6. InsideObject(Scan(b)[q], q, d + 1)
    BY <2>3 DEF q
  <2>7. InsideObject(Scan(b)[q + 1], q + 1, (d + 1) - 1)
    BY <2>4, <2>5, <2>6, ObjectSteps
  <2> QED BY <2>4, <2>7
<1> QED BY <1>2, <1>3

LEMMA FirstItemIs ==
  ASSUME NEW items, NEW k, NEW first \in FirstItems(items, k)
  PROVE  \/ \E v \in StringBodies[k - 2] : first = Wrap("quote", v, "quote")
         \/ \E v \in items[k - 2] : first = Wrap("open", v, "close")
<1> DEFINE A == StringBodies[k - 2]
           B == items[k - 2]
<1>1. first \in Enclosed("quote", A, "quote") \/ first \in Enclosed("open", B, "close")
  BY DEF FirstItems
<1> HIDE DEF A, B
<1>2. ASSUME first \in Enclosed("quote", A, "quote")
      PROVE  \E v \in A : first = Wrap("quote", v, "quote")
  BY <1>2, EnclosedAre
<1>3. ASSUME first \in Enclosed("open", B, "close")
      PROVE  \E v \in B : first = Wrap("open", v, "close")
  BY <1>3, EnclosedAre
<1>4. \/ \E v \in A : first = Wrap("quote", v, "quote")
      \/ \E v \in B : first = Wrap("open", v, "close")
  BY <1>1, <1>2, <1>3
<1> QED BY <1>4 DEF A, B

LEMMA ItemScan ==
  ASSUME NEW b \in Seq(Text)
  PROVE  \A n \in 0 .. MaxText : \A w \in Items[n], p \in Nat, d \in Nat \ {0} :
            Occurs(b, p, w) /\ InsideObject(Scan(b)[p], p, d)
            => InsideObject(Scan(b)[p + Len(w)], p + Len(w), d)
<1> DEFINE Returns(w) == \A p \in Nat, d \in Nat \ {0} :
                           Occurs(b, p, w) /\ InsideObject(Scan(b)[p], p, d)
                           => InsideObject(Scan(b)[p + Len(w)], p + Len(w), d)
           S == {n \in Nat : n <= MaxText => \A w \in Items[n] : Returns(w)}
<1>1. MaxText \in Nat
  BY BoundsAreNat
<1>2. ASSUME NEW n \in Nat, \A m \in 0 .. n - 1 : m \in S
      PROVE  n \in S
  <2> SUFFICES ASSUME n <= MaxText, NEW w \in Items[n]
               PROVE  Returns(w)
    OBVIOUS
  <2>1. w \in ItemsFrom(Items, n)
    BY <1>1, ItemsAre
  <2>2. CASE n = 0
    <3>1. w = <<>>
      BY <2>1, <2>2 DEF ItemsFrom
    <3> QED BY <3>1
  <2>3. CASE n # 0
    <3>1. PICK k \in 2 .. n : \E first \in FirstItems(Items, k), others \in Items[n - k] :
                                w = first \o others
      BY <2>1, <2>3, ItemsSplit
    <3>2. PICK first \in FirstItems(Items, k), others \in Items[n - k] : w = first \o others
      BY <3>1
    <3>3. /\ k - 2 \in 0 .. n - 1 /\ n - k \in 0 .. n - 1
          /\ k - 2 \in 0 .. MaxText /\ n - k \in 0 .. MaxText
      BY <1>1
    <3>4. \A m \in 0 .. n - 1 : \A v \in Items[m] : Returns(v)
      BY <1>1, <1>2
    <3>5. others \in Seq(Text) /\ Returns(others)
      BY <3>3, <3>4, ItemsAre
    <3>6. first \in Seq(Text) /\ Returns(first)
      <4>1. CASE \E v \in StringBodies[k - 2] : first = Wrap("quote", v, "quote")
        <5>1. PICK v \in StringBodies[k - 2] : first = Wrap("quote", v, "quote")
          BY <4>1
        <5>2. v \in Seq(Text)
          BY <3>3, BodiesAre
        <5>3. first \in Seq(Text)
          BY <5>1, <5>2 DEF Text, Wrap
        <5>4. Returns(first)
          BY <3>3, <5>1, <5>2, FirstScan
        <5> QED BY <5>3, <5>4
      <4>2. CASE \E v \in Items[k - 2] : first = Wrap("open", v, "close")
        <5>1. PICK v \in Items[k - 2] : first = Wrap("open", v, "close")
          BY <4>2
        <5>2. v \in Seq(Text) /\ Returns(v)
          BY <3>3, <3>4, ItemsAre
        <5>3. first \in Seq(Text) /\ "open" \in Text /\ "close" \in Text
          BY <5>1, <5>2 DEF Text, Wrap
        <5>4. ASSUME NEW p \in Nat, NEW d \in Nat \ {0},
                     Occurs(b, p, first), InsideObject(Scan(b)[p], p, d)
              PROVE  InsideObject(Scan(b)[p + Len(first)], p + Len(first), d)
          <6>1. Occurs(b, p + 1, v)
            BY <5>1, <5>2, <5>3, <5>4, OccursEnclosed
          <6>2. p + 1 \in Nat /\ d + 1 \in Nat \ {0}
            OBVIOUS
          <6>3. InsideObject(Scan(b)[p + 1], p + 1, d + 1) =>
                  InsideObject(Scan(b)[(p + 1) + Len(v)], (p + 1) + Len(v), d + 1)
            BY <5>2, <6>1, <6>2
          <6> QED BY <5>1, <5>2, <5>4, <6>3, FirstScan
        <5> QED BY <5>3, <5>4
      <4> QED BY <3>2, <4>1, <4>2, FirstItemIs
    <3>7. ASSUME NEW p \in Nat, NEW d \in Nat \ {0},
                 Occurs(b, p, w), InsideObject(Scan(b)[p], p, d)
          PROVE  InsideObject(Scan(b)[p + Len(w)], p + Len(w), d)
      <4>1. Occurs(b, p, first) /\ Occurs(b, p + Len(first), others)
        BY <3>2, <3>5, <3>6, <3>7, OccursParts
      <4>2. /\ Len(first) \in Nat /\ Len(others) \in Nat /\ p + Len(first) \in Nat
            /\ p + Len(w) = (p + Len(first)) + Len(others)
        BY <3>2, <3>5, <3>6, LenProperties
      <4>3. InsideObject(Scan(b)[p + Len(first)], p + Len(first), d)
        BY <3>6, <3>7, <4>1
      <4> DEFINE q == p + Len(first)
      <4> HIDE DEF q
      <4>4. InsideObject(Scan(b)[q + Len(others)], q + Len(others), d)
        BY <3>5, <4>1, <4>2, <4>3 DEF q
      <4> QED BY <4>2, <4>4 DEF q
    <3> QED BY <3>7
  <2> QED BY <2>2, <2>3
<1>3. Nat \subseteq S
  <2> HIDE DEF S
  <2> QED BY <1>2, CompleteInduction
<1> QED BY <1>1, <1>3

\* The scanner ends where the object at the front of the text does, not before.
LEMMA ObjectEnds ==
  ASSUME NEW b \in Seq(Text), NEW n \in 1 .. Len(b), n <= MaxText, SubSeq(b, 1, n) \in Objects(n)
  PROVE  /\ n >= 2 /\ b[1] = "open"
         /\ Scan(b)[n - 1].end = -1
         /\ Scan(b)[n].end = n
<1>1. MaxText \in Nat /\ n \in Nat /\ Len(b) \in Nat
  BY BoundsAreNat, LenProperties
<1>2. n >= 2 /\ n - 2 \in 0 .. MaxText
  BY <1>1 DEF Objects
<1> DEFINE c == SubSeq(b, 1, n)
<1>3. c \in Seq(Text) /\ Len(c) = n /\ \A i \in 1 .. n : c[i] = b[i]
  OBVIOUS
<1>4. c \in Enclosed("open", Items[n - 2], "close")
  BY <1>1, <1>2 DEF Objects
<1> HIDE DEF c
<1>5. PICK v \in Items[n - 2] : c = Wrap("open", v, "close")
  BY <1>4, EnclosedAre
<1>6. v \in Seq(Text) /\ "open" \in Text /\ "close" \in Text
  BY <1>2, ItemsAre DEF Text
<1>7. Occurs(b, 0, c)
  BY <1>1, <1>3 DEF Occurs
<1>8. /\ Occurs(b, 0, <<"open">>) /\ Occurs(b, 1, v) /\ Occurs(b, 1 + Len(v), <<"close">>)
      /\ n = Len(v) + 2 /\ Len(v) \in Nat
  <2>1. 0 \in Nat /\ 0 + 1 = 1
    OBVIOUS
  <2>2. /\ Occurs(b, 0, <<"open">>) /\ Occurs(b, 0 + 1, v) /\ Occurs(b, (0 + 1) + Len(v), <<"close">>)
        /\ Len(c) = Len(v) + 2 /\ Len(v) \in Nat
    BY <1>5, <1>6, <1>7, <2>1, OccursEnclosed
  <2> QED BY <1>3, <2>1, <2>2
<1>9. b[1] = "open"
  BY <1>8 DEF Occurs
<1>10. InsideObject(Scan(b)[1], 1, 1)
  <2>1. 0 \in Nat /\ 0 + 1 = 1
    OBVIOUS
  <2>2. Scan(b)[0 + 1] = ScanChar(Scan(b)[0], "open")
    BY <1>8, <2>1, OccursOne
  <2>3. Scan(b)[0] = Outside
    BY ScanIs
  <2> QED BY <2>1, <2>2, <2>3, FirstBrace
<1>11. InsideObject(Scan(b)[n - 1], n - 1, 1)
  <2>1. 1 \in Nat \ {0} /\ 1 \in Nat /\ 1 + Len(v) = n - 1
    BY <1>8
  <2>2. InsideObject(Scan(b)[1 + Len(v)], 1 + Len(v), 1)
    BY <1>2, <1>8, <1>10, <2>1, ItemScan
  <2> QED BY <2>1, <2>2
<1>12. Scan(b)[n] = ScanChar(Scan(b)[n - 1], "close")
  <2>1. n - 1 \in Nat /\ 1 + Len(v) = n - 1 /\ (n - 1) + 1 = n
    BY <1>2, <1>8
  <2> QED BY <1>8, <2>1, OccursOne
<1>13. Scan(b)[n].end = n
  <2>1. n - 1 \in Nat /\ 1 \in Nat \ {0} /\ (n - 1) + 1 = n
    BY <1>1, <1>2
  <2>2. ScanChar(Scan(b)[n - 1], "close").end = (n - 1) + 1
    BY <1>11, <2>1, ObjectSteps
  <2> QED BY <1>12, <2>1, <2>2
<1> QED BY <1>2, <1>9, <1>11, <1>13 DEF InsideObject, Inside

----------------------------------------------------------------------------
(* Frames.                                                                 *)

LEMMA FrameLength ==
  ASSUME NEW b, NEW i \in Int
  PROVE  /\ LengthAt(b, i) \in 0 .. 3
         /\ FrameEnd(b, i) = i + 2 + LengthAt(b, i)
<1>1. \A c : Digit(c) \in {0, 1}
  BY DEF Digit
<1>2. Digit(b[i + 1]) \in {0, 1} /\ Digit(b[i + 2]) \in {0, 1}
  BY <1>1
<1> QED BY <1>2 DEF LengthAt, FrameEnd, HeaderSize

CutRecords(T, b) == [frames : Seq(Seq(T)), rest : 0 .. Len(b), bad : BOOLEAN]

\* One step of the recursion.
CutFrom(b, cut, i) ==
  IF HasFrame(b, i) /\ ~BadHeader(b, i)
  THEN [cut[FrameEnd(b, i)] EXCEPT
          !.frames = <<SubSeq(b, i + HeaderSize + 1, FrameEnd(b, i))>> \o @]
  ELSE [frames |-> <<>>, rest |-> i, bad |-> BadHeader(b, i)]

LEMMA CutType ==
  ASSUME NEW T, NEW b \in Seq(T), NEW i \in 0 .. Len(b), NEW cut,
         HasFrame(b, i) /\ ~BadHeader(b, i) => cut[FrameEnd(b, i)] \in CutRecords(T, b)
  PROVE  CutFrom(b, cut, i) \in CutRecords(T, b)
<1>1. Len(b) \in Nat /\ i \in Nat
  BY LenProperties
<1>2. CASE HasFrame(b, i) /\ ~BadHeader(b, i)
  <2> DEFINE c == cut[FrameEnd(b, i)]
             frame == SubSeq(b, i + HeaderSize + 1, FrameEnd(b, i))
             more == <<frame>> \o c.frames
  <2>1. c \in CutRecords(T, b) /\ c.frames \in Seq(Seq(T))
    BY <1>2 DEF CutRecords
  <2>2. frame \in Seq(T)
    BY <1>1, <1>2, FrameLength DEF HasFrame, HeaderSize
  <2>3. CutFrom(b, cut, i) = [c EXCEPT !.frames = more]
    BY <1>2 DEF CutFrom
  <2> HIDE DEF c, frame
  <2>4. more \in Seq(Seq(T))
    BY <2>1, <2>2
  <2> HIDE DEF more
  <2>5. [c EXCEPT !.frames = more] \in CutRecords(T, b)
    BY <2>1, <2>4, Zenon DEF CutRecords
  <2> QED BY <2>3, <2>5
<1>3. CASE ~(HasFrame(b, i) /\ ~BadHeader(b, i))
  <2>1. BadHeader(b, i) \in BOOLEAN
    BY DEF BadHeader
  <2>2. CutFrom(b, cut, i) = [frames |-> <<>>, rest |-> i, bad |-> BadHeader(b, i)]
    BY <1>3 DEF CutFrom
  <2>3. <<>> \in Seq(Seq(T))
    OBVIOUS
  <2>4. \A frames \in Seq(Seq(T)), bad \in BOOLEAN :
          [frames |-> frames, rest |-> i, bad |-> bad] \in CutRecords(T, b)
    BY DEF CutRecords
  <2> QED BY <2>1, <2>2, <2>3, <2>4
<1> QED BY <1>2, <1>3

LEMMA CutsAre ==
  ASSUME NEW T, NEW b \in Seq(T), NEW i \in 0 .. Len(b)
  PROVE  Cuts(b)[i] = CutFrom(b, Cuts(b), i) /\ Cuts(b)[i] \in CutRecords(T, b)
<1> DEFINE D == 0 .. Len(b)
           V == CutRecords(T, b)
           F == [p \in [D -> V] \X D |-> CutFrom(b, p[1], p[2])]
           rank == [j \in D |-> Len(b) - j]
<1>1. Len(b) \in Nat
  BY LenProperties
<1>2. \A j \in D : HasFrame(b, j) => FrameEnd(b, j) \in j + 1 .. Len(b)
  BY <1>1, FrameLength DEF HasFrame
<1>3. ASSUME NEW g \in [D -> V], NEW j \in D
      PROVE  F[<<g, j>>] = CutFrom(b, g, j) /\ CutFrom(b, g, j) \in V
  <2>1. HasFrame(b, j) => g[FrameEnd(b, j)] \in V
    BY <1>1, <1>2
  <2>2. CutFrom(b, g, j) \in V
    <3> HIDE DEF F, rank
    <3> QED BY <2>1, CutType
  <2> HIDE DEF V
  <2> QED BY <2>2
<1>4. F \in [[D -> V] \X D -> V]
  <2> HIDE DEF V
  <2> QED BY <1>3
<1>5. ASSUME NEW g \in [D -> V], NEW h \in [D -> V], NEW j \in D,
             \A k \in D : rank[k] < rank[j] => g[k] = h[k]
      PROVE  F[<<g, j>>] = F[<<h, j>>]
  <2>1. HasFrame(b, j) => g[FrameEnd(b, j)] = h[FrameEnd(b, j)]
    <3> SUFFICES ASSUME HasFrame(b, j)
                 PROVE  g[FrameEnd(b, j)] = h[FrameEnd(b, j)]
      OBVIOUS
    <3>1. FrameEnd(b, j) \in j + 1 .. Len(b)
      BY <1>2
    <3>2. FrameEnd(b, j) \in D /\ Len(b) - FrameEnd(b, j) < Len(b) - j
      BY <1>1, <3>1
    <3>3. rank[FrameEnd(b, j)] < rank[j]
      BY <3>2
    <3> QED BY <1>5, <3>2, <3>3
  <2>2. CutFrom(b, g, j) = CutFrom(b, h, j)
    BY <2>1 DEF CutFrom
  <2> QED BY <1>3, <2>2
<1>6. Recurrence(D, V, Len(b), rank, F)
  <2>1. rank \in [D -> 0 .. Len(b)]
    BY <1>1
  <2>2. [frames |-> <<>>, rest |-> 0, bad |-> FALSE] \in V
    BY <1>1 DEF CutRecords
  <2> HIDE DEF D, V, F, rank
  <2> QED BY <1>1, <1>4, <1>5, <2>1, <2>2 DEF Recurrence
<1>7. PICK f \in [D -> V] : \A j \in D : f[j] = F[<<f, j>>]
  <2> HIDE DEF D, V, F, rank
  <2> QED BY <1>6, Recursion
<1>8. f = [j \in 0 .. Len(b) |-> CutFrom(b, f, j)]
  <2>1. \A j \in D : f[j] = CutFrom(b, f, j)
    BY <1>3, <1>7
  <2> QED BY <2>1
<1> HIDE DEF F
<1>9. Cuts(b) = [j \in 0 .. Len(b) |-> CutFrom(b, Cuts(b), j)]
  <2> DEFINE G(g) == [j \in 0 .. Len(b) |-> CutFrom(b, g, j)]
  <2>1. f = G(f)
    BY <1>8
  <2>2. Cuts(b) = CHOOSE g : g = G(g)
    BY DEF Cuts, CutFrom
  <2> HIDE DEF G
  <2>3. Cuts(b) = G(Cuts(b))
    BY <2>1, <2>2
  <2> QED BY <2>3 DEF G
<1>10. \A j \in 0 .. Len(b) : Cuts(b)[j] = CutFrom(b, Cuts(b), j)
  BY <1>9
<1> DEFINE S == {n \in Nat : n <= Len(b) => Cuts(b)[Len(b) - n] \in V}
<1>11. ASSUME NEW n \in Nat, \A m \in 0 .. n - 1 : m \in S
       PROVE  n \in S
  <2> SUFFICES ASSUME n <= Len(b)
               PROVE  Cuts(b)[Len(b) - n] \in V
    OBVIOUS
  <2> DEFINE j == Len(b) - n
  <2>1. j \in D /\ Len(b) - j = n
    BY <1>1
  <2>2. HasFrame(b, j) => Cuts(b)[FrameEnd(b, j)] \in V
    <3> SUFFICES ASSUME HasFrame(b, j)
                 PROVE  Cuts(b)[FrameEnd(b, j)] \in V
      OBVIOUS
    <3> DEFINE e == FrameEnd(b, j)
    <3>1. e \in j + 1 .. Len(b)
      BY <1>2, <2>1
    <3> HIDE DEF e
    <3>2. Len(b) - e \in 0 .. n - 1 /\ Len(b) - e <= Len(b) /\ Len(b) - (Len(b) - e) = e
      BY <1>1, <3>1
    <3>3. Len(b) - e \in S
      BY <1>11, <3>2
    <3> QED BY <3>2, <3>3 DEF e
  <2> HIDE DEF j
  <2>3. CutFrom(b, Cuts(b), j) \in V
    BY <2>1, <2>2, CutType
  <2> QED BY <1>10, <2>1, <2>3 DEF j
<1>12. Nat \subseteq S
  <2> HIDE DEF S
  <2> QED BY <1>11, CompleteInduction
<1>13. Cuts(b)[i] \in V
  <2>1. Len(b) - i \in Nat /\ Len(b) - i <= Len(b) /\ Len(b) - (Len(b) - i) = i
    BY <1>1
  <2>2. Len(b) - i \in S
    BY <1>12, <2>1
  <2> QED BY <2>1, <2>2
<1> QED BY <1>10, <1>13

LEMMA PushIs ==
  ASSUME NEW T, NEW b \in Seq(T)
  PROVE  /\ push(b) \in CutRecords(T, b)
         /\ HasFrame(b, 0) /\ ~BadHeader(b, 0) =>
              push(b).frames # <<>> /\ Head(push(b).frames) = SubSeq(b, 3, FrameEnd(b, 0))
         /\ ~HasFrame(b, 0) /\ ~BadHeader(b, 0) =>
              push(b).frames = <<>> /\ push(b).rest = 0 /\ push(b).bad = FALSE
<1>1. 0 \in 0 .. Len(b)
  BY LenProperties
<1>2. push(b) = CutFrom(b, Cuts(b), 0) /\ push(b) \in CutRecords(T, b)
  BY <1>1, CutsAre DEF push
<1>3. ASSUME HasFrame(b, 0), ~BadHeader(b, 0)
      PROVE  push(b).frames # <<>> /\ Head(push(b).frames) = SubSeq(b, 3, FrameEnd(b, 0))
  <2> DEFINE c == Cuts(b)[FrameEnd(b, 0)]
             frame == SubSeq(b, 3, FrameEnd(b, 0))
  <2>1. FrameEnd(b, 0) \in 0 .. Len(b)
    BY <1>3, FrameLength, LenProperties DEF HasFrame
  <2>2. c \in CutRecords(T, b) /\ c.frames \in Seq(Seq(T))
    BY <2>1, CutsAre DEF CutRecords
  <2>3. 0 + HeaderSize + 1 = 3
    BY DEF HeaderSize
  <2>4. push(b) = [c EXCEPT !.frames = <<frame>> \o c.frames]
    BY <1>2, <1>3, <2>3 DEF CutFrom
  <2> HIDE DEF c, frame
  <2>5. push(b).frames = <<frame>> \o c.frames
    BY <2>2, <2>4 DEF CutRecords
  <2>6. <<frame>> \o c.frames # <<>> /\ Head(<<frame>> \o c.frames) = frame
    BY <2>2
  <2> QED BY <2>5, <2>6 DEF frame
<1>4. ASSUME ~HasFrame(b, 0), ~BadHeader(b, 0)
      PROVE  push(b).frames = <<>> /\ push(b).rest = 0 /\ push(b).bad = FALSE
  <2> DEFINE bad == BadHeader(b, 0)
  <2>1. push(b) = [frames |-> <<>>, rest |-> 0, bad |-> bad]
    BY <1>2, <1>4 DEF CutFrom
  <2>2. bad = FALSE
    BY <1>4 DEF BadHeader
  <2> HIDE DEF bad
  <2> QED BY <2>1, <2>2
<1> QED BY <1>2, <1>3, <1>4

----------------------------------------------------------------------------
(* Where the message of a stream ends.                                     *)

LEMMA SeqOfIs ==
  ASSUME NEW S, NEW N \in Nat, NEW s \in SeqOf(S, N)
  PROVE  s \in Seq(S) /\ Len(s) <= N
<1>1. PICK m \in 0 .. N : s \in [1 .. m -> S]
  BY DEF SeqOf
<1> QED BY <1>1

LEMMA PartOfPrefix ==
  ASSUME NEW T, NEW s \in Seq(T), NEW t \in 0 .. Len(s), NEW i \in Nat \ {0}, NEW j \in 0 .. t
  PROVE  SubSeq(SubSeq(s, 1, t), i, j) = SubSeq(s, i, j)
<1> DEFINE d == SubSeq(s, 1, t)
           u == SubSeq(d, i, j)
           v == SubSeq(s, i, j)
           l == IF i <= j THEN j - i + 1 ELSE 0
<1>1. Len(s) \in Nat
  BY LenProperties
<1>2. d \in Seq(T) /\ Len(d) = t /\ \A k \in 1 .. t : d[k] = s[k]
  BY <1>1
<1> HIDE DEF d
<1>3. u \in Seq(T) /\ Len(u) = l /\ \A k \in 1 .. l : u[k] = d[i + k - 1]
  BY <1>1, <1>2
<1>4. v \in Seq(T) /\ Len(v) = l /\ \A k \in 1 .. l : v[k] = s[i + k - 1]
  BY <1>1
<1>5. \A k \in 1 .. l : i + k - 1 \in 1 .. t
  BY <1>1
<1>6. \A k \in 1 .. l : u[k] = v[k]
  BY <1>2, <1>3, <1>4, <1>5
<1> HIDE DEF u, v, l
<1>7. u = v
  BY <1>3, <1>4, <1>6, SeqEqual
<1> QED BY <1>7 DEF u, v, d

LEMMA PartsJoin ==
  ASSUME NEW T, NEW s \in Seq(T), NEW i \in Nat \ {0}, NEW t \in 0 .. Len(s), NEW r \in t .. Len(s),
         i <= t + 1
  PROVE  SubSeq(s, i, t) \o SubSeq(s, t + 1, r) = SubSeq(s, i, r)
<1> DEFINE u == SubSeq(s, i, t)
           v == SubSeq(s, t + 1, r)
           w == SubSeq(s, i, r)
           x == u \o v
           a == t - i + 1
           z == r - i + 1
<1>1. Len(s) \in Nat /\ a \in Nat /\ z \in Nat
  BY LenProperties
<1>2. u \in Seq(T) /\ Len(u) = a /\ \A k \in 1 .. a : u[k] = s[i + k - 1]
  BY <1>1
<1>3. v \in Seq(T) /\ Len(v) = r - t /\ \A k \in 1 .. r - t : v[k] = s[t + k]
  BY <1>1
<1>4. w \in Seq(T) /\ Len(w) = z /\ \A k \in 1 .. z : w[k] = s[i + k - 1]
  BY <1>1
<1> HIDE DEF u, v
<1>5. x \in Seq(T) /\ Len(x) = z
  <2>1. x \in Seq(T) /\ Len(x) = Len(u) + Len(v)
    BY <1>2, <1>3, ConcatProperties
  <2> HIDE DEF x
  <2> QED BY <1>1, <1>2, <1>3, <2>1
<1>6. \A k \in 1 .. z : x[k] = IF k <= a THEN u[k] ELSE v[k - a]
  <2>1. \A k \in 1 .. Len(u) + Len(v) : x[k] = IF k <= Len(u) THEN u[k] ELSE v[k - Len(u)]
    BY <1>2, <1>3, ConcatProperties
  <2> HIDE DEF x
  <2> QED BY <1>1, <1>2, <1>3, <2>1
<1> HIDE DEF x
<1>7. ASSUME NEW k \in 1 .. z
      PROVE  x[k] = w[k]
  <2>1. CASE k <= a
    <3>1. k \in 1 .. a
      BY <1>1, <2>1
    <3> QED BY <1>2, <1>4, <1>6, <2>1, <3>1
  <2>2. CASE k > a
    <3>1. k - a \in 1 .. r - t /\ t + (k - a) = i + k - 1 /\ ~(k <= a)
      BY <1>1, <2>2
    <3>2. x[k] = v[k - a]
      BY <1>6, <3>1
    <3> QED BY <1>3, <1>4, <3>1, <3>2
  <2> QED BY <1>1, <2>1, <2>2
<1> HIDE DEF w
<1>8. x = w
  BY <1>4, <1>5, <1>7, SeqEqual
<1> QED BY <1>8 DEF x, u, v, w

\* The message of the stream ends at n, if the stream is that long.
EndsAt(n) ==
  /\ n \in Nat /\ n >= MessageBegin
  /\ kind = "log" => n >= 2 /\ stream[1] = "open"
  /\ \A t \in 0 .. Len(stream) :
       LET d == SubSeq(stream, 1, t)
       IN  /\ MessageEnds(d) = IF t < n THEN {} ELSE {n}
           /\ MessageEnd(d) = IF t < n THEN 0 ELSE n
           /\ kind # "log" => /\ ~BadHeader(d, 0)
                              /\ HasFrame(d, 0) <=> t >= n
                              /\ HasFrame(d, 0) => FrameEnd(d, 0) = n

LEMMA LogEnds ==
  ASSUME kind = "log", stream \in Seq(Text), Len(stream) <= MaxText, MessageEnds(stream) # {}
  PROVE  \E n \in Nat : EndsAt(n)
<1>1. Len(stream) \in Nat /\ MaxText \in Nat
  BY BoundsAreNat, LenProperties
<1>2. PICK n \in 1 .. Len(stream) : SubSeq(stream, 1, n) \in Objects(n)
  BY DEF MessageEnds
<1> DEFINE Ends(k) == /\ k >= 2 /\ stream[1] = "open"
                      /\ Scan(stream)[k - 1].end = -1
                      /\ Scan(stream)[k].end = k
<1>3. \A k \in 1 .. Len(stream) : SubSeq(stream, 1, k) \in Objects(k) => Ends(k)
  BY <1>1, ObjectEnds
<1>4. Ends(n)
  BY <1>2, <1>3
<1>5. ASSUME NEW k \in 1 .. Len(stream), NEW j \in 1 .. Len(stream), Ends(k), Ends(j), k < j
      PROVE  FALSE
  <2>1. k \in 0 .. Len(stream) /\ j - 1 \in k .. Len(stream)
    BY <1>1, <1>5
  <2>2. Scan(stream)[k].end >= 0
    BY <1>5
  <2>3. Scan(stream)[j - 1].end = Scan(stream)[k].end
    BY <2>1, <2>2, ScanEnd
  <2> QED BY <1>5, <2>3
<1>6. ASSUME NEW t \in 0 .. Len(stream), NEW d, d = SubSeq(stream, 1, t)
      PROVE  /\ MessageEnds(d) = IF t < n THEN {} ELSE {n}
             /\ MessageEnd(d) = IF t < n THEN 0 ELSE n
  <2>1. d \in Seq(Text) /\ Len(d) = t /\ t \in Nat
    BY <1>1, <1>6
  <2>2. \A k \in 1 .. t : SubSeq(d, 1, k) = SubSeq(stream, 1, k)
    BY <1>1, <1>6, PartOfPrefix
  <2>3. MessageEnds(d) = {k \in 1 .. t : SubSeq(stream, 1, k) \in Objects(k)}
    BY <2>1, <2>2 DEF MessageEnds
  <2>4. \A k \in MessageEnds(d) : k = n
    <3> SUFFICES ASSUME NEW k \in MessageEnds(d)
                 PROVE  k = n
      OBVIOUS
    <3>1. k \in 1 .. Len(stream) /\ Ends(k)
      BY <1>1, <1>3, <2>3
    <3>2. ~(k < n) /\ ~(n < k)
      BY <1>2, <1>4, <1>5, <3>1
    <3> QED BY <1>1, <1>2, <3>1, <3>2
  <2>5. t >= n => n \in MessageEnds(d)
    BY <1>1, <1>2, <2>1, <2>3
  <2>6. t < n => n \notin MessageEnds(d)
    BY <1>1, <2>3
  <2>7. MessageEnds(d) = IF t < n THEN {} ELSE {n}
    BY <1>1, <2>1, <2>4, <2>5, <2>6
  <2>8. findJSONObjectEnd(d) = Scan(stream)[t].end
    BY <1>6, EndOfPrefix
  <2>9. Scan(stream)[t].end = IF t < n THEN -1 ELSE n
    <3>1. CASE t < n
      <4>1. t \in 0 .. Len(stream) /\ n - 1 \in t .. Len(stream)
        BY <1>1, <3>1
      <4>2. Scan(stream)[t].end \in {-1} \union 1 .. t
        BY <4>1, ScanEnd
      <4>3. Scan(stream)[t].end >= 0 => Scan(stream)[n - 1].end = Scan(stream)[t].end
        BY <4>1, ScanEnd
      <4> QED BY <1>4, <2>1, <3>1, <4>2, <4>3
    <3>2. CASE t >= n
      <4>1. n \in 0 .. Len(stream) /\ t \in n .. Len(stream) /\ Scan(stream)[n].end >= 0
        BY <1>1, <1>4, <3>2
      <4>2. Scan(stream)[t].end = Scan(stream)[n].end
        BY <4>1, ScanEnd
      <4> QED BY <1>1, <1>4, <3>2, <4>2
    <3> QED BY <1>1, <3>1, <3>2
  <2>10. MessageEnd(d) = IF t < n THEN 0 ELSE n
    BY <1>1, <2>8, <2>9 DEF MessageEnd
  <2> QED BY <2>7, <2>10
<1>7. n \in Nat /\ n >= MessageBegin /\ n >= 2 /\ stream[1] = "open"
  BY <1>1, <1>4 DEF MessageBegin
<1> HIDE DEF Ends
<1>8. EndsAt(n)
  BY <1>6, <1>7 DEF EndsAt
<1> QED BY <1>7, <1>8

LEMMA FrameEnds ==
  ASSUME kind \in Kinds \ {"log"}, stream \in Seq(Bytes), ~BadHeader(stream, 0)
  PROVE  \E n \in Nat : EndsAt(n)
<1>1. Len(stream) \in Nat /\ 0 \in Int
  BY LenProperties
<1> DEFINE length == LengthAt(stream, 0)
           n == IF Len(stream) >= 2 THEN 2 + length ELSE 5
<1>2. length \in 0 .. 3
  BY <1>1, FrameLength
<1>3. Len(stream) >= 2 => length # 0 /\ ~(length > MaxFrame)
  BY <1>1 DEF BadHeader, HasHeader, HeaderSize
<1>4. n \in 3 .. 5
  BY <1>2, <1>3
<1>5. ASSUME NEW t \in 0 .. Len(stream), NEW d, d = SubSeq(stream, 1, t)
      PROVE  /\ MessageEnds(d) = IF t < n THEN {} ELSE {n}
             /\ MessageEnd(d) = IF t < n THEN 0 ELSE n
             /\ ~BadHeader(d, 0)
             /\ HasFrame(d, 0) <=> t >= n
             /\ HasFrame(d, 0) => FrameEnd(d, 0) = n
  <2>1. d \in Seq(Bytes) /\ Len(d) = t /\ t \in Nat /\ \A k \in 1 .. t : d[k] = stream[k]
    BY <1>1, <1>5
  <2>2. CASE t < 2
    <3>1. ~HasHeader(d, 0)
      BY <2>1, <2>2 DEF HasHeader, HeaderSize
    <3>2. ~HasFrame(d, 0) /\ ~BadHeader(d, 0)
      BY <3>1 DEF HasFrame, BadHeader
    <3>3. MessageEnds(d) = {} /\ t < n
      BY <1>4, <2>1, <2>2 DEF MessageEnds, HeaderSize
    <3> HIDE DEF n
    <3>4. MessageEnd(d) = 0
      BY <3>2 DEF MessageEnd, Kinds
    <3> QED BY <1>4, <2>1, <3>2, <3>3, <3>4
  <2>3. CASE t >= 2
    <3>1. Len(stream) >= 2 /\ n = 2 + length
      BY <1>1, <2>3
    <3>2. LengthAt(d, 0) = length
      BY <2>1, <2>3 DEF LengthAt
    <3>3. HasHeader(d, 0) /\ ~BadHeader(d, 0) /\ FrameEnd(d, 0) = n
      BY <1>3, <2>1, <2>3, <3>1, <3>2 DEF HasHeader, BadHeader, FrameEnd, HeaderSize
    <3>4. HasFrame(d, 0) <=> t >= n
      BY <2>1, <3>3 DEF HasFrame
    <3>5. MessageEnds(d) = {k \in 3 .. t : length = k - 2}
      BY <2>1, <3>2 DEF MessageEnds, HeaderSize
    <3> HIDE DEF n, length
    <3>6. MessageEnds(d) = IF t < n THEN {} ELSE {n}
      BY <1>2, <1>4, <2>1, <3>1, <3>5
    <3>7. MessageEnd(d) = IF t < n THEN 0 ELSE n
      BY <1>4, <2>1, <3>3, <3>4 DEF MessageEnd, Kinds
    <3> QED BY <3>3, <3>4, <3>6, <3>7
  <2> QED BY <2>1, <2>2, <2>3
<1> HIDE DEF n
<1>6. n \in Nat /\ n >= MessageBegin
  BY <1>4 DEF MessageBegin, HeaderSize
<1>7. EndsAt(n)
  BY <1>5, <1>6 DEF EndsAt
<1> QED BY <1>6, <1>7

\* What is known of streams of each kind.
LEMMA StreamsAre ==
  ASSUME kind \in Kinds, stream \in Streams
  PROVE  /\ stream \in Seq(Bytes \union Text)
         /\ kind = "log" => stream \in Seq(Text) /\ Len(stream) <= MaxText
         /\ kind # "log" => stream \in Seq(Bytes)
<1>1. MaxText \in Nat /\ MaxStream \in Nat
  BY BoundsAreNat
<1>2. kind = "log" => stream \in Seq(Text) /\ Len(stream) <= MaxText
  BY <1>1, SeqOfIs DEF Streams
<1>3. kind # "log" => stream \in Seq(Bytes)
  BY <1>1, SeqOfIs DEF Streams
<1>4. Seq(Text) \subseteq Seq(Bytes \union Text) /\ Seq(Bytes) \subseteq Seq(Bytes \union Text)
  OBVIOUS
<1> QED BY <1>2, <1>3, <1>4

LEMMA TheEnd ==
  ASSUME kind \in Kinds, stream \in Streams, WellFormed(stream)
  PROVE  \E n \in Nat : EndsAt(n)
<1>1. CASE kind = "log"
  BY <1>1, StreamsAre, LogEnds DEF WellFormed
<1>2. CASE kind # "log"
  BY <1>2, StreamsAre, FrameEnds DEF WellFormed
<1> QED BY <1>1, <1>2

----------------------------------------------------------------------------
(* What a stream calls for, with the end n of its message.                 *)

Message(n) == SubSeq(stream, MessageBegin, n)

Calls(n, t) ==
  LET m == Message(n)
      size == Announced(m)
  IN  IF t < n THEN Pending
      ELSE CASE kind = "request" -> Result("ok", m)
             [] kind # "request" /\ Refuses(m) -> Failed("ERR_CODE")
             [] kind # "request" /\ ~Refuses(m) /\ size > MaxArchive ->
                  Failed("ERR_LOG_DOWNLOAD_SIZE_INVALID")
             [] OTHER -> IF t < n + size THEN Pending
                         ELSE Result("ok", SubSeq(stream, n + 1, n + size))

LEMMA MessageIs ==
  ASSUME stream \in Seq(Bytes \union Text), NEW n, EndsAt(n), n <= Len(stream)
  PROVE  /\ Len(Message(n)) = n - MessageBegin + 1
         /\ Announced(Message(n)) = n - MessageBegin
         /\ Announced(Message(n)) \in Nat
         /\ Decodes(Message(n))
<1>1. n \in Nat /\ n >= MessageBegin /\ MessageBegin \in {1, 3} /\ Len(stream) \in Nat
  BY LenProperties DEF EndsAt, MessageBegin, HeaderSize
<1>2. Len(Message(n)) = n - MessageBegin + 1
  BY <1>1 DEF Message
<1>3. Announced(Message(n)) = n - MessageBegin /\ n - MessageBegin \in Nat
  BY <1>1, <1>2 DEF Announced
<1>4. ASSUME kind = "log"
      PROVE  Head(Message(n)) = "open"
  <2>1. MessageBegin = 1 /\ n >= 2 /\ stream[1] = "open"
    BY <1>4 DEF MessageBegin, EndsAt
  <2> DEFINE m == SubSeq(stream, 1, n)
  <2>2. m \in Seq(Bytes \union Text) /\ Len(m) = n /\ m[1] = stream[1]
    BY <1>1, <2>1
  <2> HIDE DEF m
  <2>3. Head(m) = m[1]
    BY <2>1, <2>2
  <2> QED BY <2>1, <2>2, <2>3 DEF m, Message
<1> QED BY <1>2, <1>3, <1>4 DEF Decodes

LEMMA SaysIs ==
  ASSUME stream \in Seq(Bytes \union Text), NEW n, EndsAt(n), NEW t \in 0 .. Len(stream)
  PROVE  Says(SubSeq(stream, 1, t)) = Calls(n, t)
<1> DEFINE d == SubSeq(stream, 1, t)
<1>1. t \in Nat /\ Len(stream) \in Nat /\ Len(d) = t /\ n \in Nat
  BY LenProperties DEF EndsAt
<1>2. MessageEnds(d) = IF t < n THEN {} ELSE {n}
  BY DEF EndsAt
<1>3. CASE t < n
  <2>1. MessageEnds(d) = {}
    BY <1>2, <1>3
  <2> QED BY <1>3, <2>1 DEF Says, Calls
<1>4. CASE t >= n
  <2>1. MessageEnds(d) # {} /\ (CHOOSE e \in MessageEnds(d) : TRUE) = n
    <3> DEFINE ends == MessageEnds(d)
    <3>1. ends = {n}
      BY <1>1, <1>2, <1>4
    <3> HIDE DEF ends
    <3> QED BY <3>1 DEF ends
  <2>2. MessageBegin \in Nat \ {0} /\ n \in 0 .. t
    BY <1>1, <1>4 DEF MessageBegin, HeaderSize
  <2>3. SubSeq(d, MessageBegin, n) = Message(n)
    BY <2>2, PartOfPrefix DEF Message
  <2>4. Announced(Message(n)) \in Nat
    BY <1>1, <1>4, MessageIs
  <2> DEFINE size == Announced(Message(n))
  <2>5. t >= n + size => SubSeq(d, n + 1, n + size) = SubSeq(stream, n + 1, n + size)
    <3>1. n + 1 \in Nat \ {0} /\ (t >= n + size => n + size \in 0 .. t)
      BY <1>1, <2>4
    <3> QED BY <3>1, PartOfPrefix
  <2>6. Says(d) = CASE kind = "request" -> Result("ok", Message(n))
                    [] kind # "request" /\ Refuses(Message(n)) -> Failed("ERR_CODE")
                    [] kind # "request" /\ ~Refuses(Message(n)) /\ size > MaxArchive ->
                         Failed("ERR_LOG_DOWNLOAD_SIZE_INVALID")
                    [] OTHER -> IF Len(d) < n + size THEN Pending
                                ELSE Result("ok", SubSeq(d, n + 1, n + size))
    <3> HIDE DEF d
    <3> QED BY <2>1, <2>3, Zenon DEF Says
  <2>7. ~(t < n)
    BY <1>1, <1>4
  <2>8. (IF Len(d) < n + size THEN Pending ELSE Result("ok", SubSeq(d, n + 1, n + size)))
        = (IF t < n + size THEN Pending ELSE Result("ok", SubSeq(stream, n + 1, n + size)))
    <3> HIDE DEF d
    <3>1. CASE t < n + size
      BY <1>1, <3>1
    <3>2. CASE ~(t < n + size)
      <4>1. t >= n + size
        BY <1>1, <2>4, <3>2
      <4> QED BY <1>1, <2>5, <3>2, <4>1
    <3> QED BY <3>1, <3>2
  <2> HIDE DEF d
  <2>9. Says(d) = Calls(n, t)
    BY <2>6, <2>7, <2>8 DEF Calls
  <2> QED BY <2>9 DEF d
<1> QED BY <1>1, <1>3, <1>4

\* While its kind does not change, a stream says the same.
LEMMA SameEnds ==
  ASSUME kind' = kind, NEW s
  PROVE  MessageEnds(s)' = MessageEnds(s)
BY DEF MessageEnds

SaysBy(k, begin, ends, refuses, s) ==
  IF ends = {} THEN Pending
  ELSE LET end == CHOOSE n \in ends : TRUE
           m == SubSeq(s, begin, end)
           size == Announced(m)
       IN  CASE k = "request" -> Result("ok", m)
             [] k # "request" /\ refuses -> Failed("ERR_CODE")
             [] k # "request" /\ ~refuses /\ size > MaxArchive ->
                  Failed("ERR_LOG_DOWNLOAD_SIZE_INVALID")
             [] OTHER -> IF Len(s) < end + size THEN Pending
                         ELSE Result("ok", SubSeq(s, end + 1, end + size))

First(ends) == CHOOSE n \in ends : TRUE

LEMMA SameSays ==
  ASSUME kind' = kind, NEW s
  PROVE  /\ Says(s)' = Says(s)
         /\ WellFormed(s)' <=> WellFormed(s)
         /\ MessageBegin' = MessageBegin
         /\ \A m : Refuses(m)' <=> Refuses(m)
<1>1. MessageBegin' = MessageBegin
  BY DEF MessageBegin
<1>2. \A m : Refuses(m)' <=> Refuses(m)
  BY DEF Refuses
<1>3. Says(s) = SaysBy(kind, MessageBegin, MessageEnds(s),
                       Refuses(SubSeq(s, MessageBegin, First(MessageEnds(s)))), s)
  BY Zenon DEF Says, SaysBy, First
<1>4. Says(s)' = SaysBy(kind', MessageBegin', MessageEnds(s)',
                        Refuses(SubSeq(s, MessageBegin, First(MessageEnds(s))))', s)
  BY Zenon DEF Says, SaysBy, First
<1>5. WellFormed(s)' <=> WellFormed(s)
  BY SameEnds DEF WellFormed
<1> QED BY <1>1, <1>2, <1>3, <1>4, <1>5, SameEnds

----------------------------------------------------------------------------
(* Types.                                                                  *)

AllBytes == Bytes \union Text
Outcomes == [code : Codes, data : Seq(AllBytes)]

LEMMA ResultType ==
  ASSUME NEW code \in Codes, NEW data \in Seq(AllBytes)
  PROVE  /\ Result(code, data) \in Outcomes /\ Result(code, data).code = code
         /\ Failed(code) \in Outcomes /\ Failed(code).code = code
BY DEF Result, Failed, Outcomes

\* Where the message at the front of any bytes ends, well formed or not.
LEMMA MessageEndType ==
  ASSUME kind \in Kinds, NEW b \in Seq(AllBytes)
  PROVE  /\ MessageEnd(b) \in 0 .. Len(b)
         /\ MessageEnd(b) > 0 /\ ~(kind # "log" /\ BadHeader(b, 0)) =>
              MessageEnd(b) >= MessageBegin
<1>1. Len(b) \in Nat
  BY LenProperties
<1>2. CASE kind = "log"
  <2>1. findJSONObjectEnd(b) \in {-1} \union 1 .. Len(b)
    <3>1. Len(b) \in 0 .. Len(b)
      BY <1>1
    <3> QED BY <3>1, ScanEnd DEF findJSONObjectEnd
  <2> QED BY <1>1, <1>2, <2>1 DEF MessageEnd, MessageBegin
<1>3. CASE kind # "log"
  <2>1. /\ FrameEnd(b, 0) = 2 + LengthAt(b, 0) /\ LengthAt(b, 0) \in 0 .. 3
    BY FrameLength
  <2>2. CASE HasFrame(b, 0)
    <3>1. FrameEnd(b, 0) <= Len(b) /\ HasHeader(b, 0)
      BY <2>2 DEF HasFrame
    <3>2. ~BadHeader(b, 0) => LengthAt(b, 0) >= 1
      BY <2>1, <3>1 DEF BadHeader
    <3>3. MessageEnd(b) = FrameEnd(b, 0) /\ MessageBegin = 3
      BY <1>3, <2>2 DEF MessageEnd, MessageBegin, HeaderSize
    <3> QED BY <1>1, <1>3, <2>1, <3>1, <3>2, <3>3
  <2>3. CASE ~HasFrame(b, 0)
    <3>1. MessageEnd(b) = 0
      BY <1>3, <2>3 DEF MessageEnd
    <3> QED BY <1>1, <3>1
  <2> QED BY <2>2, <2>3
<1> QED BY <1>2, <1>3

LEMMA DeliverType ==
  ASSUME NEW b \in Seq(AllBytes), NEW size \in 0 .. MaxArchive, Deliver(b, size)
  PROVE  /\ buffer' \in Seq(AllBytes) /\ expected' \in {Unset} \union 0 .. MaxArchive
         /\ outcome' \in Outcomes /\ (outcome'.code = "none" => outcome' = Pending)
<1>1. MaxArchive \in Nat /\ Len(b) \in Nat
  BY BoundsAreNat, LenProperties
<1>2. Len(b) >= size => SubSeq(b, 1, size) \in Seq(AllBytes)
  BY <1>1
<1>3. "ok" \in Codes /\ "none" \in Codes
  BY DEF Codes
<1>4. outcome' = IF Len(b) >= size THEN Result("ok", SubSeq(b, 1, size)) ELSE Pending
  BY DEF Deliver, Settle
<1>5. outcome' \in Outcomes /\ (outcome'.code = "none" => outcome' = Pending)
  <2>1. CASE Len(b) >= size
    BY <1>2, <1>3, <1>4, <2>1, ResultType
  <2>2. CASE ~(Len(b) >= size)
    <3>1. <<>> \in Seq(AllBytes)
      OBVIOUS
    <3> QED BY <1>3, <1>4, <2>2, <3>1, ResultType DEF Pending
  <2> QED BY <2>1, <2>2
<1> QED BY <1>1, <1>5 DEF Deliver

LEMMA GiveUpType ==
  ASSUME NEW b \in Seq(AllBytes), NEW code \in Codes \ {"none"}, GiveUp(b, code),
         expected \in {Unset} \union 0 .. MaxArchive
  PROVE  /\ buffer' \in Seq(AllBytes) /\ expected' \in {Unset} \union 0 .. MaxArchive
         /\ outcome' \in Outcomes /\ (outcome'.code = "none" => outcome' = Pending)
<1>1. outcome' = Failed(code) /\ <<>> \in Seq(AllBytes)
  BY DEF GiveUp, Settle
<1>2. outcome' \in Outcomes /\ outcome'.code = code
  BY <1>1, ResultType
<1> QED BY <1>2 DEF GiveUp

\* consume, as long as the message is not there, or has just arrived.
LEMMA ConsumeMessage ==
  ASSUME NEW b, Consume(b), expected = Unset, ~(kind = "binary" /\ BadHeader(b, 0)),
         MessageEnd(b) \in Nat
  PROVE  LET m == SubSeq(b, MessageBegin, MessageEnd(b))
         IN  /\ MessageEnd(b) = 0 => buffer' = b /\ UNCHANGED <<expected, outcome>>
             /\ MessageEnd(b) > 0 /\ MessageError(m) # "none" => GiveUp(b, MessageError(m))
             /\ MessageEnd(b) > 0 /\ MessageError(m) = "none" =>
                  Deliver(SubSeq(b, MessageEnd(b) + 1, Len(b)), Announced(m))
<1> DEFINE m == SubSeq(b, MessageBegin, MessageEnd(b))
           e == MessageEnd(b)
           error == MessageError(m)
           waits == buffer' = b /\ UNCHANGED <<expected, outcome>>
           fails == GiveUp(b, error)
           begins == Deliver(SubSeq(b, e + 1, Len(b)), Announced(m))
<1>1. (CASE e = 0 -> waits [] e > 0 /\ error # "none" -> fails [] OTHER -> begins)
  BY Zenon DEF Consume
<1> HIDE DEF e, error, waits, fails, begins
<1>2. (e = 0 => waits) /\ (e > 0 /\ error # "none" => fails) /\ (e > 0 /\ error = "none" => begins)
  BY <1>1 DEF e
<1> QED BY <1>2 DEF e, error, waits, fails, begins

LEMMA ConsumeType ==
  ASSUME TypeOK, outcome = Pending, NEW b \in Seq(AllBytes), Consume(b), kind # "request"
  PROVE  /\ buffer' \in Seq(AllBytes) /\ expected' \in {Unset} \union 0 .. MaxArchive
         /\ outcome' \in Outcomes /\ (outcome'.code = "none" => outcome' = Pending)
<1>1. MaxArchive \in Nat /\ Len(b) \in Nat
  BY BoundsAreNat, LenProperties
<1>2. kind \in Kinds /\ kind \in {"binary", "log"} /\ expected \in {Unset} \union 0 .. MaxArchive
      /\ outcome \in Outcomes
  BY DEF TypeOK, Kinds, Outcomes, AllBytes
<1>3. {"ERR_API_V3_FRAME_LENGTH_INVALID", "ERR_RESPONSE_INVALID", "ERR_CODE",
       "ERR_LOG_DOWNLOAD_SIZE_INVALID"} \subseteq Codes \ {"none"}
  BY DEF Codes
<1> DEFINE m == SubSeq(b, MessageBegin, MessageEnd(b))
<1>4. CASE expected # Unset
  <2>1. expected \in 0 .. MaxArchive /\ Deliver(b, expected)
    BY <1>2, <1>4 DEF Consume
  <2> QED BY <2>1, DeliverType
<1>5. CASE expected = Unset /\ kind = "binary" /\ BadHeader(b, 0)
  <2>1. GiveUp(b, "ERR_API_V3_FRAME_LENGTH_INVALID")
    BY <1>5 DEF Consume
  <2> QED BY <1>2, <1>3, <2>1, GiveUpType
<1>6. CASE expected = Unset /\ ~(kind = "binary" /\ BadHeader(b, 0))
  <2>1. /\ MessageEnd(b) \in 0 .. Len(b)
        /\ MessageEnd(b) > 0 => MessageEnd(b) >= MessageBegin
    BY <1>2, <1>6, MessageEndType
  <2>2. /\ MessageEnd(b) = 0 => buffer' = b /\ UNCHANGED <<expected, outcome>>
        /\ MessageEnd(b) > 0 /\ MessageError(m) # "none" => GiveUp(b, MessageError(m))
        /\ MessageEnd(b) > 0 /\ MessageError(m) = "none" =>
             Deliver(SubSeq(b, MessageEnd(b) + 1, Len(b)), Announced(m))
    BY <1>1, <1>6, <2>1, ConsumeMessage
  <2>3. CASE MessageEnd(b) = 0
    BY <1>2, <2>2, <2>3
  <2>4. CASE MessageEnd(b) > 0 /\ MessageError(m) # "none"
    <3>1. MessageError(m) \in {"ERR_RESPONSE_INVALID", "ERR_CODE", "ERR_LOG_DOWNLOAD_SIZE_INVALID", "none"}
      <4> HIDE DEF m
      <4> QED BY DEF MessageError
    <3> HIDE DEF m
    <3>2. MessageError(m) \in Codes \ {"none"}
      BY <1>3, <2>4, <3>1
    <3> QED BY <1>2, <2>2, <2>4, <3>2, GiveUpType
  <2>5. CASE MessageEnd(b) > 0 /\ MessageError(m) = "none"
    <3>1. MessageBegin \in {1, 3}
      BY DEF MessageBegin, HeaderSize
    <3>2. Announced(m) \in Nat
      <4>1. Len(m) = MessageEnd(b) - MessageBegin + 1
        BY <1>1, <2>1, <2>5, <3>1
      <4> HIDE DEF m
      <4> QED BY <1>1, <2>1, <2>5, <3>1, <4>1 DEF Announced
    <3>3. SubSeq(b, MessageEnd(b) + 1, Len(b)) \in Seq(AllBytes)
      BY <1>1, <2>1
    <3> HIDE DEF m
    <3>4. ~SizeInvalid(Announced(m))
      BY <2>5 DEF MessageError
    <3>5. Announced(m) \in 0 .. MaxArchive
      BY <1>1, <3>2, <3>4 DEF SizeInvalid
    <3> QED BY <2>2, <2>5, <3>3, <3>5, DeliverType
  <2> QED BY <1>1, <2>1, <2>3, <2>4, <2>5
<1> QED BY <1>4, <1>5, <1>6

LEMMA ReadFrameType ==
  ASSUME TypeOK, NEW b \in Seq(AllBytes), ReadFrame(b)
  PROVE  /\ buffer' \in Seq(AllBytes) /\ expected' \in {Unset} \union 0 .. MaxArchive
         /\ outcome' \in Outcomes /\ (outcome'.code = "none" => outcome' = Pending)
<1> DEFINE p == push(b)
<1>1. p \in CutRecords(AllBytes, b) /\ Len(b) \in Nat
  BY PushIs, LenProperties
<1>2. /\ buffer' = SubSeq(b, p.rest + 1, Len(b)) /\ expected' = expected
      /\ outcome' = CASE p.bad -> Failed("ERR_API_V3_FRAME_LENGTH_INVALID")
                      [] ~p.bad /\ p.frames # <<>> -> Result("ok", Head(p.frames))
                      [] OTHER -> Pending
  BY DEF ReadFrame, Settle
<1> HIDE DEF p
<1>3. p.rest \in 0 .. Len(b) /\ p.frames \in Seq(Seq(AllBytes)) /\ p.bad \in BOOLEAN
  BY <1>1 DEF CutRecords
<1>4. buffer' \in Seq(AllBytes)
  BY <1>1, <1>2, <1>3
<1>5. /\ {"ERR_API_V3_FRAME_LENGTH_INVALID", "ok", "none"} \subseteq Codes
      /\ <<>> \in Seq(AllBytes)
  BY DEF Codes
<1>6. CASE p.bad
  <2>1. outcome' = Failed("ERR_API_V3_FRAME_LENGTH_INVALID")
    BY <1>2, <1>6
  <2>2. outcome' \in Outcomes /\ outcome'.code # "none"
    BY <1>5, <2>1, ResultType
  <2> QED BY <1>2, <1>4, <2>2 DEF TypeOK
<1>7. CASE ~p.bad /\ p.frames # <<>>
  <2>1. outcome' = Result("ok", Head(p.frames)) /\ Head(p.frames) \in Seq(AllBytes)
    BY <1>2, <1>3, <1>7
  <2>2. outcome' \in Outcomes /\ outcome'.code # "none"
    BY <1>5, <2>1, ResultType
  <2> QED BY <1>2, <1>4, <2>2 DEF TypeOK
<1>8. CASE ~p.bad /\ p.frames = <<>>
  <2>1. outcome' = Pending
    BY <1>2, <1>8
  <2>2. outcome' \in Outcomes
    BY <1>5, <2>1, ResultType DEF Pending
  <2> QED BY <1>2, <1>4, <2>1, <2>2 DEF TypeOK
<1> QED BY <1>6, <1>7, <1>8

\* What arrives is appended to the buffer.
Appended(n) == buffer \o SubSeq(stream, taken + 1, taken + n)

LEMMA DataType ==
  ASSUME TypeOK, stream \in Streams, NEW n \in 1 .. Len(stream) - taken, Data(n)
  PROVE  TypeOK' /\ (outcome'.code = "none" => outcome' = Pending)
<1>1. stream \in Seq(AllBytes) /\ kind \in Kinds
  BY StreamsAre DEF TypeOK, AllBytes
<1>2. Len(stream) \in Nat /\ taken \in 0 .. Len(stream) /\ taken + n \in 0 .. Len(stream)
  BY <1>1, LenProperties DEF TypeOK
<1>3. Appended(n) \in Seq(AllBytes)
  <2>1. buffer \in Seq(AllBytes)
    BY DEF TypeOK, AllBytes
  <2>2. SubSeq(stream, taken + 1, taken + n) \in Seq(AllBytes)
    BY <1>1, <1>2
  <2> QED BY <2>1, <2>2 DEF Appended
<1>4. /\ outcome = Pending /\ taken' = taken + n /\ kind' = kind /\ stream' = stream
      /\ IF kind = "request" THEN ReadFrame(Appended(n)) ELSE Consume(Appended(n))
  BY DEF Data, Appended
<1>5. /\ buffer' \in Seq(AllBytes) /\ expected' \in {Unset} \union 0 .. MaxArchive
      /\ outcome' \in Outcomes /\ (outcome'.code = "none" => outcome' = Pending)
  BY <1>3, <1>4, ReadFrameType, ConsumeType
<1> QED BY <1>1, <1>2, <1>4, <1>5 DEF TypeOK, AllBytes, Outcomes

----------------------------------------------------------------------------
(* Answers.                                                                *)

\* What a step must make of the bytes delivered so far.
Answered ==
  /\ outcome = Says(Delivered) \/ NextFrameIsBad
  /\ outcome = Pending => Collecting \/ Downloading

LEMMA PartOfPart ==
  ASSUME NEW T, NEW s \in Seq(T), NEW n \in Nat, NEW t \in n .. Len(s), NEW size \in 0 .. t - n
  PROVE  SubSeq(SubSeq(s, n + 1, t), 1, size) = SubSeq(s, n + 1, n + size)
<1> DEFINE d == SubSeq(s, n + 1, t)
           u == SubSeq(d, 1, size)
           v == SubSeq(s, n + 1, n + size)
<1>1. Len(s) \in Nat /\ t \in Nat /\ t - n \in Nat /\ size \in Nat /\ size <= t - n
  BY LenProperties
<1>2. d \in Seq(T) /\ Len(d) = t - n /\ \A k \in 1 .. t - n : d[k] = s[n + k]
  BY <1>1
<1> HIDE DEF d
<1>3. u \in Seq(T) /\ Len(u) = size /\ \A k \in 1 .. size : u[k] = d[k]
  <2>1. size <= Len(d)
    BY <1>1, <1>2
  <2> QED BY <1>1, <1>2, <2>1
<1>4. v \in Seq(T) /\ Len(v) = size /\ \A k \in 1 .. size : v[k] = s[n + k]
  <2> DEFINE i == n + 1
             j == n + size
  <2>1. i \in Int /\ j \in Int /\ i >= 1 /\ j <= Len(s) /\ j - i + 1 = size /\ (i <= j <=> size > 0)
    BY <1>1
  <2>2. \A k \in i .. j : s[k] \in T
    BY <1>1, <2>1
  <2> HIDE DEF i, j
  <2>3. v = SubSeq(s, i, j)
    BY DEF i, j
  <2> HIDE DEF v
  <2>4. v \in Seq(T) /\ Len(v) = IF i <= j THEN j - i + 1 ELSE 0
    BY <2>1, <2>2, <2>3, SubSeqProperties
  <2>5. \A k \in 1 .. j - i + 1 : v[k] = s[i + k - 1]
    BY <2>1, <2>2, <2>3, SubSeqProperties
  <2>6. Len(v) = size
    BY <1>1, <2>1, <2>4
  <2>7. ASSUME NEW k \in 1 .. size PROVE v[k] = s[n + k]
    <3>1. k \in 1 .. j - i + 1
      BY <2>1
    <3>2. i + k - 1 = n + k
      BY <1>1 DEF i
    <3> QED BY <2>5, <3>1, <3>2
  <2> QED BY <2>4, <2>6, <2>7
<1> HIDE DEF u, v
<1>5. ASSUME NEW k \in 1 .. size
      PROVE  u[k] = v[k]
  <2>1. k \in 1 .. t - n
    BY <1>1
  <2> QED BY <1>2, <1>3, <1>4, <2>1
<1>6. u = v
  BY <1>3, <1>4, <1>5, SeqEqual
<1> QED BY <1>6 DEF u, v, d

\* The archive is handed over as soon as it is complete.
LEMMA DeliverAnswers ==
  ASSUME stream \in Seq(AllBytes), UNCHANGED <<kind, stream>>, kind # "request",
         NEW n, EndsAt(n), NEW t \in n .. Len(stream), taken' = t,
         ~Refuses(Message(n)), Announced(Message(n)) <= MaxArchive,
         Deliver(SubSeq(stream, n + 1, t), Announced(Message(n)))
  PROVE  outcome' = Calls(n, t) /\ (outcome' = Pending => Downloading')
<1> DEFINE size == Announced(Message(n))
           b == SubSeq(stream, n + 1, t)
           d == SubSeq(stream, 1, t)
<1>1. n \in Nat /\ Len(stream) \in Nat /\ n <= Len(stream) /\ MaxArchive \in Nat
      /\ t \in Nat /\ t >= n /\ t \in 0 .. Len(stream)
  BY LenProperties, BoundsAreNat DEF EndsAt
<1>2. size \in Nat
  BY <1>1, MessageIs DEF AllBytes
<1>3. Len(b) = t - n
  BY <1>1
<1>4. /\ buffer' = b /\ expected' = size
      /\ outcome' = IF Len(b) >= size THEN Result("ok", SubSeq(b, 1, size)) ELSE Pending
  BY DEF Deliver, Settle
<1>5. Calls(n, t) = IF t < n + size THEN Pending
                    ELSE Result("ok", SubSeq(stream, n + 1, n + size))
  BY <1>1, <1>2 DEF Calls
<1>6. CASE t >= n + size
  <2>1. size \in 0 .. t - n
    BY <1>1, <1>2, <1>6
  <2> DEFINE archive == SubSeq(stream, n + 1, n + size)
  <2>2. SubSeq(b, 1, size) = archive
    <3>1. \A k \in 0 .. t - n : SubSeq(SubSeq(stream, n + 1, t), 1, k) = SubSeq(stream, n + 1, n + k)
      <4>1. n \in Nat /\ t \in n .. Len(stream)
        BY <1>1
      <4> QED BY <4>1, PartOfPart
    <3> HIDE DEF size
    <3> QED BY <2>1, <3>1
  <2> HIDE DEF b, size, archive
  <2>3. outcome' = Result("ok", archive) /\ ~(t < n + size)
    <3>1. Len(b) >= size /\ ~(t < n + size)
      BY <1>1, <1>2, <1>3, <1>6
    <3>2. outcome' = Result("ok", SubSeq(b, 1, size))
      BY <1>4, <3>1
    <3> QED BY <2>2, <3>1, <3>2
  <2>4. Result("ok", archive) # Pending
    BY DEF Result, Pending, Failed
  <2>5. Calls(n, t) = Result("ok", archive)
    BY <1>5, <2>3 DEF archive
  <2> QED BY <2>3, <2>4, <2>5
<1>7. CASE t < n + size
  <2>1. outcome' = Pending /\ Calls(n, t) = Pending
    <3> HIDE DEF b, size
    <3> QED BY <1>1, <1>2, <1>3, <1>4, <1>5, <1>7
  <2>2. MessageEnds(Delivered)' = {n}
    <3>1. MessageEnds(d) = {n}
      BY <1>1 DEF EndsAt
    <3>2. MessageEnds(d)' = MessageEnds(d)
      BY SameEnds
    <3> QED BY <3>1, <3>2 DEF Delivered
  <2>3. MessageBegin \in Nat \ {0} /\ n \in 0 .. t /\ n + 1 \in Nat \ {0} /\ t \in 0 .. t
    BY <1>1 DEF MessageBegin, HeaderSize
  <2>4. SubSeq(d, MessageBegin, n) = Message(n) /\ SubSeq(d, n + 1, t) = b
    BY <1>1, <2>3, PartOfPrefix DEF Message
  <2>5. MessageBegin' = MessageBegin /\ kind' # "request" /\ \A m : Refuses(m)' <=> Refuses(m)
    BY SameSays
  <2>6. Delivered' = d
    BY DEF Delivered
  <2> DEFINE m == SubSeq(Delivered, MessageBegin, n)
  <2>7. m' = Message(n)
    <3> HIDE DEF d
    <3> QED BY <2>4, <2>5, <2>6
  <2>8. Downloading'
    <3>1. ~Refuses(m)'
      BY <2>5, <2>7
    <3>2. buffer' = SubSeq(Delivered', n + 1, taken')
      BY <1>4, <2>4, <2>6
    <3>3. expected' = Announced(m')
      BY <1>4, <2>7
    <3>4. taken' < n + expected'
      BY <1>4, <1>7
    <3> QED BY <2>2, <2>5, <3>1, <3>2, <3>3, <3>4 DEF Downloading
  <2> QED BY <2>1, <2>8
<1> QED BY <1>1, <1>2, <1>6, <1>7

\* The two phases of a reader, with the end n of the message.
LEMMA PhaseIs ==
  ASSUME TypeOK, stream \in Seq(AllBytes), NEW n, EndsAt(n)
  PROVE  /\ Collecting => expected = Unset /\ buffer = SubSeq(stream, 1, taken) /\ taken < n
         /\ Downloading => /\ kind # "request" /\ taken >= n
                           /\ ~Refuses(Message(n)) /\ expected = Announced(Message(n))
                           /\ buffer = SubSeq(stream, n + 1, taken)
<1> DEFINE d == SubSeq(stream, 1, taken)
<1>1. n \in Nat /\ taken \in 0 .. Len(stream) /\ taken \in Nat /\ Len(stream) \in Nat
  BY LenProperties DEF EndsAt, TypeOK
<1>2. MessageEnds(Delivered) = IF taken < n THEN {} ELSE {n}
  BY <1>1 DEF EndsAt, Delivered
<1>3. ASSUME Collecting
      PROVE  expected = Unset /\ buffer = SubSeq(stream, 1, taken) /\ taken < n
  <2>1. taken < n
    BY <1>1, <1>2, <1>3 DEF Collecting
  <2> QED BY <1>3, <2>1 DEF Collecting, Delivered
<1>4. ASSUME Downloading
      PROVE  /\ kind # "request" /\ taken >= n
             /\ ~Refuses(Message(n)) /\ expected = Announced(Message(n))
             /\ buffer = SubSeq(stream, n + 1, taken)
  <2>1. PICK end \in MessageEnds(Delivered) :
          LET m == SubSeq(Delivered, MessageBegin, end)
          IN  /\ ~Refuses(m) /\ expected = Announced(m)
              /\ buffer = SubSeq(Delivered, end + 1, taken)
    BY <1>4 DEF Downloading
  <2>2. end = n /\ taken >= n
    BY <1>1, <1>2
  <2>3. MessageBegin \in Nat \ {0} /\ n \in 0 .. taken /\ n + 1 \in Nat \ {0} /\ taken \in 0 .. taken
    BY <1>1, <2>2 DEF MessageBegin, HeaderSize
  <2>4. /\ SubSeq(Delivered, MessageBegin, n) = Message(n)
        /\ SubSeq(Delivered, n + 1, taken) = SubSeq(stream, n + 1, taken)
    BY <1>1, <2>3, PartOfPrefix DEF Message, Delivered
  <2>5. kind # "request"
    BY <1>4 DEF Downloading
  <2> QED BY <2>1, <2>2, <2>4, <2>5
<1> QED BY <1>3, <1>4

LEMMA StillCollecting ==
  ASSUME UNCHANGED <<kind, stream>>, NEW n, EndsAt(n), NEW t \in 0 .. Len(stream), t < n,
         taken' = t, buffer' = SubSeq(stream, 1, t), expected' = Unset
  PROVE  Collecting'
<1> DEFINE d == SubSeq(stream, 1, t)
<1>1. MessageEnds(d) = {}
  BY DEF EndsAt
<1>2. MessageEnds(d)' = MessageEnds(d)
  BY SameEnds
<1>3. MessageEnds(Delivered)' = {}
  BY <1>1, <1>2 DEF Delivered
<1> QED BY <1>3 DEF Collecting, Delivered

LEMMA RequestAnswers ==
  ASSUME stream \in Seq(AllBytes), UNCHANGED <<kind, stream>>, kind = "request",
         NEW n, EndsAt(n), NEW t \in 1 .. Len(stream), taken' = t, expected = Unset,
         outcome = Pending, ReadFrame(SubSeq(stream, 1, t))
  PROVE  /\ outcome' = Calls(n, t) \/ NextFrameIsBad'
         /\ outcome' = Pending => Collecting'
<1> DEFINE b == SubSeq(stream, 1, t)
           p == push(b)
<1>1. n \in Nat /\ t \in Nat /\ Len(stream) \in Nat /\ t \in 0 .. Len(stream)
  BY LenProperties DEF EndsAt
<1>2. b \in Seq(AllBytes) /\ Len(b) = t
  BY <1>1
<1>3. /\ ~BadHeader(b, 0)
      /\ HasFrame(b, 0) <=> t >= n
      /\ HasFrame(b, 0) => FrameEnd(b, 0) = n
  BY <1>1 DEF EndsAt
<1>4. /\ buffer' = SubSeq(b, p.rest + 1, Len(b)) /\ expected' = Unset
      /\ outcome' = CASE p.bad -> Failed("ERR_API_V3_FRAME_LENGTH_INVALID")
                      [] ~p.bad /\ p.frames # <<>> -> Result("ok", Head(p.frames))
                      [] OTHER -> Pending
  BY DEF ReadFrame, Settle
<1>5. /\ p \in CutRecords(AllBytes, b)
      /\ HasFrame(b, 0) => p.frames # <<>> /\ Head(p.frames) = SubSeq(b, 3, FrameEnd(b, 0))
      /\ ~HasFrame(b, 0) => p.frames = <<>> /\ p.rest = 0 /\ p.bad = FALSE
  <2> HIDE DEF b
  <2> QED BY <1>2, <1>3, PushIs
<1>6. CASE t < n
  <2>1. ~HasFrame(b, 0)
    BY <1>1, <1>3, <1>6
  <2>2. outcome' = Pending /\ buffer' = SubSeq(b, 1, t)
    <3>1. p.frames = <<>> /\ p.rest + 1 = 1 /\ ~p.bad
      BY <1>5, <2>1
    <3> HIDE DEF p, b
    <3> QED BY <1>2, <1>4, <3>1
  <2>3. SubSeq(b, 1, t) = SubSeq(stream, 1, t)
    <3>1. 1 \in Nat \ {0} /\ t \in 0 .. t
      BY <1>1
    <3> QED BY <1>1, <3>1, PartOfPrefix
  <2>4. Calls(n, t) = Pending
    BY <1>6 DEF Calls
  <2>5. Collecting'
    BY <1>1, <1>4, <1>6, <2>2, <2>3, StillCollecting
  <2> QED BY <2>2, <2>4, <2>5
<1>7. CASE t >= n
  <2>1. p.frames # <<>> /\ Head(p.frames) = SubSeq(b, 3, n)
    BY <1>3, <1>5, <1>7
  <2>2. MessageBegin = 3
    BY DEF MessageBegin, HeaderSize
  <2>3. SubSeq(b, 3, n) = Message(n)
    <3>1. 3 \in Nat \ {0} /\ n \in 0 .. t
      BY <1>1, <1>7
    <3> QED BY <1>1, <2>2, <3>1, PartOfPrefix DEF Message
  <2>4. Calls(n, t) = Result("ok", Message(n))
    <3>1. ~(t < n)
      BY <1>1, <1>7
    <3> QED BY <3>1 DEF Calls
  <2>5. CASE p.bad
    <3>1. outcome' = Failed("ERR_API_V3_FRAME_LENGTH_INVALID")
      BY <1>4, <2>5
    <3>2. outcome'.code = "ERR_API_V3_FRAME_LENGTH_INVALID" /\ outcome' # Pending
      BY <3>1 DEF Failed, Result, Pending
    <3>3. \E k \in 1 .. t : push(SubSeq(stream, 1, k)).bad
      <4>1. t \in 1 .. t
        BY <1>1
      <4> QED BY <2>5, <4>1
    <3>4. NextFrameIsBad'
      BY <3>2, <3>3 DEF NextFrameIsBad
    <3> QED BY <3>2, <3>4
  <2>6. CASE ~p.bad
    <3>1. outcome' = Result("ok", Message(n))
      BY <1>4, <2>1, <2>3, <2>6
    <3>2. outcome' # Pending
      BY <3>1 DEF Failed, Result, Pending
    <3> QED BY <2>4, <3>1, <3>2
  <2> QED BY <2>5, <2>6
<1> QED BY <1>1, <1>6, <1>7

\* consume, when all that was delivered is still in the buffer.
LEMMA ConsumeAnswers ==
  ASSUME stream \in Seq(AllBytes), UNCHANGED <<kind, stream>>, kind \in {"binary", "log"},
         NEW n, EndsAt(n), NEW t \in 1 .. Len(stream), taken' = t, expected = Unset,
         outcome = Pending, Consume(SubSeq(stream, 1, t))
  PROVE  /\ outcome' = Calls(n, t)
         /\ outcome' = Pending => (Collecting \/ Downloading)'
<1> DEFINE b == SubSeq(stream, 1, t)
           m == SubSeq(b, MessageBegin, MessageEnd(b))
           size == Announced(Message(n))
<1>1. n \in Nat /\ t \in Nat /\ Len(stream) \in Nat /\ t \in 0 .. Len(stream) /\ MaxArchive \in Nat
  BY LenProperties, BoundsAreNat DEF EndsAt
<1>2. Len(b) = t
  BY <1>1
<1>3. MessageEnd(b) = (IF t < n THEN 0 ELSE n) /\ (kind # "log" => ~BadHeader(b, 0))
  BY <1>1 DEF EndsAt
<1>4. /\ MessageEnd(b) = 0 => buffer' = b /\ UNCHANGED <<expected, outcome>>
      /\ MessageEnd(b) > 0 /\ MessageError(m) # "none" => GiveUp(b, MessageError(m))
      /\ MessageEnd(b) > 0 /\ MessageError(m) = "none" =>
           Deliver(SubSeq(b, MessageEnd(b) + 1, Len(b)), Announced(m))
  <2>1. ~(kind = "binary" /\ BadHeader(b, 0)) /\ MessageEnd(b) \in Nat
    BY <1>1, <1>3
  <2> HIDE DEF b
  <2>2. Consume(b)
    BY DEF b
  <2> QED BY <2>1, <2>2, ConsumeMessage
<1>5. CASE t < n
  <2>1. buffer' = b /\ expected' = Unset /\ outcome' = Pending
    BY <1>3, <1>4, <1>5
  <2>2. Calls(n, t) = Pending
    BY <1>5 DEF Calls
  <2>3. Collecting'
    BY <1>1, <1>5, <2>1, StillCollecting
  <2> QED BY <2>1, <2>2, <2>3
<1>6. CASE t >= n
  <2>1. MessageEnd(b) = n /\ n > 0 /\ ~(t < n)
    <3>1. n >= MessageBegin /\ MessageBegin \in {1, 3}
      BY DEF EndsAt, MessageBegin, HeaderSize
    <3> QED BY <1>1, <1>3, <1>6, <3>1
  <2>2. m = Message(n)
    <3>1. MessageBegin \in Nat \ {0} /\ n \in 0 .. t
      BY <1>1, <1>6 DEF MessageBegin, HeaderSize
    <3> QED BY <1>1, <2>1, <3>1, PartOfPrefix DEF Message
  <2>3. Decodes(Message(n)) /\ size \in Nat
    BY <1>1, <1>6, MessageIs DEF AllBytes
  <2>4. SubSeq(b, n + 1, t) = SubSeq(stream, n + 1, t)
    <3>1. n + 1 \in Nat \ {0} /\ t \in 0 .. t
      BY <1>1
    <3> QED BY <1>1, <3>1, PartOfPrefix
  <2>5. /\ MessageError(Message(n)) # "none" => GiveUp(b, MessageError(Message(n)))
        /\ MessageError(Message(n)) = "none" => Deliver(SubSeq(stream, n + 1, t), size)
    <3> HIDE DEF b, m
    <3> QED BY <1>2, <1>4, <2>1, <2>2, <2>4
  <2> HIDE DEF b, m, size
  <2>6. MessageError(Message(n)) = IF Refuses(Message(n)) THEN "ERR_CODE"
                                   ELSE IF size > MaxArchive THEN "ERR_LOG_DOWNLOAD_SIZE_INVALID"
                                   ELSE "none"
    BY <2>3 DEF MessageError, SizeInvalid, size
  <2>7. kind # "request"
    OBVIOUS
  <2>8. Failed("ERR_CODE") # Pending /\ Failed("ERR_LOG_DOWNLOAD_SIZE_INVALID") # Pending
    BY DEF Failed, Result, Pending
  <2>9. CASE Refuses(Message(n))
    <3>1. outcome' = Failed("ERR_CODE")
      BY <2>5, <2>6, <2>9 DEF GiveUp, Settle
    <3>2. Calls(n, t) = Failed("ERR_CODE")
      BY <2>1, <2>7, <2>9 DEF Calls
    <3> QED BY <2>8, <3>1, <3>2
  <2>10. CASE ~Refuses(Message(n)) /\ size > MaxArchive
    <3>1. outcome' = Failed("ERR_LOG_DOWNLOAD_SIZE_INVALID")
      BY <2>5, <2>6, <2>10 DEF GiveUp, Settle
    <3>2. Calls(n, t) = Failed("ERR_LOG_DOWNLOAD_SIZE_INVALID")
      BY <2>1, <2>7, <2>10 DEF Calls, size
    <3> QED BY <2>8, <3>1, <3>2
  <2>11. CASE ~Refuses(Message(n)) /\ ~(size > MaxArchive)
    <3>1. Deliver(SubSeq(stream, n + 1, t), size)
      BY <2>5, <2>6, <2>11
    <3>2. size <= MaxArchive /\ t \in n .. Len(stream)
      BY <1>1, <1>6, <2>3, <2>11
    <3> QED BY <2>7, <2>11, <3>1, <3>2, DeliverAnswers DEF size
  <2> QED BY <2>9, <2>10, <2>11
<1> QED BY <1>1, <1>5, <1>6

\* A chunk is answered, with what is in the buffer already.
LEMMA DataAnswers ==
  ASSUME IndInv, NEW k \in 1 .. Len(stream) - taken, Data(k), WellFormed(stream)
  PROVE  Answered'
<1>1. stream \in Seq(AllBytes) /\ kind \in Kinds
  BY StreamsAre DEF IndInv, TypeOK, AllBytes
<1>2. PICK t \in 1 .. Len(stream) :
        /\ Len(stream) \in Nat /\ taken \in 0 .. Len(stream) /\ taken \in Nat
        /\ t \in taken .. Len(stream) /\ t = taken + k
  <2>1. Len(stream) \in Nat /\ taken \in 0 .. Len(stream) /\ taken \in Nat
    BY <1>1, LenProperties DEF IndInv, TypeOK
  <2>2. taken + k \in 1 .. Len(stream) /\ taken + k \in taken .. Len(stream)
    BY <2>1
  <2> QED BY <2>1, <2>2
<1> DEFINE c == SubSeq(stream, taken + 1, t)
<1>3. /\ outcome = Pending /\ taken' = t /\ kind' = kind /\ stream' = stream
      /\ IF kind = "request" THEN ReadFrame(buffer \o c) ELSE Consume(buffer \o c)
  BY <1>2 DEF Data
<1>4. PICK n \in Nat : EndsAt(n)
  BY <1>1, TheEnd DEF IndInv
<1>5. Says(Delivered)' = Calls(n, t)
  <2>1. Says(SubSeq(stream, 1, t))' = Says(SubSeq(stream, 1, t))
    BY <1>3, SameSays
  <2>2. Says(SubSeq(stream, 1, t)) = Calls(n, t)
    BY <1>1, <1>2, <1>4, SaysIs DEF AllBytes
  <2> QED BY <1>3, <2>1, <2>2 DEF Delivered
<1>6. /\ outcome' = Calls(n, t) \/ NextFrameIsBad'
      /\ outcome' = Pending => (Collecting \/ Downloading)'
  <2>1. CASE Collecting
    <3>1. expected = Unset /\ buffer = SubSeq(stream, 1, taken)
      BY <1>1, <1>4, <2>1, PhaseIs DEF IndInv
    <3>2. SubSeq(stream, 1, taken) \o c = SubSeq(stream, 1, t)
      <4>1. 1 \in Nat \ {0} /\ 1 <= taken + 1
        BY <1>2
      <4> QED BY <1>1, <1>2, <4>1, PartsJoin
    <3> HIDE DEF c
    <3>3. CASE kind = "request"
      BY <1>1, <1>2, <1>3, <1>4, <3>1, <3>2, <3>3, RequestAnswers
    <3>4. CASE kind # "request"
      <4>1. kind \in {"binary", "log"}
        BY <1>1, <3>4 DEF Kinds
      <4> QED BY <1>1, <1>2, <1>3, <1>4, <3>1, <3>2, <3>4, <4>1, ConsumeAnswers
    <3> QED BY <3>3, <3>4
  <2>2. CASE Downloading
    <3>1. /\ kind # "request" /\ taken >= n
          /\ ~Refuses(Message(n)) /\ expected = Announced(Message(n))
          /\ buffer = SubSeq(stream, n + 1, taken)
      BY <1>1, <1>4, <2>2, PhaseIs DEF IndInv
    <3>2. buffer \o c = SubSeq(stream, n + 1, t)
      <4>1. n + 1 \in Nat \ {0} /\ n + 1 <= taken + 1
        BY <1>2, <3>1
      <4> QED BY <1>1, <1>2, <3>1, <4>1, PartsJoin
    <3>3. expected # Unset /\ expected <= MaxArchive
      <4>1. Announced(Message(n)) \in Nat
        BY <1>1, <1>2, <3>1, <1>4, MessageIs DEF AllBytes
      <4>2. expected \in {Unset} \union 0 .. MaxArchive /\ Unset = -1 /\ MaxArchive \in Nat
        BY BoundsAreNat DEF IndInv, TypeOK, Unset
      <4> QED BY <3>1, <4>1, <4>2
    <3>4. Deliver(SubSeq(stream, n + 1, t), Announced(Message(n)))
      <4> HIDE DEF c
      <4> QED BY <1>3, <3>1, <3>2, <3>3 DEF Consume
    <3>5. t \in n .. Len(stream)
      BY <1>2, <3>1
    <3> QED BY <1>1, <1>3, <1>4, <3>1, <3>3, <3>4, <3>5, DeliverAnswers
  <2> QED BY <1>3, <2>1, <2>2 DEF IndInv
<1> QED BY <1>5, <1>6 DEF Answered

LEMMA SaysCode ==
  ASSUME NEW s
  PROVE  Says(s) = Pending \/ Says(s).code \in {"ok", "ERR_CODE", "ERR_LOG_DOWNLOAD_SIZE_INVALID"}
<1> DEFINE m == SubSeq(s, MessageBegin, CHOOSE n \in MessageEnds(s) : TRUE)
           archive == SubSeq(s, (CHOOSE n \in MessageEnds(s) : TRUE) + 1,
                                (CHOOSE n \in MessageEnds(s) : TRUE) + Announced(m))
<1>1. Says(s) \in {Pending, Result("ok", m), Failed("ERR_CODE"),
                   Failed("ERR_LOG_DOWNLOAD_SIZE_INVALID"), Result("ok", archive)}
  BY DEF Says
<1> HIDE DEF m, archive
<1> QED BY <1>1 DEF Result, Failed

----------------------------------------------------------------------------
(* The theorems.                                                           *)

LEMMA Initially == Init => IndInv
<1> SUFFICES ASSUME Init
             PROVE  IndInv
  OBVIOUS
<1>1. /\ kind \in Kinds /\ stream \in Streams /\ taken = 0 /\ buffer = <<>>
      /\ expected = Unset /\ outcome = Pending
  BY DEF Init
<1>2. stream \in Seq(AllBytes) /\ Len(stream) \in Nat
  BY <1>1, StreamsAre, LenProperties DEF AllBytes
<1>3. outcome \in Outcomes /\ outcome.code = "none"
  <2>1. "none" \in Codes /\ <<>> \in Seq(AllBytes)
    BY DEF Codes
  <2> QED BY <1>1, <2>1, ResultType DEF Pending
<1>4. TypeOK
  BY <1>1, <1>2, <1>3 DEF TypeOK, AllBytes, Outcomes
<1>5. ASSUME WellFormed(stream)
      PROVE  Collecting /\ Says(Delivered) = Pending
  <2>1. PICK n \in Nat : EndsAt(n)
    BY <1>1, <1>5, TheEnd
  <2>2. 0 \in 0 .. Len(stream) /\ 0 < n
    BY <1>2, <2>1 DEF EndsAt, MessageBegin, HeaderSize
  <2>3. MessageEnds(Delivered) = {}
    BY <1>1, <2>1, <2>2 DEF EndsAt, Delivered
  <2>4. Delivered = <<>>
    BY <1>1, <1>2 DEF Delivered
  <2> QED BY <1>1, <2>3, <2>4 DEF Collecting, Says
<1> QED BY <1>1, <1>3, <1>4, <1>5 DEF IndInv, ChunksDoNotShow, AnswersPromptly

LEMMA DataKeeps ==
  ASSUME IndInv, NEW n \in 1 .. Len(stream) - taken, Data(n)
  PROVE  IndInv'
<1>1. TypeOK' /\ (outcome'.code = "none" => outcome' = Pending)
  BY DataType DEF IndInv
<1>2. kind' = kind /\ stream' = stream
  BY DEF Data
<1>3. (stream \in Streams)'
  BY <1>2 DEF IndInv, Streams
<1>4. CASE WellFormed(stream)
  <2>1. Answered'
    BY <1>4, DataAnswers
  <2>2. (ChunksDoNotShow /\ AnswersPromptly)'
    <3>1. CASE outcome' = Says(Delivered)'
      <4>1. \/ Says(Delivered)' = Pending
            \/ Says(Delivered)'.code \in {"ok", "ERR_CODE", "ERR_LOG_DOWNLOAD_SIZE_INVALID"}
        <5> DEFINE d == SubSeq(stream, 1, taken)
        <5>1. PICK e : e = d'
          OBVIOUS
        <5>2. Says(e)' = Says(e)
          BY <1>2, SameSays
        <5>3. Says(Delivered)' = Says(e)
          BY <5>1, <5>2 DEF Delivered
        <5> QED BY <5>3, SaysCode
      <4> QED BY <3>1, <4>1 DEF ChunksDoNotShow, AnswersPromptly
    <3>2. CASE NextFrameIsBad'
      BY <3>2 DEF NextFrameIsBad, ChunksDoNotShow, AnswersPromptly
    <3> QED BY <2>1, <3>1, <3>2 DEF Answered
  <2> QED BY <1>1, <1>3, <2>1, <2>2 DEF IndInv, Answered
<1>5. CASE ~WellFormed(stream)
  <2>1. ~WellFormed(stream)'
    <3>1. WellFormed(stream)' <=> WellFormed(stream)
      BY <1>2, SameSays
    <3> QED BY <1>5, <3>1
  <2> QED BY <1>1, <1>3, <2>1 DEF IndInv, ChunksDoNotShow, AnswersPromptly
<1> QED BY <1>4, <1>5

\* When the connection ends, nothing complete is left behind.
LEMMA EndKeeps ==
  ASSUME IndInv, End \/ Lost
  PROVE  IndInv'
<1>1. /\ kind' = kind /\ stream' = stream /\ taken' = taken /\ buffer' = buffer
      /\ expected' = expected /\ outcome = Pending
  BY DEF End, Lost
<1>2. PICK code \in {"ERR_API_V3_FRAME_INCOMPLETE", "ERR_LOG_DOWNLOAD_INCOMPLETE",
                     "TIMEOUT", "CONNECTION"} : outcome' = Failed(code)
  BY DEF End, Lost, Settle, IncompleteCode
<1>3. outcome' \in Outcomes /\ outcome'.code = code /\ outcome' # Pending
  <2>1. code \in Codes /\ code # "none" /\ <<>> \in Seq(AllBytes)
    BY DEF Codes
  <2> QED BY <1>2, <2>1, ResultType DEF Pending, Failed, Result
<1>4. TypeOK' /\ (stream \in Streams)'
  BY <1>1, <1>3 DEF IndInv, TypeOK, AllBytes, Outcomes, Streams
<1>5. Says(Delivered)' = Says(Delivered) /\ (WellFormed(stream)' <=> WellFormed(stream))
  BY <1>1, SameSays DEF Delivered
<1>6. WellFormed(stream) => Says(Delivered) = Pending
  <2>1. outcome.code = "none"
    BY <1>1 DEF Pending, Failed, Result
  <2> QED BY <2>1 DEF IndInv, AnswersPromptly
<1> QED BY <1>3, <1>4, <1>5, <1>6 DEF IndInv, ChunksDoNotShow, AnswersPromptly

LEMMA Inductive == IndInv /\ [Next]_vars => IndInv'
<1> SUFFICES ASSUME IndInv, [Next]_vars
             PROVE  IndInv'
  OBVIOUS
<1>1. ASSUME NEW n \in 1 .. Len(stream) - taken, Data(n)
      PROVE  IndInv'
  BY <1>1, DataKeeps
<1>2. CASE End \/ Lost
  BY <1>2, EndKeeps
<1>3. CASE UNCHANGED vars
  <2>1. /\ kind' = kind /\ stream' = stream /\ taken' = taken /\ buffer' = buffer
        /\ expected' = expected /\ outcome' = outcome
    BY <1>3 DEF vars
  <2>2. Says(Delivered)' = Says(Delivered) /\ (WellFormed(stream)' <=> WellFormed(stream))
    BY <2>1, SameSays DEF Delivered
  <2>3. (Collecting \/ Downloading)' <=> Collecting \/ Downloading
    BY <2>1, SameEnds, SameSays DEF Collecting, Downloading, Delivered
  <2>4. NextFrameIsBad' <=> NextFrameIsBad
    BY <2>1 DEF NextFrameIsBad
  <2>5. TypeOK' /\ (stream \in Streams)'
    BY <2>1 DEF IndInv, TypeOK, Streams
  <2> QED BY <2>1, <2>2, <2>3, <2>4, <2>5 DEF IndInv, ChunksDoNotShow, AnswersPromptly
<1> QED BY <1>1, <1>2, <1>3 DEF Next, Settled

\* The readers' buffers and outcomes have their types, whatever the miner sends:
\* no size beyond the limit is waited for, and no outcome has an unknown code.
THEOREM TypeCorrect == Spec => []TypeOK
<1>1. IndInv => TypeOK
  BY DEF IndInv
<1> QED BY <1>1, Initially, Inductive, PTL DEF Spec

\* FrameDecoder.push, requestBinary and _requestLogDownload: however the stream is
\* cut into chunks, a stream with a message at its front gives the outcome that
\* the message calls for, and the archive byte for byte.
THEOREM CutsDoNotShow == Spec => []ChunksDoNotShow
<1>1. IndInv => ChunksDoNotShow
  BY DEF IndInv
<1> QED BY <1>1, Initially, Inductive, PTL DEF Spec

\* The same readers: an answer that is complete is neither left waiting in the
\* buffer nor reported as incomplete when the connection ends.
THEOREM Prompt == Spec => []AnswersPromptly
<1>1. IndInv => AnswersPromptly
  BY DEF IndInv
<1> QED BY <1>1, Initially, Inductive, PTL DEF Spec

\* findJSONObjectEnd: of any text with an object at its front, the scanner finds
\* the end of the object, whatever its strings contain, and finds nothing in any
\* shorter part of the text.
THEOREM ScannerAgreesWithGrammar ==
  ASSUME NEW b \in Seq(Text), NEW n \in 1 .. Len(b), n <= MaxText, SubSeq(b, 1, n) \in Objects(n)
  PROVE  /\ \A t \in n .. Len(b) : findJSONObjectEnd(SubSeq(b, 1, t)) = n
         /\ \A t \in 0 .. n - 1 : findJSONObjectEnd(SubSeq(b, 1, t)) = -1
<1>1. Len(b) \in Nat /\ n \in Nat
  BY LenProperties
<1>2. n >= 2 /\ Scan(b)[n - 1].end = -1 /\ Scan(b)[n].end = n
  BY ObjectEnds
<1>3. ASSUME NEW t \in n .. Len(b)
      PROVE  findJSONObjectEnd(SubSeq(b, 1, t)) = n
  <2>1. n \in 0 .. Len(b) /\ t \in 0 .. Len(b)
    BY <1>1
  <2>2. findJSONObjectEnd(SubSeq(b, 1, t)) = Scan(b)[t].end
    BY <2>1, EndOfPrefix
  <2>3. Scan(b)[n].end >= 0 => Scan(b)[t].end = Scan(b)[n].end
    BY <2>1, ScanEnd
  <2> QED BY <1>1, <1>2, <2>2, <2>3
<1>4. ASSUME NEW t \in 0 .. n - 1
      PROVE  findJSONObjectEnd(SubSeq(b, 1, t)) = -1
  <2>1. t \in 0 .. Len(b) /\ n - 1 \in t .. Len(b)
    BY <1>1
  <2>2. findJSONObjectEnd(SubSeq(b, 1, t)) = Scan(b)[t].end
    BY <2>1, EndOfPrefix
  <2>3. /\ Scan(b)[t].end \in {-1} \union 1 .. t
        /\ Scan(b)[t].end >= 0 => Scan(b)[n - 1].end = Scan(b)[t].end
    BY <2>1, ScanEnd
  <2> QED BY <1>2, <2>1, <2>2, <2>3
<1> QED BY <1>3, <1>4

=============================================================================
