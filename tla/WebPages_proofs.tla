-------------------------- MODULE WebPages_proofs --------------------------
(***************************************************************************)
(* What the pages of the web interfaces show is true, for every file, page *)
(* size, list of processes and range of instances: the text of a log is a  *)
(* piece of the file, a plot shows the latest samples, the table of jobs   *)
(* is complete, a job is sent with its own processes, and of an update     *)
(* neither more nor less is shown than has happened.                       *)
(***************************************************************************)
EXTENDS WebPages, TLAPS, SequenceTheorems,
        FiniteSetTheorems, WellFoundedInduction

\* The least of some natural numbers.
LEMMA LeastNumber ==
  ASSUME NEW S \in SUBSET Nat, S # {}
  PROVE  \E x \in S : \A y \in S : x <= y
  <1>1. \E x \in S : \A y \in S : ~ (<<y, x>> \in OpToRel(<, Nat))
    BY NatLessThanWellFounded, WFMin
  <1>2. PICK x \in S : \A y \in S : ~ (<<y, x>> \in OpToRel(<, Nat))
    BY <1>1
  <1>3. ASSUME NEW y \in S
        PROVE  x <= y
    <2>1. ~ (y < x)
      BY <1>2 DEF OpToRel
    <2> QED BY <2>1
  <1> QED BY <1>3

\* Min gives one of the numbers.
LEMMA MinIsOne ==
  ASSUME NEW S \in SUBSET Nat, S # {}
  PROVE  Min(S) \in S
  BY LeastNumber DEF Min

(* The greatest of some numbers with a bound.                              *)
LEMMA GreatestNumber ==
  ASSUME NEW n \in Nat, NEW S \in SUBSET (1..n), S # {}
  PROVE  \E x \in S : \A y \in S : y <= x
  <1> DEFINE T == {n - x : x \in S}
  <1>1. T \in SUBSET Nat /\ T # {}
    <2>1. \A x \in S : n - x \in Nat
      OBVIOUS
    <2> QED BY <2>1
  <1>2. PICK t \in T : \A y \in T : t <= y
    BY <1>1, LeastNumber
  <1>3. PICK x \in S : t = n - x
    OBVIOUS
  <1>4. ASSUME NEW y \in S
        PROVE  y <= x
    <2>1. n - x <= n - y
      BY <1>2, <1>3
    <2> QED BY <2>1
  <1> QED BY <1>4

-----------------------------------------------------------------------------
(* The viewer of a log.                                                    *)

(* What is shown of a file is a piece of it; two pieces that touch, or the *)
(* end of one, are a piece again.                                          *)
LEMMA PieceType ==
  ASSUME NEW a \in Int, NEW n \in Nat
  PROVE  Bytes(a, n) \in Seq(Int) /\ Len(Bytes(a, n)) = n
  BY DEF Bytes

LEMMA PiecesJoin ==
  ASSUME NEW a \in Int, NEW m \in Nat, NEW n \in Nat
  PROVE  Bytes(a, m) \o Bytes(a + m, n) = Bytes(a, m + n)
  <1>1. /\ Bytes(a, m) \in Seq(Int) /\ Len(Bytes(a, m)) = m
        /\ Bytes(a + m, n) \in Seq(Int) /\ Len(Bytes(a + m, n)) = n
        /\ Bytes(a, m + n) \in Seq(Int) /\ Len(Bytes(a, m + n)) = m + n
    BY PieceType
  <1>2. /\ Bytes(a, m) \o Bytes(a + m, n) \in Seq(Int)
        /\ Len(Bytes(a, m) \o Bytes(a + m, n)) = m + n
    BY <1>1, ConcatProperties
  <1>3. \A i \in 1..(m + n) :
          (Bytes(a, m) \o Bytes(a + m, n))[i] = Bytes(a, m + n)[i]
    <2> SUFFICES ASSUME NEW i \in 1..(m + n)
                 PROVE  (Bytes(a, m) \o Bytes(a + m, n))[i] = Bytes(a, m + n)[i]
      OBVIOUS
    <2>1. (Bytes(a, m) \o Bytes(a + m, n))[i] =
            IF i <= m THEN Bytes(a, m)[i] ELSE Bytes(a + m, n)[i - m]
      BY <1>1
    <2> QED BY <2>1 DEF Bytes
  <1> QED BY <1>1, <1>2, <1>3, SeqEqual

LEMMA PieceEnds ==
  ASSUME NEW a \in Int, NEW n \in Nat, NEW k \in 1..(n + 1)
  PROVE  SubSeq(Bytes(a, n), k, n) = Bytes(a + k - 1, n - k + 1)
  <1>1. /\ Bytes(a, n) \in Seq(Int) /\ Len(Bytes(a, n)) = n
        /\ Bytes(a + k - 1, n - k + 1) \in Seq(Int)
        /\ Len(Bytes(a + k - 1, n - k + 1)) = n - k + 1
    <2>1. a + k - 1 \in Int /\ n - k + 1 \in Nat
      OBVIOUS
    <2> HIDE DEF Bytes
    <2> QED BY <2>1, PieceType
  <1>2. SubSeq(Bytes(a, n), k, n) = [i \in 1..(n - k + 1) |-> Bytes(a, n)[i + k - 1]]
    BY <1>1
  <1>3. \A i \in 1..(n - k + 1) : Bytes(a, n)[i + k - 1] = a + k - 1 + i - 1
    BY DEF Bytes
  <1> QED BY <1>2, <1>3 DEF Bytes

\* What is left after the first line.
LEMMA LineCut ==
  ASSUME NEW a \in Int, NEW n \in Nat
  PROVE  \E l \in 0..n : AfterNewline(Bytes(a, n)) = Bytes(a + n - l, l)
  <1>1. CASE Newline(Bytes(a, n)) = {}
    BY <1>1 DEF AfterNewline
  <1>2. CASE Newline(Bytes(a, n)) # {}
    <2> DEFINE m == Min(Newline(Bytes(a, n)))
    <2>1. Newline(Bytes(a, n)) \subseteq 1..n
      BY DEF Newline, Bytes
    <2>2. m \in Newline(Bytes(a, n))
      <3>1. Newline(Bytes(a, n)) \in SUBSET Nat
        BY <2>1
      <3> QED BY <1>2, <3>1, MinIsOne
    <2>3. m \in 1..n
      BY <2>1, <2>2
    <2>4. Len(Bytes(a, n)) = n
      BY PieceType
    <2>5. AfterNewline(Bytes(a, n)) = SubSeq(Bytes(a, n), m + 1, n)
      BY <1>2, <2>4 DEF AfterNewline
    <2> HIDE DEF m
    <2>6. SubSeq(Bytes(a, n), m + 1, n) = Bytes(a + (m + 1) - 1, n - (m + 1) + 1)
      <3>1. m + 1 \in 1..(n + 1)
        BY <2>3
      <3> QED BY <3>1, PieceEnds
    <2>7. /\ n - m \in 0..n
          /\ a + (m + 1) - 1 = a + n - (n - m)
          /\ n - (m + 1) + 1 = n - m
      BY <2>3
    <2> QED BY <2>5, <2>6, <2>7
  <1> QED BY <1>1, <1>2

\* What is left after the first line of any text.
LEMMA LineType ==
  ASSUME NEW bytes \in Seq(Int)
  PROVE  AfterNewline(bytes) \in Seq(Int) /\ Len(AfterNewline(bytes)) \in 0..Len(bytes)
  <1>1. CASE Newline(bytes) = {}
    BY <1>1 DEF AfterNewline
  <1>2. CASE Newline(bytes) # {}
    <2> DEFINE m == Min(Newline(bytes))
    <2>1. Newline(bytes) \subseteq 1..Len(bytes) /\ Len(bytes) \in Nat
      BY DEF Newline
    <2>2. m \in Newline(bytes)
      <3>1. Newline(bytes) \in SUBSET Nat
        BY <2>1
      <3> QED BY <1>2, <3>1, MinIsOne
    <2>3. m \in 1..Len(bytes)
      BY <2>1, <2>2
    <2>4. AfterNewline(bytes) = SubSeq(bytes, m + 1, Len(bytes))
      BY <1>2 DEF AfterNewline
    <2> HIDE DEF m
    <2>5. /\ SubSeq(bytes, m + 1, Len(bytes)) \in Seq(Int)
          /\ Len(SubSeq(bytes, m + 1, Len(bytes))) = Len(bytes) - m
      BY <2>1, <2>3
    <2> QED BY <2>1, <2>3, <2>4, <2>5
  <1> QED BY <1>1, <1>2

\* The lesser of two numbers.
LEMMA LesserOfTwo ==
  ASSUME NEW a \in Int, NEW b \in Int
  PROVE  Min({a, b}) = IF a <= b THEN a ELSE b
  <1> DEFINE l == IF a <= b THEN a ELSE b
  <1>1. l \in {a, b} /\ (\A y \in {a, b} : l <= y)
    OBVIOUS
  <1>2. \A x \in {a, b} : (\A y \in {a, b} : x <= y) => x = l
    OBVIOUS
  <1>3. Min({a, b}) = CHOOSE x \in {a, b} : \A y \in {a, b} : x <= y
    BY DEF Min
  <1> HIDE DEF l
  <1>4. Min({a, b}) = l
    BY <1>1, <1>2, <1>3
  <1> QED BY <1>4 DEF l

(* The height of a text is at least that of the element, and grows with    *)
(* the text.                                                               *)
LEMMA HeightOfText ==
  ASSUME NEW t, Len(t) \in Nat
  PROVE  ScrollHeight(t) = IF Len(t) >= Height THEN Len(t) ELSE Height
  <1> DEFINE n == Len(t)
             g == IF n >= Height THEN n ELSE Height
  <1>1. n \in Nat /\ Height \in Nat
    BY PailerSizes
  <1> HIDE DEF n
  <1>2. g \in {n, Height} /\ (\A y \in {n, Height} : g >= y)
    BY <1>1
  <1>3. \A x \in {n, Height} : (\A y \in {n, Height} : x >= y) => x = g
    BY <1>1
  <1>4. ScrollHeight(t) = CHOOSE x \in {n, Height} : \A y \in {n, Height} : x >= y
    BY DEF ScrollHeight, Max, n
  <1> HIDE DEF g
  <1>5. ScrollHeight(t) = g
    BY <1>2, <1>3, <1>4
  <1> QED BY <1>5 DEF g, n

\* A text grows, and the user may be anywhere in it.
LEMMA HeightGrows ==
  ASSUME NEW t, NEW u, Len(t) \in Nat, Len(u) \in Nat, Len(t) <= Len(u)
  PROVE  /\ ScrollHeight(t) \in Nat /\ ScrollHeight(u) \in Nat
         /\ ScrollHeight(t) >= Height /\ ScrollHeight(u) >= ScrollHeight(t)
  <1>1. Height \in Nat
    BY PailerSizes
  <1> DEFINE m == Len(t)  n == Len(u)
  <1>2. /\ ScrollHeight(t) = IF m >= Height THEN m ELSE Height
        /\ ScrollHeight(u) = IF n >= Height THEN n ELSE Height
    BY HeightOfText
  <1>3. m \in Nat /\ n \in Nat /\ m <= n
    OBVIOUS
  <1> HIDE DEF m, n
  <1> QED BY <1>1, <1>2, <1>3

PailerCall == [slot : Nat, do : {"init", "page", "tail"}, at : {"read", "timer"},
               offset : Int, length : Int, buffer : Seq(Int), size : Int]

PailerFields == [initialized : BOOLEAN, start : Int, end : Int,
                 paging : BOOLEAN, tailing : BOOLEAN]

PailerTypes ==
  /\ file \in Int
  /\ pailer \in PailerFields
  /\ text \in Seq(Int)
  /\ calls \in SUBSET PailerCall
  /\ IsFiniteSet(calls)

\* The text is a piece of the file.
Shown ==
  /\ text = Bytes(pailer.start, pailer.end - pailer.start)
  /\ pailer.start <= pailer.end
  /\ pailer.initialized => pailer.start >= 0

\* The read of a page ends where the text starts, and has read what is before it.
PageFits(c, start) ==
  /\ c.offset + c.length = start
  /\ c.length >= 1
  /\ c.offset >= Len(c.buffer)
  /\ c.buffer = Bytes(c.offset - Len(c.buffer), Len(c.buffer))

PagesFit == \A c \in calls : c.do = "page" /\ c.at = "read" => PageFits(c, pailer.start)

\* The read of a tail starts where the text ends.
TailsFit == \A c \in calls : c.do = "tail" /\ c.at = "read" => c.offset = pailer.end

\* The offsets of bytes that the file has.
InFile(bytes, size) == \A i \in DOMAIN bytes : bytes[i] \in 0..(size - 1)

TextBounds ==
  /\ file \in 0..MaxFile
  /\ pailer.start \in -TruncateLength..MaxFile
  /\ pailer.end \in -1..MaxFile
  /\ pailer.initialized => pailer.end >= 0
  /\ InFile(text, file)
  /\ top \in 0..(ScrollHeight(text) - Height)

\* No read begins before the file, and what is read of a page is in it.
CallBounds(c, size) ==
  /\ c.do = "page" /\ c.at = "read" => c.offset >= Len(c.buffer) /\ InFile(c.buffer, size)
  /\ c.do = "tail" /\ c.at = "read" => c.offset >= 0

CallsBounds ==
  /\ \A c \in calls : CallBounds(c, file)
  /\ \A c, d \in calls : c.slot = d.slot => c = d

PailerBounds == TextBounds /\ CallsBounds

PailerInv ==
  PailerTypes /\ PailerBounds /\ (~overlap => Shown /\ PagesFit /\ TailsFit)

(* A handler that makes no call, and one that makes one.                   *)
LEMMA CallsLess ==
  ASSUME PailerTypes, NEW done, Becomes(done, {})
  PROVE  /\ calls' = calls \ done
         /\ calls' \in SUBSET PailerCall
         /\ IsFiniteSet(calls')
  <1>1. calls' = calls \ done
    BY DEF Becomes
  <1> QED BY <1>1, FS_Difference DEF PailerTypes

LEMMA CallsOne ==
  ASSUME PailerTypes, NEW done, NEW x \in PailerCall, Becomes(done, {x})
  PROVE  /\ calls' \in SUBSET PailerCall
         /\ IsFiniteSet(calls')
         /\ \E y \in PailerCall :
              /\ calls' = (calls \ done) \cup {y}
              /\ y \notin calls \ done
              /\ \A d \in calls \ done : d.slot # y.slot
              /\ y.do = x.do /\ y.at = x.at /\ y.offset = x.offset
              /\ y.length = x.length /\ y.buffer = x.buffer
  <1> DEFINE left == calls \ done
             slots == Slots \ {c.slot : c \in left}
             y == [x EXCEPT !.slot = Min(slots)]
  <1>1. slots # {} /\ calls' = left \cup {y}
    BY DEF Becomes
  <1>2. slots \in SUBSET Nat
    BY PailerSizes DEF Slots
  <1>3. Min(slots) \in slots
    <2> HIDE DEF slots
    <2> QED BY <1>1, <1>2, MinIsOne
  <1>4. Min(slots) \in Nat /\ (\A c \in left : c.slot # Min(slots))
    BY <1>2, <1>3
  <1> HIDE DEF slots
  <1>5. /\ y \in PailerCall
        /\ y.slot = Min(slots)
        /\ y.do = x.do /\ y.at = x.at /\ y.offset = x.offset
        /\ y.length = x.length /\ y.buffer = x.buffer
    BY <1>4 DEF PailerCall
  <1>6. y \notin left /\ (\A d \in left : d.slot # y.slot)
    BY <1>4, <1>5
  <1>7. IsFiniteSet(left)
    BY FS_Difference DEF PailerTypes
  <1> HIDE DEF y
  <1>8. IsFiniteSet(calls')
    <2> HIDE DEF left
    <2> QED BY <1>1, <1>7, FS_AddElement
  <1>9. calls' \in SUBSET PailerCall
    BY <1>1, <1>5 DEF PailerTypes
  <1> QED BY <1>1, <1>5, <1>6, <1>8, <1>9

\* A file that grows still has what it had.
LEMMA StaysInFile ==
  ASSUME NEW size \in Int, NEW grown \in Int, size <= grown, NEW bytes, InFile(bytes, size)
  PROVE  InFile(bytes, grown)
  BY DEF InFile

(* Bytes of the file that are joined, cut, or read from it are bytes of    *)
(* the file.                                                               *)
LEMMA JoinedInFile ==
  ASSUME NEW a \in Seq(Int), NEW b \in Seq(Int), NEW size, InFile(a, size), InFile(b, size)
  PROVE  InFile(a \o b, size)
  BY DEF InFile

LEMMA EndInFile ==
  ASSUME NEW a \in Seq(Int), NEW k \in 1..(Len(a) + 1), NEW size, InFile(a, size)
  PROVE  InFile(SubSeq(a, k, Len(a)), size)
  BY DEF InFile

LEMMA PieceInFile ==
  ASSUME NEW a \in Nat, NEW n \in Nat, NEW size \in Int, a + n <= size
  PROVE  InFile(Bytes(a, n), size)
  BY DEF InFile, Bytes

LEMMA LineInFile ==
  ASSUME NEW bytes \in Seq(Int), NEW size, InFile(bytes, size)
  PROVE  InFile(AfterNewline(bytes), size)
  <1>1. CASE Newline(bytes) = {}
    BY <1>1 DEF AfterNewline
  <1>2. CASE Newline(bytes) # {}
    <2> DEFINE m == Min(Newline(bytes))
    <2>1. Newline(bytes) \subseteq 1..Len(bytes) /\ Len(bytes) \in Nat
      BY DEF Newline
    <2>2. m \in Newline(bytes)
      <3>1. Newline(bytes) \in SUBSET Nat
        BY <2>1
      <3> QED BY <1>2, <3>1, MinIsOne
    <2>3. m + 1 \in 1..(Len(bytes) + 1)
      BY <2>1, <2>2
    <2>4. AfterNewline(bytes) = SubSeq(bytes, m + 1, Len(bytes))
      BY <1>2 DEF AfterNewline
    <2> HIDE DEF m
    <2> QED BY <2>3, <2>4, EndInFile
  <1> QED BY <1>1, <1>2

\* A call that keeps within the file, or none, leaves all of them there.
LEMMA CallsWithin ==
  ASSUME PailerTypes, CallsBounds, NEW done, NEW new, Becomes(done, new),
         file' \in Int, file <= file',
         new = {} \/ (\E x \in PailerCall : new = {x} /\ CallBounds(x, file'))
  PROVE  CallsBounds'
  <1>1. \A c \in calls : CallBounds(c, file')
    BY StaysInFile DEF CallsBounds, CallBounds, PailerTypes
  <1>2. CASE new = {}
    <2>1. calls' = calls \ done
      BY <1>2, CallsLess
    <2> QED BY <1>1, <2>1 DEF CallsBounds
  <1>3. ASSUME NEW x \in PailerCall, new = {x}, CallBounds(x, file')
        PROVE  CallsBounds'
    <2>1. Becomes(done, {x})
      BY <1>3
    <2>2. PICK y \in PailerCall :
            /\ calls' = (calls \ done) \cup {y}
            /\ \A d \in calls \ done : d.slot # y.slot
            /\ y.do = x.do /\ y.at = x.at /\ y.offset = x.offset /\ y.buffer = x.buffer
      BY <2>1, CallsOne
    <2>3. CallBounds(y, file')
      BY <1>3, <2>2 DEF CallBounds
    <2>4. \A c, d \in calls' : c.slot = d.slot => c = d
      BY <2>2 DEF CallsBounds
    <2> QED BY <1>1, <2>2, <2>3, <2>4 DEF CallsBounds
  <1> QED BY <1>2, <1>3

\* A read, a read with nothing read before it, and a timer.
LEMMA ReadType ==
  ASSUME PailerTypes, NEW do \in {"init", "page", "tail"}, NEW offset \in Int,
         NEW length \in Int, NEW buffer \in Seq(Int)
  PROVE  /\ Read(do, offset, length, buffer) \in PailerCall
         /\ Read(do, offset, length, buffer).do = do
         /\ Read(do, offset, length, buffer).at = "read"
         /\ Read(do, offset, length, buffer).offset = offset
         /\ Read(do, offset, length, buffer).length = length
         /\ Read(do, offset, length, buffer).buffer = buffer
  BY DEF Read, PailerCall, PailerTypes

LEMMA EmptyReadType ==
  ASSUME PailerTypes, NEW do \in {"init", "page", "tail"}, NEW offset \in Int,
         NEW length \in Int
  PROVE  \E x \in PailerCall :
           /\ x = Read(do, offset, length, <<>>)
           /\ x.do = do /\ x.at = "read" /\ x.offset = offset
           /\ x.length = length /\ x.buffer = <<>>
  <1> DEFINE e == <<>>
  <1>1. e \in Seq(Int)
    BY EmptySeq
  <1> HIDE DEF e
  <1>2. LET x == Read(do, offset, length, e)
        IN  /\ x \in PailerCall
            /\ x.do = do /\ x.at = "read" /\ x.offset = offset
            /\ x.length = length /\ x.buffer = e
    BY <1>1, ReadType
  <1>3. \E x \in PailerCall :
           /\ x = Read(do, offset, length, e)
           /\ x.do = do /\ x.at = "read" /\ x.offset = offset
           /\ x.length = length /\ x.buffer = e
    BY <1>2
  <1> QED BY <1>3 DEF e

LEMMA TimerType ==
  ASSUME NEW do \in {"init", "page", "tail"}
  PROVE  Timer(do) \in PailerCall /\ Timer(do).do = do /\ Timer(do).at = "timer"
  <1>1. <<>> \in Seq(Int)
    BY EmptySeq
  <1> QED BY <1>1 DEF Timer, PailerCall

(* The reads of pages fit when the new one does: were the start of the     *)
(* text moved under an old one, the reads would overlap.                   *)
LEMMA PagesStayFit ==
  ASSUME PagesFit, ~Disturbed,
         \A c \in calls' \ calls : c.do = "page" /\ c.at = "read" => PageFits(c, pailer'.start)
  PROVE  PagesFit'
  <1>1. ASSUME NEW c \in calls \cap calls', c.do = "page", c.at = "read"
        PROVE  PageFits(c, pailer'.start)
    <2>1. pailer'.start = pailer.start
      BY <1>1 DEF Disturbed
    <2> QED BY <1>1, <2>1 DEF PagesFit
  <1> QED BY <1>1 DEF PagesFit

(* A second call of a tail makes the reads overlap.                        *)
LEMMA OneTail ==
  ASSUME PailerTypes', ~Disturbed,
         NEW c \in calls', NEW d \in calls', c.do = "tail", d.do = "tail"
  PROVE  c = d
  <1> DEFINE T == {e \in calls' : e.do = "tail"}
  <1>1. IsFiniteSet(T) /\ Cardinality(T) \in Nat
    <2>1. IsFiniteSet(calls') /\ T \subseteq calls'
      BY DEF PailerTypes
    <2> HIDE DEF T
    <2> QED BY <2>1, FS_Subset, FS_CardinalityType
  <1>2. Cardinality(T) <= 1
    BY <1>1 DEF Disturbed
  <1>3. {c, d} \subseteq T
    OBVIOUS
  <1> HIDE DEF T
  <1>4. Cardinality({c, d}) <= 1
    BY <1>1, <1>2, <1>3, FS_Subset, FS_CardinalityType
  <1>5. ASSUME c # d PROVE FALSE
    <2>1. Cardinality({c}) = 1 /\ IsFiniteSet({c})
      BY FS_Singleton
    <2>2. Cardinality({c} \cup {d}) = 2
      BY <1>5, <2>1, FS_AddElement
    <2>3. {c} \cup {d} = {c, d}
      OBVIOUS
    <2> QED BY <1>4, <2>2, <2>3
  <1> QED BY <1>5

(* Reads stay disturbed unless initialize() is answered.                   *)
LEMMA StaysDisturbed ==
  ASSUME overlap, pailer'.initialized => pailer.initialized, overlap' = Disturbed
  PROVE  overlap'
  BY DEF Disturbed

(* The answer to initialize() shows nothing of the file and starts a tail. *)
LEMMA InitializeStep ==
  ASSUME PailerInv, NEW c \in calls, c.do = "init", InitializeAnswered(c),
         UNCHANGED file, overlap' = Disturbed
  PROVE  PailerInv'
  <1>1. PailerTypes /\ c \in PailerCall /\ Becomes({c}, {Timer("tail")}) /\ PailerBounds
    BY DEF PailerInv, PailerTypes, InitializeAnswered
  <1>2. Timer("tail") \in PailerCall /\ Timer("tail").do = "tail" /\ Timer("tail").at = "timer"
    BY TimerType
  <1>3. calls' \in SUBSET PailerCall /\ IsFiniteSet(calls')
    BY <1>1, <1>2, CallsOne
  <1>4. PICK y \in PailerCall : /\ calls' = (calls \ {c}) \cup {y}
                                /\ y.do = "tail" /\ y.at = "timer"
    BY <1>1, <1>2, CallsOne
  <1>5. PICK size \in c.size..file : pailer' = Initialized(size)
    BY DEF InitializeAnswered
  <1> DEFINE at == IF size > PageSize THEN size - PageSize ELSE 0
  <1>6. at \in Nat /\ at \in 0..MaxFile
    <2>1. c.size \in Int /\ file \in 0..MaxFile /\ PageSize \in Nat /\ MaxFile \in Nat
      BY <1>1, PailerSizes DEF PailerTypes, PailerCall, PailerBounds, TextBounds
    <2> QED BY <2>1
  <1>7. pailer' = [pailer EXCEPT !.start = at, !.end = at, !.initialized = TRUE]
    BY <1>5 DEF Initialized
  <1> HIDE DEF at
  <1>8. pailer' \in PailerFields /\ pailer'.start = at /\ pailer'.end = at
    <2>1. at \in Int
      BY <1>6
    <2> QED BY <1>1, <1>7, <2>1 DEF PailerTypes, PailerFields
  <1>9. text' = <<>> /\ text' \in Seq(Int)
    BY EmptySeq DEF InitializeAnswered
  <1>10. PailerTypes'
    BY <1>1, <1>3, <1>8, <1>9 DEF PailerTypes
  <1>b. TextBounds'
    <2>1. /\ pailer'.start \in -TruncateLength..MaxFile
          /\ pailer'.end \in -1..MaxFile /\ pailer'.end >= 0
      BY <1>6, <1>8, PailerSizes
    <2>2. InFile(text', file')
      BY <1>9 DEF InFile
    <2>3. top' = 0 /\ ScrollHeight(text') \in Nat /\ ScrollHeight(text') >= Height
      BY <1>9, HeightGrows, LenProperties DEF InitializeAnswered
    <2>4. file' \in 0..MaxFile /\ top' \in 0..(ScrollHeight(text') - Height)
      BY <1>1, <2>3, PailerSizes DEF PailerBounds, TextBounds
    <2> QED BY <2>1, <2>2, <2>4 DEF TextBounds
  <1>c. PailerBounds'
    <2>1. CallBounds(Timer("tail"), file')
      BY <1>2 DEF CallBounds
    <2>2. CallsBounds'
      BY <1>1, <1>2, <2>1, CallsWithin DEF PailerBounds, PailerTypes
    <2> QED BY <1>b, <2>2 DEF PailerBounds
  <1>11. Shown'
    <2>1. Bytes(at, at - at) = <<>>
      BY <1>6 DEF Bytes
    <2> QED BY <1>6, <1>8, <1>9, <2>1 DEF Shown
  <1>12. ASSUME ~overlap'
         PROVE  PagesFit' /\ TailsFit'
    <2>1. ~Disturbed
      BY <1>12
    <2>2. \A d \in calls' : d.do = "tail" => d.at = "timer"
      BY <1>4, <1>10, <2>1, OneTail
    <2>3. CASE ~overlap
      <3>1. PagesFit
        BY <2>3 DEF PailerInv
      <3>2. \A d \in calls' \ calls : d.do # "page"
        BY <1>4
      <3> QED BY <2>1, <2>2, <3>1, <3>2, PagesStayFit DEF TailsFit
    <2>4. CASE overlap
      <3>1. \A d \in calls \cap calls' : ~(d.do = "page" /\ d.at = "read")
        BY <2>1, <2>4 DEF Disturbed
      <3>2. \A d \in calls' : ~(d.do = "page" /\ d.at = "read")
        BY <1>4, <3>1
      <3> QED BY <2>2, <3>2 DEF PagesFit, TailsFit
    <2> QED BY <2>3, <2>4
  <1> QED BY <1>10, <1>c, <1>11, <1>12 DEF PailerInv

(* Part of a page is answered, or the rest of it.                          *)
LEMMA PageStep ==
  ASSUME PailerInv, NEW c \in calls, c.do = "page", c.at = "read", PageAnswered(c),
         UNCHANGED file, overlap' = Disturbed
  PROVE  PailerInv'
  <1> DEFINE all == IF c.length < 0 THEN file - c.offset ELSE Min({c.length, file - c.offset})
  <1>1. /\ PailerTypes /\ PailerBounds /\ c \in PailerCall
        /\ c.length \in Int /\ c.offset \in Int /\ c.buffer \in Seq(Int) /\ file \in Int
    BY DEF PailerInv, PailerTypes, PailerCall
  <1>2. all \in Int /\ (c.length >= 0 => all <= c.length) /\ all <= file - c.offset
    BY <1>1, LesserOfTwo
  <1> HIDE DEF all
  <1> DEFINE read(n) == c.buffer \o Bytes(c.offset, n)
             first == c.offset - Len(c.buffer)
             kept(n) == IF first = 0 THEN read(n) ELSE AfterNewline(read(n))
  <1>3. PICK n \in 1..all :
          IF n < c.length
           THEN /\ Becomes({c}, {Read("page", c.offset + n, c.length - n, read(n))})
                /\ UNCHANGED <<pailer, text, top, scrolled>>
           ELSE /\ pailer' = [pailer EXCEPT !.start = first + Len(read(n)) - Len(kept(n)),
                                            !.paging = FALSE]
                /\ text' = kept(n) \o text
                /\ top' = top + ScrollHeight(text') - ScrollHeight(text)
                /\ Becomes({c}, {})
    BY DEF PageAnswered, all
  <1>4. n \in Nat /\ n >= 1
    BY <1>2
  <1>5. Bytes(c.offset, n) \in Seq(Int) /\ Len(Bytes(c.offset, n)) = n
    BY <1>1, <1>4, PieceType
  <1>6. read(n) \in Seq(Int) /\ Len(read(n)) = Len(c.buffer) + n /\ Len(c.buffer) \in Nat
    <2>1. Len(c.buffer) \in Nat
      BY <1>1, LenProperties
    <2>2. /\ c.buffer \o Bytes(c.offset, n) \in Seq(Int)
          /\ Len(c.buffer \o Bytes(c.offset, n)) = Len(c.buffer) + Len(Bytes(c.offset, n))
      BY <1>1, <1>5, ConcatProperties
    <2> QED BY <1>5, <2>1, <2>2
  <1>7. kept(n) \in Seq(Int) /\ Len(kept(n)) \in Nat
    <2>1. CASE first = 0
      BY <1>6, <2>1, LenProperties
    <2>2. CASE first # 0
      <3>1. kept(n) = AfterNewline(read(n))
        BY <2>2
      <3> HIDE DEF kept, read
      <3> QED BY <1>6, <3>1, LineType
    <2> QED BY <2>1, <2>2
  <1>a. /\ c.offset >= Len(c.buffer) /\ c.offset + n <= file
        /\ InFile(read(n), file) /\ InFile(kept(n), file)
        /\ Len(kept(n)) <= Len(read(n))
    <2>1. c.offset >= Len(c.buffer) /\ InFile(c.buffer, file)
      BY <1>1 DEF PailerBounds, CallsBounds, CallBounds
    <2>2. c.offset \in Nat /\ c.offset + n <= file
      BY <1>1, <1>2, <1>4, <1>6, <2>1
    <2>3. InFile(Bytes(c.offset, n), file)
      BY <1>1, <1>4, <2>2, PieceInFile
    <2>4. InFile(c.buffer \o Bytes(c.offset, n), file)
      BY <1>1, <1>5, <2>1, <2>3, JoinedInFile
    <2>5. InFile(read(n), file)
      BY <2>4
    <2>6. kept(n) = IF first = 0 THEN read(n) ELSE AfterNewline(read(n))
      OBVIOUS
    <2> HIDE DEF read, kept, first
    <2>7. InFile(AfterNewline(read(n)), file) /\ Len(AfterNewline(read(n))) <= Len(read(n))
      BY <1>6, <2>5, LineInFile, LineType
    <2> QED BY <1>6, <2>1, <2>2, <2>5, <2>6, <2>7
  <1>8. PageFits(c, pailer.start) =>
          /\ read(n) = Bytes(first, Len(read(n)))
          /\ first \in Nat
          /\ \E l \in 0..Len(read(n)) : kept(n) = Bytes(c.offset + n - l, l)
    <2> HAVE PageFits(c, pailer.start)
    <2>1. first \in Nat /\ c.buffer = Bytes(first, Len(c.buffer))
      BY <1>1, <1>6 DEF PageFits
    <2>2. c.offset = first + Len(c.buffer)
      BY <1>1, <1>6
    <2>a. kept(n) = IF first = 0 THEN read(n) ELSE AfterNewline(read(n))
      OBVIOUS
    <2>b. read(n) = c.buffer \o Bytes(c.offset, n)
      OBVIOUS
    <2> HIDE DEF first, kept, read
    <2>3. Bytes(first, Len(c.buffer)) \o Bytes(first + Len(c.buffer), n) =
            Bytes(first, Len(c.buffer) + n)
      <3>1. first \in Int /\ Len(c.buffer) \in Nat
        BY <1>6, <2>1
      <3> QED BY <1>4, <3>1, PiecesJoin
    <2>4. read(n) = Bytes(first, Len(read(n)))
      BY <1>6, <2>1, <2>2, <2>3, <2>b
    <2>5. \E l \in 0..Len(read(n)) : kept(n) = Bytes(c.offset + n - l, l)
      <3> DEFINE m == Len(read(n))
      <3>1. m \in Nat /\ c.offset + n = first + m
        BY <1>4, <1>6, <2>1, <2>2
      <3>2. m \in 0..m /\ read(n) = Bytes(c.offset + n - m, m)
        <4>1. c.offset + n - m = first
          <5>1. c.offset \in Int /\ first \in Int /\ n \in Int /\ m \in Int
            BY <1>1, <1>4, <2>1, <3>1
          <5> HIDE DEF m
          <5> QED BY <3>1, <5>1
        <4> QED BY <2>4, <3>1, <4>1
      <3>3. \E l \in 0..m : AfterNewline(Bytes(first, m)) = Bytes(first + m - l, l)
        <4>1. first \in Int /\ m \in Nat
          BY <2>1, <3>1
        <4> HIDE DEF m
        <4> QED BY <4>1, LineCut
      <3>4. AfterNewline(read(n)) = AfterNewline(Bytes(first, m))
        BY <2>4
      <3> HIDE DEF m
      <3>5. CASE first = 0
        BY <2>a, <3>2, <3>5 DEF m
      <3>6. CASE first # 0
        <4>1. PICK l \in 0..m : AfterNewline(Bytes(first, m)) = Bytes(first + m - l, l)
          BY <3>3
        <4>2. kept(n) = Bytes(c.offset + n - l, l)
          <5>1. c.offset + n - l = first + m - l
            <6>1. /\ c.offset + n = first + m /\ c.offset \in Int /\ first \in Int
                  /\ n \in Int /\ m \in Int /\ l \in Int
              BY <1>1, <1>4, <2>1, <3>1, <4>1
            <6> QED BY <6>1
          <5> QED BY <2>a, <3>4, <3>6, <4>1, <5>1
        <4> QED BY <4>1, <4>2 DEF m
      <3> QED BY <3>5, <3>6
    <2> QED BY <2>1, <2>4, <2>5
  <1>9. CASE n < c.length
    <2> DEFINE r == Read("page", c.offset + n, c.length - n, read(n))
    <2>1. /\ r \in PailerCall /\ r.do = "page" /\ r.at = "read" /\ r.offset = c.offset + n
          /\ r.length = c.length - n /\ r.buffer = read(n)
      <3> HIDE DEF read
      <3>1. c.offset + n \in Int /\ c.length - n \in Int
        BY <1>1, <1>4
      <3> QED BY <1>1, <1>6, <3>1, ReadType
    <2>2. Becomes({c}, {r}) /\ UNCHANGED <<pailer, text>>
      BY <1>3, <1>9
    <2> HIDE DEF r, read
    <2>3. calls' \in SUBSET PailerCall /\ IsFiniteSet(calls')
      BY <1>1, <2>1, <2>2, CallsOne
    <2>4. PICK y \in PailerCall :
            /\ calls' = (calls \ {c}) \cup {y}
            /\ y.do = r.do /\ y.at = r.at /\ y.offset = r.offset
            /\ y.length = r.length /\ y.buffer = r.buffer
      BY <1>1, <2>1, <2>2, CallsOne
    <2>5. PailerTypes'
      BY <1>1, <2>2, <2>3 DEF PailerTypes
    <2>a. PailerBounds'
      <3>1. TextBounds'
        <4>1. UNCHANGED top
          BY <1>3, <1>9
        <4> QED BY <1>1, <2>2, <4>1 DEF PailerBounds, TextBounds
      <3>2. CallBounds(r, file')
        BY <1>1, <1>4, <1>6, <1>a, <2>1 DEF CallBounds
      <3>3. CallsBounds'
        BY <1>1, <2>1, <2>2, <3>2, CallsWithin DEF PailerBounds
      <3> QED BY <3>1, <3>3 DEF PailerBounds
    <2>6. ASSUME ~overlap'
          PROVE  Shown' /\ PagesFit' /\ TailsFit'
      <3>1. ~overlap
        BY <2>2, <2>6, StaysDisturbed
      <3>2. Shown /\ PagesFit /\ TailsFit
        BY <3>1 DEF PailerInv
      <3>3. PageFits(c, pailer.start)
        BY <3>2 DEF PagesFit
      <3>4. PageFits(y, pailer.start)
        <4>1. y.offset - Len(y.buffer) = first
          <5>1. Len(y.buffer) = Len(c.buffer) + n /\ y.offset = c.offset + n
            BY <1>6, <2>1, <2>4
          <5> QED BY <1>1, <1>4, <1>6, <5>1
        <4>2. y.buffer = Bytes(first, Len(y.buffer)) /\ first \in Nat
          BY <1>8, <2>1, <2>4, <3>3
        <4>3. y.offset + y.length = pailer.start /\ y.length >= 1
          <5>1. y.offset = c.offset + n /\ y.length = c.length - n
            BY <2>1, <2>4
          <5>2. c.offset + c.length = pailer.start
            BY <3>3 DEF PageFits
          <5>3. c.offset \in Int /\ c.length \in Int /\ n \in Int
            BY <1>1, <1>4
          <5> QED BY <1>9, <5>1, <5>2, <5>3
        <4>4. y.offset >= Len(y.buffer)
          BY <1>1, <1>4, <1>6, <2>1, <2>4, <4>1, <4>2
        <4> QED BY <4>1, <4>2, <4>3, <4>4 DEF PageFits
      <3>5. PagesFit'
        <4>1. \A d \in calls' \ calls : d = y
          BY <2>4
        <4> QED BY <2>2, <2>6, <3>2, <3>4, <4>1, PagesStayFit
      <3>6. TailsFit'
        BY <2>1, <2>2, <2>4, <3>2 DEF TailsFit
      <3> QED BY <2>2, <3>2, <3>5, <3>6 DEF Shown
    <2> QED BY <2>5, <2>6, <2>a DEF PailerInv
  <1>10. CASE ~(n < c.length)
    <2> DEFINE start == first + Len(read(n)) - Len(kept(n))
    <2>1. /\ pailer' = [pailer EXCEPT !.start = start, !.paging = FALSE]
          /\ text' = kept(n) \o text
          /\ Becomes({c}, {})
      BY <1>3, <1>10
    <2> HIDE DEF kept, read
    <2>2. start \in Int
      BY <1>1, <1>4, <1>6, <1>7
    <2>3. calls' = calls \ {c} /\ calls' \in SUBSET PailerCall /\ IsFiniteSet(calls')
      BY <1>1, <2>1, CallsLess
    <2>4. text' \in Seq(Int)
      BY <1>1, <1>7, <2>1, ConcatProperties DEF PailerTypes
    <2>5. /\ pailer' \in PailerFields /\ pailer'.start = start /\ pailer'.end = pailer.end
          /\ pailer'.initialized = pailer.initialized
      <3> HIDE DEF start
      <3> QED BY <1>1, <2>1, <2>2 DEF PailerTypes, PailerFields
    <2>6. PailerTypes'
      BY <1>1, <2>3, <2>4, <2>5 DEF PailerTypes
    <2>a. PailerBounds'
      <3>1. start \in 0..MaxFile
        <4>1. start = c.offset + n - Len(kept(n))
          BY <1>1, <1>4, <1>6, <1>7
        <4>2. file <= MaxFile /\ MaxFile \in Nat
          BY <1>1, PailerSizes DEF PailerBounds, TextBounds
        <4> DEFINE k == Len(kept(n))
                   m == Len(c.buffer)
                   o == c.offset
        <4>3. k \in Nat /\ m \in Nat /\ o \in Int /\ n \in Nat /\ file \in Int
          BY <1>1, <1>4, <1>6, <1>7
        <4>4. o >= m /\ o + n <= file /\ k <= m + n /\ start = o + n - k
          BY <1>6, <1>a, <4>1
        <4> HIDE DEF start, k, m, o
        <4> QED BY <4>2, <4>3, <4>4
      <3> HIDE DEF start
      <3>2. /\ pailer'.start \in -TruncateLength..MaxFile /\ pailer'.end \in -1..MaxFile
            /\ pailer'.initialized => pailer'.end >= 0
        <4>1. TruncateLength \in Nat /\ MaxFile \in Nat
          BY PailerSizes
        <4> QED BY <1>1, <2>5, <3>1, <4>1 DEF PailerBounds, TextBounds
      <3>3. InFile(text', file')
        BY <1>1, <1>7, <1>a, <2>1, JoinedInFile DEF PailerBounds, TextBounds, PailerTypes
      <3>4. top' \in 0..(ScrollHeight(text') - Height)
        <4>1. Len(text) \in Nat /\ Len(text') \in Nat /\ Len(text) <= Len(text')
          <5>1. text \in Seq(Int)
            BY <1>1 DEF PailerTypes
          <5>2. Len(kept(n) \o text) = Len(kept(n)) + Len(text)
            BY <1>7, <5>1, ConcatProperties
          <5>3. Len(text) \in Nat
            BY <5>1, LenProperties
          <5> QED BY <1>7, <2>1, <5>2, <5>3
        <4>2. /\ ScrollHeight(text) \in Nat /\ ScrollHeight(text') \in Nat
              /\ ScrollHeight(text) >= Height /\ ScrollHeight(text') >= ScrollHeight(text)
          BY <4>1, HeightGrows
        <4>3. top' = top + ScrollHeight(text') - ScrollHeight(text)
          BY <1>3, <1>10
        <4>4. top \in 0..(ScrollHeight(text) - Height) /\ Height \in Nat
          BY <1>1, PailerSizes DEF PailerBounds, TextBounds
        <4> QED BY <4>2, <4>3, <4>4
      <3>5. CallsBounds'
        BY <1>1, <2>1, CallsWithin DEF PailerBounds
      <3>6. TextBounds'
        BY <1>1, <3>2, <3>3, <3>4 DEF TextBounds, PailerBounds
      <3> QED BY <3>5, <3>6 DEF PailerBounds
    <2>7. ASSUME ~overlap'
          PROVE  Shown' /\ PagesFit' /\ TailsFit'
      <3>1. ~overlap
        BY <2>5, <2>7, StaysDisturbed
      <3>2. Shown /\ PagesFit /\ TailsFit
        BY <3>1 DEF PailerInv
      <3>3. PageFits(c, pailer.start)
        BY <3>2 DEF PagesFit
      <3>4. n = c.length
        BY <1>1, <1>2, <1>4, <1>10, <3>3 DEF PageFits
      <3>5. c.offset + n = pailer.start /\ pailer.start \in Int /\ pailer.end \in Int
        BY <1>1, <3>3, <3>4 DEF PageFits, PailerTypes, PailerFields
      <3>6. PICK l \in 0..Len(read(n)) : kept(n) = Bytes(c.offset + n - l, l)
        BY <1>8, <3>3
      <3>7. l \in Nat /\ c.offset + n - l \in Int
        BY <1>1, <1>4, <1>6, <3>6
      <3>8. Len(kept(n)) = l
        BY <3>6, <3>7, PieceType
      <3>9. start = pailer.start - l /\ start >= 0 /\ kept(n) = Bytes(start, l)
        <4>1. first \in Nat
          BY <1>8, <3>3
        <4>2. first + Len(read(n)) = pailer.start
          BY <1>1, <1>4, <1>6, <3>5
        <4> HIDE DEF first
        <4>3. start = pailer.start - l /\ start >= 0
          <5>1. start = first + Len(read(n)) - l
            BY <3>8
          <5>2. Len(read(n)) \in Nat /\ l <= Len(read(n))
            BY <1>4, <1>6, <3>6
          <5> HIDE DEF start
          <5> QED BY <3>5, <3>7, <4>1, <4>2, <5>1, <5>2
        <4>4. c.offset + n - l = start
          BY <1>1, <1>4, <3>5, <3>7, <4>3
        <4> QED BY <3>6, <4>3, <4>4
      <3> HIDE DEF start
      <3>10. Shown'
        <4>1. pailer.end - pailer.start \in Nat
          BY <3>2, <3>5 DEF Shown
        <4>2. Bytes(start, l) \o Bytes(start + l, pailer.end - pailer.start) =
                Bytes(start, l + (pailer.end - pailer.start))
          BY <2>2, <3>7, <4>1, PiecesJoin
        <4>3. start + l = pailer.start /\ l + (pailer.end - pailer.start) = pailer.end - start
          BY <2>2, <3>5, <3>7, <3>9
        <4>4. text' = Bytes(start, pailer.end - start)
          BY <2>1, <3>2, <3>9, <4>2, <4>3 DEF Shown
        <4>5. start <= pailer.end
          BY <2>2, <3>5, <3>7, <4>1, <4>3
        <4> QED BY <2>5, <3>9, <4>4, <4>5 DEF Shown
      <3>11. PagesFit'
        BY <2>3, <2>7, <3>2, PagesStayFit
      <3>12. TailsFit'
        BY <2>3, <2>5, <3>2 DEF TailsFit
      <3> QED BY <3>10, <3>11, <3>12
    <2> QED BY <2>6, <2>7, <2>a DEF PailerInv
  <1> QED BY <1>9, <1>10

(* The end of the file is shown below the text, and the text cut at its    *)
(* start when it is too long.                                              *)
LEMMA ShownGrows ==
  ASSUME PailerTypes, NEW c \in calls, NEW n \in Nat, n > 0, Shows(c, n)
  PROVE  /\ pailer' \in PailerFields
         /\ pailer'.initialized = pailer.initialized
         /\ text' \in Seq(Int)
         /\ Shown /\ c.offset = pailer.end => Shown'
  <1> DEFINE fresh == pailer.start = pailer.end /\ c.offset # 0
             read  == Bytes(c.offset, n)
             kept  == IF fresh THEN AfterNewline(read) ELSE read
             grown == text \o kept
             end   == c.offset + n
             cut   == Len(grown) >= TruncateLength
             start == IF cut THEN end - TruncateLength
                      ELSE IF fresh THEN end - Len(kept) ELSE pailer.start
  <1>1. /\ c.offset \in Int /\ pailer.start \in Int /\ pailer.end \in Int
        /\ text \in Seq(Int) /\ pailer \in PailerFields
    BY DEF PailerTypes, PailerCall, PailerFields
  <1>2. TruncateLength \in Nat /\ TruncateLength >= 1
    BY PailerSizes
  <1>3. /\ pailer' = [pailer EXCEPT !.start = start, !.end = end]
        /\ text' = IF cut THEN Truncated(grown) ELSE grown
    BY DEF Shows
  <1>4. read \in Seq(Int) /\ Len(read) = n
    BY <1>1, PieceType
  <1>5. kept \in Seq(Int) /\ Len(kept) \in Nat
    <2>1. AfterNewline(read) \in Seq(Int)
      <3> HIDE DEF read
      <3> QED BY <1>4, LineType
    <2>2. kept \in Seq(Int)
      <3> HIDE DEF read
      <3> QED BY <1>4, <2>1
    <2> HIDE DEF kept
    <2> QED BY <2>2, LenProperties
  <1>6. grown \in Seq(Int) /\ Len(grown) = Len(text) + Len(kept) /\ Len(grown) \in Nat
    <2> HIDE DEF kept
    <2>1. grown \in Seq(Int) /\ Len(grown) = Len(text) + Len(kept)
      BY <1>1, <1>5, ConcatProperties
    <2> HIDE DEF grown
    <2> QED BY <2>1, LenProperties
  <1>7. end \in Int
    BY <1>1
  <1>a. kept = IF fresh THEN AfterNewline(read) ELSE read
    OBVIOUS
  <1>b. grown = text \o kept
    OBVIOUS
  <1> HIDE DEF read, kept, grown
  <1>8. start \in Int
    BY <1>1, <1>2, <1>5, <1>7
  <1>9. /\ pailer' \in PailerFields
        /\ pailer'.initialized = pailer.initialized
        /\ pailer'.start = start
        /\ pailer'.end = end
    <2> HIDE DEF start, end
    <2> QED BY <1>1, <1>3, <1>7, <1>8 DEF PailerFields
  <1>10. text' \in Seq(Int)
    <2>1. CASE ~cut
      BY <1>3, <1>6, <2>1
    <2>2. CASE cut
      <3>1. text' = SubSeq(grown, Len(grown) - TruncateLength + 1, Len(grown))
        BY <1>3, <2>2 DEF Truncated
      <3>2. Len(grown) - TruncateLength + 1 \in 1..(Len(grown) + 1)
        BY <1>2, <1>6, <2>2
      <3> QED BY <1>6, <3>1, <3>2
    <2> QED BY <2>1, <2>2
  <1>11. ASSUME Shown, c.offset = pailer.end
         PROVE  Shown'
    <2>1. /\ text = Bytes(pailer.start, pailer.end - pailer.start)
          /\ pailer.end - pailer.start \in Nat
          /\ end = pailer.end + n
          /\ pailer.initialized => pailer.start >= 0
      BY <1>1, <1>11 DEF Shown
    <2>2. Len(text) = pailer.end - pailer.start
      BY <1>1, <2>1, PieceType
    <2>3. \E l \in 0..n : kept = Bytes(end - l, l) /\ (fresh \/ l = n)
      <3>1. CASE fresh
        <4>1. \E l \in 0..n : AfterNewline(Bytes(c.offset, n)) = Bytes(c.offset + n - l, l)
          BY <1>1, LineCut
        <4>2. PICK l \in 0..n : AfterNewline(Bytes(c.offset, n)) = Bytes(c.offset + n - l, l)
          BY <4>1
        <4>3. kept = Bytes(end - l, l)
          <5>1. c.offset + n - l = end - l
            BY <1>1, <4>2
          <5> HIDE DEF end, fresh
          <5> QED BY <1>a, <3>1, <4>2, <5>1 DEF read
        <4> HIDE DEF fresh, end
        <4> QED BY <3>1, <4>2, <4>3
      <3>2. CASE ~fresh
        <4>1. n \in 0..n /\ end - n = c.offset
          BY <1>1
        <4>2. kept = Bytes(c.offset, n)
          BY <1>a, <3>2 DEF read
        <4> HIDE DEF end, fresh
        <4> QED BY <3>2, <4>1, <4>2
      <3> QED BY <3>1, <3>2
    <2>4. PICK l \in 0..n : kept = Bytes(end - l, l) /\ (fresh \/ l = n)
      BY <2>3
    <2>5. l \in Nat /\ end - l \in Int /\ Len(kept) = l
      <3>1. l \in Nat /\ end - l \in Int
        BY <1>7
      <3> HIDE DEF end
      <3> QED BY <2>4, <3>1, PieceType
    <2> DEFINE L == Len(grown)
    <2>6. /\ grown = Bytes(end - L, L)
          /\ L \in Nat
          /\ L = Len(text) + l
          /\ end - L >= pailer.start
          /\ fresh => L = Len(kept)
          /\ ~fresh => end - L = pailer.start
      <3>1. L \in Nat /\ L = Len(text) + l
        BY <1>6, <2>5
      <3>2. CASE fresh
        <4>1. Len(text) = 0 /\ text = <<>>
          BY <1>1, <2>2, <3>2, EmptySeq
        <4>2. grown = kept
          BY <1>5, <1>b, <4>1, ConcatEmptySeq
        <4>3. L = l
          BY <2>5, <3>1, <4>1
        <4>4. grown = Bytes(end - L, L)
          BY <2>4, <4>2, <4>3
        <4>5. end - L >= pailer.start
          BY <1>1, <2>1, <3>2, <4>3
        <4> HIDE DEF L
        <4> QED BY <2>5, <3>1, <3>2, <4>3, <4>4, <4>5
      <3>3. CASE ~fresh
        <4>1. l = n /\ end - l = pailer.end
          BY <1>1, <2>1, <2>4, <3>3
        <4>2. Bytes(pailer.start, pailer.end - pailer.start) \o
                Bytes(pailer.start + (pailer.end - pailer.start), n) =
                Bytes(pailer.start, (pailer.end - pailer.start) + n)
          BY <1>1, <2>1, PiecesJoin
        <4>3. /\ pailer.start + (pailer.end - pailer.start) = pailer.end
              /\ (pailer.end - pailer.start) + n = L
              /\ end - L = pailer.start
          BY <1>1, <2>1, <2>2, <3>1, <4>1
        <4>4. grown = Bytes(pailer.start, L)
          BY <1>b, <2>1, <2>4, <4>1, <4>2, <4>3
        <4>5. end - L >= pailer.start
          BY <1>1, <4>3
        <4> HIDE DEF L, fresh, end
        <4> QED BY <3>1, <3>3, <4>3, <4>4, <4>5
      <3> QED BY <3>2, <3>3
    <2>7. CASE cut
      <3> DEFINE k == L - TruncateLength + 1
      <3>1. start = end - TruncateLength /\ text' = SubSeq(grown, k, L)
        BY <1>3, <2>7 DEF Truncated
      <3>2. k \in 1..(L + 1)
        BY <1>2, <2>6, <2>7
      <3>3. /\ (end - L) + k - 1 = start
            /\ L - k + 1 = TruncateLength
            /\ TruncateLength = end - start
            /\ end - L \in Int
        BY <1>2, <1>7, <2>6, <3>1
      <3>4. start >= end - L
        BY <1>2, <1>7, <2>6, <3>1, <2>7
      <3> HIDE DEF k, L, start, end, cut
      <3>5. SubSeq(Bytes(end - L, L), k, L) = Bytes((end - L) + k - 1, L - k + 1)
        BY <2>6, <3>2, <3>3, PieceEnds
      <3>6. text' = Bytes(start, end - start)
        BY <2>6, <3>1, <3>3, <3>5
      <3>7. start <= end
        BY <1>2, <1>7, <1>8, <3>3
      <3>8. pailer.initialized => start >= 0
        <4>1. end - L >= pailer.start
          BY <2>6
        <4>2. pailer.initialized => pailer.start >= 0
          BY <2>1
        <4> QED BY <1>1, <1>8, <3>3, <3>4, <4>1, <4>2
      <3> QED BY <1>9, <3>6, <3>7, <3>8 DEF Shown
    <2>8. CASE ~cut
      <3>1. text' = grown
        BY <1>3, <2>8
      <3>2. start = end - L
        <4>1. CASE fresh
          BY <2>6, <2>8, <4>1
        <4>2. CASE ~fresh
          BY <2>6, <2>8, <4>2
        <4> QED BY <4>1, <4>2
      <3> HIDE DEF L, start, end, cut
      <3>3. L = end - start /\ start <= end
        BY <1>7, <1>8, <2>6, <3>2
      <3>4. text' = Bytes(start, end - start)
        BY <2>6, <3>1, <3>2, <3>3
      <3>5. pailer.initialized => start >= 0
        BY <1>1, <1>8, <2>1, <2>6, <3>2
      <3> QED BY <1>9, <3>3, <3>4, <3>5 DEF Shown
    <2> QED BY <2>7, <2>8
  <1> QED BY <1>9, <1>10, <1>11

\* What is shown below the text is in the file, and so is its end.
LEMMA ShownInFile ==
  ASSUME PailerTypes, PailerBounds, NEW c \in calls, c.offset >= 0, NEW n \in Nat, n > 0,
         c.offset + n <= file, Shows(c, n), UNCHANGED file
  PROVE  TextBounds'
  <1> DEFINE fresh == pailer.start = pailer.end /\ c.offset # 0
             read  == Bytes(c.offset, n)
             kept  == IF fresh THEN AfterNewline(read) ELSE read
             grown == text \o kept
             end   == c.offset + n
             cut   == Len(grown) >= TruncateLength
             start == IF cut THEN end - TruncateLength
                      ELSE IF fresh THEN end - Len(kept) ELSE pailer.start
  <1>1. /\ c.offset \in Nat /\ pailer.start \in -TruncateLength..MaxFile
        /\ text \in Seq(Int) /\ pailer \in PailerFields /\ InFile(text, file)
        /\ file \in 0..MaxFile /\ top \in 0..(ScrollHeight(text) - Height)
    BY DEF PailerTypes, PailerCall, PailerFields, PailerBounds, TextBounds
  <1>2. /\ TruncateLength \in Nat /\ TruncateLength >= 1 /\ MaxFile \in Nat
        /\ Height \in Nat
    BY PailerSizes
  <1>3. /\ pailer' = [pailer EXCEPT !.start = start, !.end = end]
        /\ text' = IF cut THEN Truncated(grown) ELSE grown
        /\ top' = Min({top + ScrollHeight(grown) - ScrollHeight(text),
                       ScrollHeight(text') - Height})
    BY DEF Shows
  <1>4. read \in Seq(Int) /\ Len(read) = n /\ InFile(read, file)
    <2>2. c.offset \in Int /\ file \in Int
      BY <1>1
    <2>1. Bytes(c.offset, n) \in Seq(Int) /\ Len(Bytes(c.offset, n)) = n
      BY <2>2, PieceType
    <2>3. InFile(Bytes(c.offset, n), file)
      BY <1>1, <2>2, PieceInFile
    <2> QED BY <2>1, <2>3
  <1>5. kept \in Seq(Int) /\ Len(kept) \in 0..n /\ InFile(kept, file)
    <2> HIDE DEF read, fresh
    <2>1. /\ AfterNewline(read) \in Seq(Int) /\ Len(AfterNewline(read)) \in 0..n
          /\ InFile(AfterNewline(read), file)
      BY <1>4, LineType, LineInFile
    <2>2. n \in 0..n
      OBVIOUS
    <2> QED BY <1>4, <2>1, <2>2
  <1>6. /\ grown \in Seq(Int) /\ Len(grown) = Len(text) + Len(kept)
        /\ Len(text) \in Nat /\ Len(grown) \in Nat /\ InFile(grown, file)
    <2> HIDE DEF kept
    <2>1. grown \in Seq(Int) /\ Len(grown) = Len(text) + Len(kept)
      BY <1>1, <1>5, ConcatProperties
    <2>2. InFile(grown, file)
      BY <1>1, <1>5, JoinedInFile
    <2> HIDE DEF grown
    <2> QED BY <1>1, <2>1, <2>2, LenProperties
  <1> HIDE DEF read, kept, grown
  <1>7. end \in 0..MaxFile /\ start \in -TruncateLength..MaxFile
    <2>1. end \in 1..MaxFile
      BY <1>1, <1>2
    <2> HIDE DEF end, fresh, cut
    <2>2. end - TruncateLength \in -TruncateLength..MaxFile
      BY <1>2, <2>1
    <2>3. end - Len(kept) \in -TruncateLength..MaxFile
      <3>1. end >= n
        BY <1>1 DEF end
      <3> QED BY <1>2, <1>5, <2>1, <3>1
    <2>4. end \in 0..MaxFile
      BY <2>1
    <2> QED BY <1>1, <2>2, <2>3, <2>4
  <1>8. pailer'.start = start /\ pailer'.end = end
    <2> HIDE DEF start, end
    <2> QED BY <1>1, <1>3, <1>7 DEF PailerFields
  <1>9. InFile(text', file') /\ Len(text') \in Nat
    <2>1. CASE ~cut
      BY <1>3, <1>6, <2>1
    <2>2. CASE cut
      <3> DEFINE k == Len(grown) - TruncateLength + 1
      <3>1. text' = SubSeq(grown, k, Len(grown))
        BY <1>3, <2>2 DEF Truncated
      <3>2. k \in 1..(Len(grown) + 1)
        BY <1>2, <1>6, <2>2
      <3> HIDE DEF k
      <3>3. InFile(text', file)
        BY <1>6, <3>1, <3>2, EndInFile
      <3>4. SubSeq(grown, k, Len(grown)) \in Seq(Int)
        BY <1>6, <3>2
      <3>5. Len(text') \in Nat
        BY <3>1, <3>4, LenProperties
      <3> QED BY <3>3, <3>5
    <2> QED BY <2>1, <2>2
  <1>10. top' \in 0..(ScrollHeight(text') - Height)
    <2>1. /\ ScrollHeight(text) \in Nat /\ ScrollHeight(grown) \in Nat
          /\ ScrollHeight(grown) >= ScrollHeight(text)
      <3>1. Len(text) <= Len(grown)
        BY <1>5, <1>6
      <3> QED BY <1>6, <3>1, HeightGrows
    <2>2. ScrollHeight(text') \in Nat /\ ScrollHeight(text') >= Height
      BY <1>9, HeightGrows
    <2> DEFINE a == top + ScrollHeight(grown) - ScrollHeight(text)
               b == ScrollHeight(text') - Height
    <2>3. a \in Nat /\ b \in Nat
      <3> DEFINE x == ScrollHeight(text)
                 y == ScrollHeight(grown)
                 z == ScrollHeight(text')
      <3>1. x \in Nat /\ y \in Nat /\ y >= x /\ z \in Nat /\ z >= Height
        BY <2>1, <2>2
      <3>2. top \in 0..(x - Height) /\ Height \in Nat /\ a = top + y - x /\ b = z - Height
        BY <1>1, <1>2
      <3> HIDE DEF x, y, z, a, b
      <3> QED BY <3>1, <3>2
    <2>4. top' = Min({a, b})
      BY <1>3
    <2> HIDE DEF a, b
    <2>5. top' = IF a <= b THEN a ELSE b
      BY <2>3, <2>4, LesserOfTwo
    <2>6. top' \in 0..b
      BY <2>3, <2>5
    <2> QED BY <2>6 DEF b
  <1> HIDE DEF start, end
  <1>11. /\ pailer'.start \in -TruncateLength..MaxFile
         /\ pailer'.end \in -1..MaxFile /\ pailer'.end >= 0
    BY <1>2, <1>7, <1>8
  <1> QED BY <1>1, <1>9, <1>10, <1>11 DEF TextBounds

\* The answer to the read of a tail.
LEMMA TailStep ==
  ASSUME PailerInv, NEW c \in calls, c.do = "tail", c.at = "read", TailGoesOn(c),
         UNCHANGED file, overlap' = Disturbed
  PROVE  PailerInv'
  <1>1. PailerTypes /\ PailerBounds /\ Becomes({c}, {Timer("tail")})
    BY DEF PailerInv, TailGoesOn
  <1>2. Timer("tail") \in PailerCall /\ Timer("tail").do = "tail" /\ Timer("tail").at = "timer"
    BY TimerType
  <1>3. calls' \in SUBSET PailerCall /\ IsFiniteSet(calls')
    BY <1>1, <1>2, CallsOne
  <1>4. PICK y \in PailerCall : /\ calls' = (calls \ {c}) \cup {y}
                                /\ y.do = "tail" /\ y.at = "timer"
    BY <1>1, <1>2, CallsOne
  <1>5. /\ pailer' \in PailerFields
        /\ pailer'.initialized = pailer.initialized
        /\ text' \in Seq(Int)
        /\ Shown /\ c.offset = pailer.end => Shown'
        /\ TextBounds'
    <2>1. PICK size \in c.size..file :
            LET n == Min({TruncateLength, size - c.offset})
            IN  IF n > 0 THEN Shows(c, n) ELSE UNCHANGED <<pailer, text, top>>
      BY DEF TailGoesOn
    <2> DEFINE n == Min({TruncateLength, size - c.offset})
    <2>2. n \in Int /\ c.offset + n <= file
      <3>1. TruncateLength \in Int
        BY PailerSizes
      <3>2. c.offset \in Int /\ c.size \in Int /\ file \in Int
        BY <1>1 DEF PailerTypes, PailerCall
      <3>3. size - c.offset \in Int /\ size <= file
        BY <3>2
      <3>4. n = IF TruncateLength <= size - c.offset THEN TruncateLength ELSE size - c.offset
        BY <3>1, <3>3, LesserOfTwo
      <3> HIDE DEF n
      <3>5. n \in Int /\ n <= size - c.offset
        BY <3>1, <3>3, <3>4
      <3> QED BY <3>2, <3>3, <3>5
    <2>3. IF n > 0 THEN Shows(c, n) ELSE UNCHANGED <<pailer, text, top>>
      BY <2>1
    <2> HIDE DEF n
    <2>4. CASE n > 0
      <3>1. c.offset >= 0 /\ n \in Nat
        BY <1>1, <2>2, <2>4 DEF PailerBounds, CallsBounds, CallBounds
      <3>2. TextBounds'
        BY <1>1, <2>2, <2>3, <2>4, <3>1, ShownInFile
      <3> QED BY <1>1, <2>3, <2>4, <3>1, <3>2, ShownGrows
    <2>5. CASE ~(n > 0)
      <3>1. TextBounds'
        BY <1>1, <2>3, <2>5 DEF PailerBounds, TextBounds
      <3> QED BY <1>1, <2>3, <2>5, <3>1 DEF PailerTypes, Shown
    <2> QED BY <2>4, <2>5
  <1>6. PailerTypes'
    BY <1>1, <1>3, <1>5 DEF PailerTypes
  <1>a. PailerBounds'
    <2>1. CallBounds(Timer("tail"), file')
      BY <1>2 DEF CallBounds
    <2>2. CallsBounds'
      BY <1>1, <1>2, <2>1, CallsWithin DEF PailerBounds, PailerTypes
    <2> QED BY <1>5, <2>2 DEF PailerBounds
  <1>7. ASSUME ~overlap'
        PROVE  Shown' /\ PagesFit' /\ TailsFit'
    <2>1. ~overlap
      BY <1>5, <1>7, StaysDisturbed
    <2>2. Shown /\ PagesFit /\ TailsFit
      BY <2>1 DEF PailerInv
    <2>3. c.offset = pailer.end
      BY <2>2 DEF TailsFit
    <2>4. \A d \in calls' : d.do = "tail" => d.at = "timer"
      BY <1>4, <1>6, <1>7, OneTail
    <2>5. \A d \in calls' \ calls : d.do # "page"
      BY <1>4
    <2>6. PagesFit'
      BY <1>7, <2>2, <2>5, PagesStayFit
    <2> QED BY <1>5, <2>2, <2>3, <2>4, <2>6 DEF TailsFit
  <1> QED BY <1>6, <1>7, <1>a DEF PailerInv

(* page(): the read that it makes ends where the text starts.              *)
LEMMA PageCallStep ==
  ASSUME PailerInv, NEW done, Page(done), UNCHANGED <<file, text, top>>, overlap' = Disturbed
  PROVE  PailerInv'
  <1>1. PailerTypes /\ PailerBounds /\ pailer.start \in Int
    BY DEF PailerInv, PailerTypes, PailerFields
  <1>2. /\ pailer' \in PailerFields /\ pailer'.initialized = pailer.initialized
        /\ pailer'.start = pailer.start /\ pailer'.end = pailer.end
    <2>1. (pailer.paging \/ Pages) \in BOOLEAN
      BY <1>1 DEF PailerTypes, PailerFields, Pages
    <2>2. pailer' = [pailer EXCEPT !.paging = pailer.paging \/ Pages]
      BY <1>1 DEF Page
    <2> QED BY <1>1, <2>1, <2>2 DEF PailerTypes, PailerFields
  <1>a. TextBounds'
    BY <1>1, <1>2 DEF PailerBounds, TextBounds
  <1>b. file' \in Int /\ file <= file'
    BY <1>1 DEF PailerTypes
  <1>3. CASE ~Pages
    <2>a. PailerBounds'
      <3>1. Becomes(done, {})
        BY <1>3 DEF Page
      <3>2. CallsBounds'
        BY <1>1, <1>b, <3>1, CallsWithin DEF PailerBounds
      <3> QED BY <1>a, <3>2 DEF PailerBounds
    <2>1. calls' = calls \ done /\ calls' \in SUBSET PailerCall /\ IsFiniteSet(calls')
      BY <1>1, <1>3, CallsLess DEF Page
    <2>2. PailerTypes'
      BY <1>1, <1>2, <2>1 DEF PailerTypes
    <2>3. ~overlap' => ~overlap
      BY <1>2, StaysDisturbed
    <2> QED BY <1>2, <2>a, <2>1, <2>2, <2>3 DEF PailerInv, Shown, PagesFit, TailsFit
  <1>4. CASE Pages
    <2> DEFINE r == PageRead
    <2>1. /\ r \in PailerCall /\ r.do = "page" /\ r.at = "read"
          /\ Shown => PageFits(r, pailer.start)
          /\ CallBounds(r, file)
      <3> DEFINE offset == pailer.start - PageSize
      <3>1. PageSize \in Nat /\ PageSize >= 1 /\ offset \in Int /\ <<>> \in Seq(Int)
        BY <1>1, PailerSizes, EmptySeq
      <3>2. Len(<<>>) = 0
        OBVIOUS
      <3>3. \A a : a = Bytes(0, 0) => a = <<>>
        BY DEF Bytes
      <3>4. \A i \in Int : Bytes(i, 0) = <<>>
        BY DEF Bytes
      <3>a. \A x \in PailerCall :
              /\ x.do = "page" /\ x.offset >= 0 /\ x.buffer = <<>>
              => CallBounds(x, file)
        BY <3>2 DEF CallBounds, InFile
      <3>5. CASE offset < 0
        <4>1. r = Read("page", 0, pailer.start, <<>>)
          BY <3>5 DEF PageRead
        <4>2. /\ r \in PailerCall /\ r.do = "page" /\ r.at = "read" /\ r.offset = 0
              /\ r.length = pailer.start /\ r.buffer = <<>>
          <5>1. 0 \in Int /\ pailer.start \in Int /\ "page" \in {"init", "page", "tail"}
            BY <1>1, <3>1
          <5> HIDE DEF r, offset
          <5> QED BY <1>1, <4>1, <5>1, EmptyReadType
        <4>3. ASSUME Shown PROVE PageFits(r, pailer.start)
          <5>1. pailer.start >= 1
            BY <1>1, <1>4, <4>3 DEF Pages, Shown
          <5> HIDE DEF r
          <5> QED BY <1>1, <3>2, <3>4, <4>2, <5>1 DEF PageFits
        <4>4. CallBounds(r, file)
          <5> HIDE DEF r
          <5> QED BY <3>a, <4>2
        <4> QED BY <4>2, <4>3, <4>4
      <3>6. CASE ~(offset < 0)
        <4>1. r = Read("page", offset, PageSize, <<>>)
          BY <3>6 DEF PageRead
        <4>2. /\ r \in PailerCall /\ r.do = "page" /\ r.at = "read" /\ r.offset = offset
              /\ r.length = PageSize /\ r.buffer = <<>>
          <5>1. offset \in Int /\ PageSize \in Int /\ "page" \in {"init", "page", "tail"}
            BY <1>1, <3>1
          <5> HIDE DEF r, offset
          <5> QED BY <1>1, <4>1, <5>1, EmptyReadType
        <4>3. PageFits(r, pailer.start)
          <5> HIDE DEF r
          <5> QED BY <1>1, <3>1, <3>2, <3>4, <3>6, <4>2 DEF PageFits
        <4>4. CallBounds(r, file)
          <5>1. offset >= 0
            BY <3>1, <3>6
          <5> HIDE DEF r, offset
          <5> QED BY <3>a, <4>2, <5>1
        <4> QED BY <4>2, <4>3, <4>4
      <3> QED BY <3>5, <3>6
    <2>2. Becomes(done, {r})
      BY <1>4 DEF Page
    <2> HIDE DEF r
    <2>3. calls' \in SUBSET PailerCall /\ IsFiniteSet(calls')
      BY <1>1, <2>1, <2>2, CallsOne
    <2>4. PICK y \in PailerCall :
            /\ calls' = (calls \ done) \cup {y}
            /\ y.do = r.do /\ y.at = r.at /\ y.offset = r.offset
            /\ y.length = r.length /\ y.buffer = r.buffer
      BY <1>1, <2>1, <2>2, CallsOne
    <2>5. PailerTypes'
      BY <1>1, <1>2, <2>3 DEF PailerTypes
    <2>a. PailerBounds'
      <3>1. CallBounds(r, file')
        BY <2>1
      <3>2. CallsBounds'
        BY <1>1, <1>b, <2>1, <2>2, <3>1, CallsWithin DEF PailerBounds
      <3> QED BY <1>a, <3>2 DEF PailerBounds
    <2>6. ASSUME ~overlap'
          PROVE  Shown' /\ PagesFit' /\ TailsFit'
      <3>1. ~overlap
        BY <1>2, <2>6, StaysDisturbed
      <3>2. Shown /\ PagesFit /\ TailsFit
        BY <3>1 DEF PailerInv
      <3>3. PageFits(y, pailer.start)
        BY <2>1, <2>4, <3>1, <3>2 DEF PageFits
      <3>4. PagesFit'
        BY <1>2, <2>4, <3>2, <3>3 DEF PagesFit
      <3>5. TailsFit'
        BY <1>2, <2>1, <2>4, <3>2 DEF TailsFit
      <3> QED BY <1>2, <3>2, <3>4, <3>5 DEF Shown
    <2> QED BY <2>5, <2>6, <2>a DEF PailerInv
  <1> QED BY <1>3, <1>4

(* A step that leaves the text and its ends alone, and whose new call, if  *)
(* any, is a timer, a read of initialize() or the tail read that follows   *)
(* the text.                                                               *)
LEMMA QuietStep ==
  ASSUME PailerInv, NEW done, NEW new, Becomes(done, new), text' = text,
         file' \in file..MaxFile, top' \in 0..(ScrollHeight(text) - Height),
         pailer' \in PailerFields, pailer'.start = pailer.start, pailer'.end = pailer.end,
         pailer'.initialized => pailer.initialized,
         new = {} \/ (\E x \in PailerCall :
                        /\ new = {x}
                        /\ x.at = "read" => x.do = "init" \/ (x.do = "tail" /\ x.offset = pailer.end)
                        /\ x.do = "tail" /\ x.at = "read" => pailer.initialized),
         overlap' = Disturbed
  PROVE  PailerInv'
  <1>1. PailerTypes /\ PailerBounds
    BY DEF PailerInv
  <1>a. file' \in Int /\ file <= file'
    BY <1>1, PailerSizes DEF PailerTypes
  <1>b. PailerBounds'
    <2>1. TextBounds'
      <3>1. file \in 0..MaxFile /\ file' \in 0..MaxFile /\ InFile(text, file)
        BY <1>1, <1>a, PailerSizes DEF PailerBounds, TextBounds
      <3>2. InFile(text', file')
        BY <1>a, <3>1, StaysInFile
      <3> QED BY <1>1, <3>1, <3>2 DEF PailerBounds, TextBounds
    <2>2. ASSUME NEW x \in PailerCall,
                 x.at = "read" => x.do = "init" \/ (x.do = "tail" /\ x.offset = pailer.end),
                 x.do = "tail" /\ x.at = "read" => pailer.initialized
          PROVE  CallBounds(x, file')
      BY <1>1, <2>2 DEF CallBounds, PailerBounds, TextBounds
    <2>3. CallsBounds'
      BY <1>1, <1>a, <2>2, CallsWithin DEF PailerBounds
    <2> QED BY <2>1, <2>3 DEF PailerBounds
  <1>2. /\ calls' \in SUBSET PailerCall /\ IsFiniteSet(calls')
        /\ \A d \in calls' \ calls :
             d.at = "read" => d.do = "init" \/ (d.do = "tail" /\ d.offset = pailer.end)
    <2>1. CASE new = {}
      BY <1>1, <2>1, CallsLess
    <2>2. CASE \E x \in PailerCall :
                 /\ new = {x}
                 /\ x.at = "read" => x.do = "init" \/ (x.do = "tail" /\ x.offset = pailer.end)
      <3>1. PICK x \in PailerCall :
              /\ new = {x}
              /\ x.at = "read" => x.do = "init" \/ (x.do = "tail" /\ x.offset = pailer.end)
        BY <2>2
      <3>2. Becomes(done, {x})
        BY <3>1
      <3>3. calls' \in SUBSET PailerCall /\ IsFiniteSet(calls')
        BY <1>1, <3>2, CallsOne
      <3>4. PICK y \in PailerCall :
              /\ calls' = (calls \ done) \cup {y}
              /\ y.do = x.do /\ y.at = x.at /\ y.offset = x.offset
        BY <1>1, <3>2, CallsOne
      <3> QED BY <3>1, <3>3, <3>4
    <2> QED BY <2>1, <2>2
  <1>3. PailerTypes'
    BY <1>1, <1>2 DEF PailerTypes
  <1>4. ASSUME ~overlap'
        PROVE  Shown' /\ PagesFit' /\ TailsFit'
    <2>1. ~overlap
      BY <1>4, StaysDisturbed
    <2>2. Shown /\ PagesFit /\ TailsFit
      BY <2>1 DEF PailerInv
    <2>3. PagesFit'
      BY <1>2, <2>2 DEF PagesFit
    <2>4. TailsFit'
      BY <1>2, <2>2 DEF TailsFit
    <2>5. Shown'
      BY <2>2 DEF Shown
    <2> QED BY <2>3, <2>4, <2>5
  <1> QED BY <1>3, <1>4, <1>b DEF PailerInv

\* The read that a tail makes starts where the text ends.
LEMMA TailReadFits ==
  ASSUME PailerTypes
  PROVE  TailRead = {} \/ (\E x \in PailerCall :
                             /\ TailRead = {x}
                             /\ x.do = "tail" /\ x.offset = pailer.end
                             /\ pailer.initialized)
  <1>1. pailer.end \in Int /\ TruncateLength \in Int /\ "tail" \in {"init", "page", "tail"}
    BY PailerSizes DEF PailerTypes, PailerFields
  <1>2. PICK x \in PailerCall : /\ x = Read("tail", pailer.end, TruncateLength, <<>>)
                                /\ x.do = "tail" /\ x.offset = pailer.end
    BY <1>1, EmptyReadType
  <1>3. TailRead = IF pailer.initialized THEN {x} ELSE {}
    BY <1>2 DEF TailRead
  <1> QED BY <1>2, <1>3

\* The page when it is opened.
LEMMA PailerInitially == PailerInit => PailerInv
  <1> SUFFICES ASSUME PailerInit PROVE PailerInv
    OBVIOUS
  <1>1. file \in Int /\ text \in Seq(Int) /\ text = <<>>
    BY PailerSizes, EmptySeq DEF PailerInit
  <1>2. pailer \in PailerFields /\ pailer.start = -1 /\ pailer.end = -1 /\ ~pailer.initialized
    BY DEF PailerInit, PailerFields
  <1> DEFINE x == [Read("init", -1, -1, <<>>) EXCEPT !.slot = 1]
  <1>3. x \in PailerCall /\ x.do = "init"
    <2>1. \A e \in Seq(Int) :
            LET y == [Read("init", -1, -1, e) EXCEPT !.slot = 1]
            IN  y \in PailerCall /\ y.do = "init"
      BY <1>1 DEF Read, PailerCall
    <2> QED BY <1>1, <2>1
  <1>4. calls = {x}
    BY DEF PailerInit
  <1> HIDE DEF x
  <1>5. IsFiniteSet(calls) /\ calls \in SUBSET PailerCall
    BY <1>3, <1>4, FS_Singleton
  <1>a. PailerBounds
    <2>1. file \in 0..MaxFile /\ top = 0
      BY DEF PailerInit
    <2>2. pailer.start \in -TruncateLength..MaxFile /\ pailer.end \in -1..MaxFile
      BY <1>2, PailerSizes
    <2>3. InFile(text, file)
      BY <1>1 DEF InFile
    <2>4. top \in 0..(ScrollHeight(text) - Height)
      <3>1. ScrollHeight(text) \in Nat /\ ScrollHeight(text) >= Height /\ Height \in Nat
        BY <1>1, HeightGrows, LenProperties, PailerSizes
      <3> QED BY <2>1, <3>1
    <2>5. TextBounds
      BY <1>2, <2>1, <2>2, <2>3, <2>4 DEF TextBounds
    <2>6. CallsBounds
      BY <1>3, <1>4 DEF CallsBounds, CallBounds
    <2> QED BY <2>5, <2>6 DEF PailerBounds
  <1>6. Shown
    <2>1. Bytes(-1, (-1) - (-1)) = <<>>
      BY DEF Bytes
    <2> QED BY <1>1, <1>2, <2>1 DEF Shown
  <1>7. PagesFit /\ TailsFit
    BY <1>3, <1>4 DEF PagesFit, TailsFit
  <1> QED BY <1>1, <1>2, <1>5, <1>6, <1>7, <1>a DEF PailerInv, PailerTypes

(* Every step of the viewer.                                               *)
LEMMA PailerStep == PailerInv /\ [PailerNext]_pailerVars => PailerInv'
  <1>1. SUFFICES ASSUME PailerInv, [PailerNext]_pailerVars
                 PROVE  PailerInv'
    OBVIOUS
  <1>2. PailerTypes /\ file \in Int /\ PailerBounds
    BY <1>1 DEF PailerInv, PailerTypes
  <1>3. CASE UNCHANGED pailerVars
    <2>1. PailerBounds'
      BY <1>2, <1>3 DEF pailerVars, PailerBounds, TextBounds, CallsBounds
    <2> QED
      BY <1>1, <1>3, <2>1 DEF pailerVars, PailerInv, PailerTypes, Shown, PagesFit, TailsFit
  <1> SUFFICES ASSUME PailerNext PROVE PailerInv'
    BY <1>1, <1>3
  <1>4. overlap' = Disturbed
    BY DEF PailerNext
  <1>a. ASSUME UNCHANGED <<file, top>>
        PROVE  file' \in file..MaxFile /\ top' \in 0..(ScrollHeight(text) - Height)
    BY <1>2, <1>a, PailerSizes DEF PailerBounds, TextBounds
  <1>5. ASSUME NEW slot \in Slots, Answered(slot)
        PROVE  PailerInv'
    <2>1. PICK c \in calls :
            /\ c.at = "read"
            /\ CASE c.do = "init" -> InitializeAnswered(c)
                 [] c.do = "page" -> PageAnswered(c)
                 [] c.do = "tail" -> TailEnds(c) \/ TailGoesOn(c)
      BY <1>5 DEF Answered
    <2>2. UNCHANGED file
      BY <1>5 DEF Answered
    <2>3. c.do \in {"init", "page", "tail"}
      BY <1>2 DEF PailerTypes, PailerCall
    <2>4. CASE c.do = "init"
      BY <1>1, <1>4, <2>1, <2>2, <2>4, InitializeStep
    <2>5. CASE c.do = "page"
      BY <1>1, <1>4, <2>1, <2>2, <2>5, PageStep
    <2>6. CASE c.do = "tail" /\ TailEnds(c)
      <3>1. /\ pailer' \in PailerFields /\ pailer'.start = pailer.start
            /\ pailer'.end = pailer.end /\ pailer'.initialized = pailer.initialized
        BY <1>2, <2>6 DEF TailEnds, PailerTypes, PailerFields
      <3>2. Becomes({c}, {}) /\ UNCHANGED <<text, top>>
        BY <2>6 DEF TailEnds
      <3> QED BY <1>1, <1>2, <1>4, <1>a, <2>2, <3>1, <3>2, QuietStep
    <2>7. CASE c.do = "tail" /\ TailGoesOn(c)
      BY <1>1, <1>4, <2>1, <2>2, <2>7, TailStep
    <2> QED BY <2>1, <2>3, <2>4, <2>5, <2>6, <2>7
  <1>6. ASSUME NEW slot \in Slots, Failed(slot)
        PROVE  PailerInv'
    <2>1. PICK c \in calls :
            /\ pailer' = [pailer EXCEPT !.initialized = @ /\ c.do # "tail"]
            /\ Becomes({c}, {Timer(IF c.do = "page" THEN "page" ELSE "init")})
      BY <1>6 DEF Failed
    <2>2. UNCHANGED <<file, text, top>>
      BY <1>6 DEF Failed
    <2>3. /\ pailer' \in PailerFields /\ pailer'.start = pailer.start
          /\ pailer'.end = pailer.end /\ (pailer'.initialized => pailer.initialized)
      BY <1>2, <2>1 DEF PailerTypes, PailerFields
    <2> DEFINE x == Timer(IF c.do = "page" THEN "page" ELSE "init")
    <2>4. x \in PailerCall /\ x.at = "timer"
      BY TimerType
    <2>5. Becomes({c}, {x})
      BY <2>1
    <2> HIDE DEF x
    <2> QED BY <1>1, <1>2, <1>4, <1>a, <2>2, <2>3, <2>4, <2>5, QuietStep
  <1>7. ASSUME NEW slot \in Slots, TimerFires(slot)
        PROVE  PailerInv'
    <2>1. PICK c \in calls :
            \/ c.do = "init" /\ Becomes({c}, {Read("init", -1, -1, <<>>)}) /\ UNCHANGED pailer
            \/ c.do = "tail" /\ Becomes({c}, TailRead) /\ UNCHANGED pailer
            \/ c.do = "page" /\ Page({c})
      BY <1>7 DEF TimerFires
    <2>2. UNCHANGED <<file, text, top>>
      BY <1>7 DEF TimerFires
    <2>3. CASE Becomes({c}, {Read("init", -1, -1, <<>>)}) /\ UNCHANGED pailer
      <3> DEFINE x == Read("init", -1, -1, <<>>)
      <3>1. x \in PailerCall /\ x.do = "init"
        <4>1. -1 \in Int /\ "init" \in {"init", "page", "tail"}
          OBVIOUS
        <4> HIDE DEF x
        <4>2. \E y \in PailerCall : y = Read("init", -1, -1, <<>>) /\ y.do = "init"
          BY <1>2, <4>1, EmptyReadType
        <4> QED BY <4>2 DEF x
      <3>2. Becomes({c}, {x}) /\ UNCHANGED pailer
        BY <2>3
      <3> HIDE DEF x
      <3> QED BY <1>1, <1>2, <1>4, <1>a, <2>2, <3>1, <3>2, QuietStep DEF PailerTypes
    <2>4. CASE Becomes({c}, TailRead) /\ UNCHANGED pailer
      BY <1>1, <1>2, <1>4, <1>a, <2>2, <2>4, TailReadFits, QuietStep DEF PailerTypes
    <2>5. CASE Page({c})
      BY <1>1, <1>4, <2>2, <2>5, PageCallStep
    <2> QED BY <2>1, <2>3, <2>4, <2>5
  <1>8. CASE ScrollEvent
    <2>1. UNCHANGED <<file, text, top>>
      BY <1>8 DEF ScrollEvent
    <2>2. CASE Page({})
      BY <1>1, <1>4, <2>1, <2>2, PageCallStep
    <2>3. ASSUME NEW b \in BOOLEAN, pailer' = [pailer EXCEPT !.tailing = b]
          PROVE  /\ pailer' \in PailerFields /\ pailer'.start = pailer.start
                 /\ pailer'.end = pailer.end /\ pailer'.initialized = pailer.initialized
      BY <1>2, <2>3 DEF PailerTypes, PailerFields
    <2>4. CASE /\ pailer' = [pailer EXCEPT !.tailing = TRUE]
               /\ Becomes({}, IF pailer.tailing THEN {} ELSE TailRead)
      <3>1. /\ pailer' \in PailerFields /\ pailer'.start = pailer.start
            /\ pailer'.end = pailer.end /\ pailer'.initialized = pailer.initialized
        BY <2>3, <2>4
      <3>2. CASE pailer.tailing
        BY <1>1, <1>2, <1>4, <1>a, <2>1, <2>4, <3>1, <3>2, QuietStep
      <3>3. CASE ~pailer.tailing
        <4>1. Becomes({}, TailRead)
          BY <2>4, <3>3
        <4> QED BY <1>1, <1>2, <1>4, <1>a, <2>1, <3>1, <4>1, TailReadFits, QuietStep
      <3> QED BY <3>2, <3>3
    <2>5. CASE /\ pailer' = [pailer EXCEPT !.tailing = FALSE]
               /\ UNCHANGED calls
      <3>1. /\ pailer' \in PailerFields /\ pailer'.start = pailer.start
            /\ pailer'.end = pailer.end /\ pailer'.initialized = pailer.initialized
        BY <2>3, <2>5
      <3>2. Becomes({}, {})
        BY <2>5 DEF Becomes
      <3> QED BY <1>1, <1>2, <1>4, <1>a, <2>1, <3>1, <3>2, QuietStep
    <2> QED BY <1>8, <2>2, <2>4, <2>5 DEF ScrollEvent
  <1>9. CASE UserScrolls \/ ProcessWrites
    <2>1. /\ UNCHANGED <<pailer, text, calls>>
          /\ file' \in file..MaxFile /\ top' \in 0..(ScrollHeight(text) - Height)
      BY <1>2, <1>9, PailerSizes DEF UserScrolls, ProcessWrites, PailerBounds, TextBounds
    <2>2. Becomes({}, {})
      BY <2>1 DEF Becomes
    <2> QED BY <1>1, <1>2, <1>4, <2>1, <2>2, QuietStep DEF PailerTypes
  <1> QED BY <1>5, <1>6, <1>7, <1>8, <1>9 DEF PailerNext

\* From its initial state, in any number of steps.
LEMMA PailerHolds == PailerInit /\ [][PailerNext]_pailerVars => []PailerInv
  BY PailerInitially, PailerStep, PTL

\* The invariant bounds every field.
LEMMA PailerTyped == PailerInv => PailerTypeOK
  <1> SUFFICES ASSUME PailerInv PROVE PailerTypeOK
    OBVIOUS
  <1>1. PailerTypes /\ TextBounds /\ CallsBounds
    BY DEF PailerInv, PailerBounds
  <1>2. pailer \in [initialized : BOOLEAN, start : -TruncateLength..MaxFile,
                    end : -1..MaxFile, paging : BOOLEAN, tailing : BOOLEAN]
    BY <1>1 DEF PailerTypes, PailerFields, TextBounds
  <1>3. \A c \in calls : c.do \in {"init", "page", "tail"} /\ c.at \in {"read", "timer"}
    BY <1>1 DEF PailerTypes, PailerCall
  <1> QED BY <1>1, <1>2, <1>3 DEF TextBounds, CallsBounds, InFile, PailerTypeOK

(***************************************************************************)
(* As long as reads do not disturb each other, what the viewer shows of a  *)
(* log is the piece of the file between `start` and `end`: nothing twice,  *)
(* nothing left out, for every page size, length and place of newlines,    *)
(* across short answers, failed reads, truncation and initialize() again.  *)
(***************************************************************************)
THEOREM LogIsShown == PailerSpec => []TextMatchesFile
  <1>1. PailerInv => TextMatchesFile
    BY DEF PailerInv, Shown, TextMatchesFile
  <1> QED BY <1>1, PailerHolds, PTL DEF PailerSpec

-----------------------------------------------------------------------------
(* The graph page.                                                         *)

\* The points are consecutive, up to the time `last`.
Consecutive(data, last) == \A i \in 1..Len(data) : data[i].t = last - Len(data) + i

\* Every metric was read from its own column.
OwnColumns(data) ==
  \A i \in 1..Len(data) : \A m \in DOMAIN data[i].read : data[i].read[m] = m

AsMany(data, last) ==
  Len(data) > 0 => Len(data) = IF last < maxPoints THEN last ELSE maxPoints

DataInv ==
  /\ samples \in Int
  /\ lastTimestamp \in Int
  /\ evaluatedData \in Seq(Range(evaluatedData))
  /\ Consecutive(evaluatedData, lastTimestamp)
  /\ Len(evaluatedData) <= maxPoints
  /\ Len(evaluatedData) = 0 => lastTimestamp = -1
  /\ Len(evaluatedData) > 0 => lastTimestamp >= Len(evaluatedData)
  /\ ~crossed => OwnColumns(evaluatedData) /\ AsMany(evaluatedData, lastTimestamp)
  /\ ~crossed /\ rawData => metrics = Wanted(expressions)

\* The request in flight asks for what follows the data, for its query.
RequestInv ==
  request.kind = "data" =>
    /\ request.since \in Int /\ request.asked \in Int
    /\ request.since = lastTimestamp \/ Len(evaluatedData) = 0
    /\ ~crossed => request.since = lastTimestamp /\ request.names = Wanted(expressions)

GraphInv == DataInv /\ RequestInv

\* A sequence is one of its own elements.
LEMMA OwnElements ==
  ASSUME NEW S, NEW s \in Seq(S)
  PROVE  s \in Seq(Range(s))
  BY DEF Range

(* Two sequences, one after the other, and the end of a sequence.          *)
LEMMA Joined ==
  ASSUME NEW s, s \in Seq(Range(s)), NEW n \in Nat, NEW t, DOMAIN t = 1..n,
         t = [i \in 1..n |-> t[i]]
  PROVE  /\ s \o t \in Seq(Range(s \o t))
         /\ Len(s \o t) = Len(s) + n
         /\ \A i \in 1..(Len(s) + n) : (s \o t)[i] = IF i <= Len(s) THEN s[i] ELSE t[i - Len(s)]
  <1> DEFINE S == Range(s) \cup Range(t)
  <1>1. t \in Seq(S) /\ Len(t) = n
    <2>1. \A i \in 1..n : t[i] \in S
      BY DEF Range
    <2> HIDE DEF S
    <2>2. t \in [1..n -> S]
      BY <2>1
    <2> QED BY <2>2
  <1>2. s \in Seq(S)
    <2>1. \A i \in 1..Len(s) : s[i] \in S
      BY ElementOfSeq
    <2> QED BY <2>1, SeqDef
  <1> HIDE DEF S
  <1>3. /\ s \o t \in Seq(S)
        /\ Len(s \o t) = Len(s) + n
        /\ \A i \in 1..(Len(s) + n) : (s \o t)[i] = IF i <= Len(s) THEN s[i] ELSE t[i - Len(s)]
    BY <1>1, <1>2, ConcatProperties
  <1> QED BY <1>3, OwnElements

LEMMA Ending ==
  ASSUME NEW s, s \in Seq(Range(s)), NEW k \in 1..Len(s)
  PROVE  LET t == SubSeq(s, Len(s) - k + 1, Len(s))
         IN  /\ t \in Seq(Range(t))
             /\ Len(t) = k
             /\ \A i \in 1..k : t[i] = s[Len(s) - k + i]
  <1> DEFINE m == Len(s) - k + 1
             t == SubSeq(s, m, Len(s))
  <1>1. Len(s) \in Nat /\ m \in 1..Len(s) /\ Len(s) - m + 1 = k
    BY LenProperties
  <1>2. /\ t \in Seq(Range(s)) /\ Len(t) = k
        /\ \A i \in 1..k : t[i] = s[m + i - 1]
    <2>1. \A i \in m..Len(s) : s[i] \in Range(s)
      BY <1>1, ElementOfSeq
    <2> HIDE DEF m
    <2> QED BY <1>1, <2>1, SubSeqProperties
  <1> HIDE DEF t
  <1>3. t \in Seq(Range(t))
    BY <1>2, OwnElements
  <1>4. \A i \in 1..k : m + i - 1 = Len(s) - k + i
    BY <1>1
  <1> QED BY <1>2, <1>3, <1>4 DEF t

(* A metric of the query is read from its own column when the columns are  *)
(* those of the query.                                                     *)
LEMMA ReadsOwn ==
  ASSUME NEW t, NEW w, w = Wanted(expressions)
  PROVE  \A m \in DOMAIN Point(t, w, w).read : Point(t, w, w).read[m] = m
  <1>1. Point(t, w, w).read = [m \in ToSet(w) |-> ReadFrom(m, w, w)]
    BY DEF Point
  <1>2. ASSUME NEW m \in ToSet(w) PROVE ReadFrom(m, w, w) = m
    <2>1. \E i \in DOMAIN w : w[i] = m
      BY DEF ToSet
    <2> DEFINE at == CHOOSE i \in DOMAIN w : w[i] = m
    <2>2. at \in DOMAIN w /\ w[at] = m
      BY <2>1
    <2>3. ReadFrom(m, w, w) = IF m \in ToSet(w) /\ at \in DOMAIN w THEN w[at] ELSE "undefined"
      BY DEF ReadFrom
    <2> HIDE DEF at
    <2> QED BY <2>2, <2>3
  <1> QED BY <1>1, <1>2

(* The answer to a request for data.                                       *)
LEMMA DataAnswered ==
  ASSUME GraphInv, request.kind = "data", NEW upTo \in request.asked..samples,
         handleDataResponse(request, upTo), request' = NoRequest,
         UNCHANGED <<samples, expressions, crossed>>
  PROVE  GraphInv'
  <1> DEFINE r     == request
             cols  == IF rawData THEN metrics ELSE r.names
             since == IF r.since < 0 THEN 0 ELSE r.since
             d     == upTo - since
             times == [i \in 1..d |-> since + i]
             more  == [i \in DOMAIN times |-> Point(times[i], cols, r.names)]
             grown == evaluatedData \o more
             n     == Len(evaluatedData)
  <1>1. /\ samples \in Int /\ lastTimestamp \in Int /\ r.since \in Int /\ r.asked \in Int
        /\ evaluatedData \in Seq(Range(evaluatedData)) /\ n \in Nat
    BY LenProperties DEF GraphInv, DataInv, RequestInv
  <1>2. upTo \in Int /\ since \in Nat /\ d \in Int
    BY <1>1
  <1>3. ~crossed => cols = Wanted(expressions) /\ r.names = Wanted(expressions)
    BY DEF GraphInv, DataInv, RequestInv
  <1>4. RequestInv'
    BY DEF RequestInv, NoRequest
  <1>5. IF times = <<>>
        THEN UNCHANGED <<rawData, metrics, evaluatedData, lastTimestamp>>
        ELSE /\ rawData' = TRUE /\ metrics' = cols
             /\ \/ UNCHANGED <<evaluatedData, lastTimestamp>>
                \/ /\ evaluatedData' = IF Len(grown) > maxPoints THEN Evict(grown) ELSE grown
                   /\ lastTimestamp' = upTo
    BY DEF handleDataResponse
  <1>6. CASE UNCHANGED <<evaluatedData, lastTimestamp>>
    <2>1. ~crossed /\ rawData' => metrics' = Wanted(expressions)
      BY <1>3, <1>5 DEF GraphInv, DataInv
    <2> QED BY <1>4, <1>6, <2>1 DEF GraphInv, DataInv
  <1>7. CASE /\ times # <<>>
             /\ evaluatedData' = IF Len(grown) > maxPoints THEN Evict(grown) ELSE grown
             /\ lastTimestamp' = upTo
    <2>1. d > 0
      BY <1>2, <1>7
    <2>2. /\ more = [i \in 1..d |-> Point(since + i, cols, r.names)]
          /\ DOMAIN more = 1..d /\ more = [i \in 1..d |-> more[i]]
      OBVIOUS
    <2>3. \A i \in 1..d : more[i].t = since + i
      BY <2>2 DEF Point
    <2>4. ~crossed => \A i \in 1..d : \A m \in DOMAIN more[i].read : more[i].read[m] = m
      BY <1>3, <2>2, ReadsOwn
    <2>5. n > 0 => since = lastTimestamp /\ lastTimestamp >= n
      BY <1>1 DEF GraphInv, DataInv, RequestInv
    <2>6. ~crossed /\ n = 0 => since = 0
      BY <1>1 DEF GraphInv, DataInv, RequestInv
    <2>a. rawData' = TRUE /\ metrics' = cols
      BY <1>5, <1>7
    <2>b. evaluatedData' = IF Len(grown) > maxPoints THEN Evict(grown) ELSE grown
      BY <1>7
    <2>c. d = upTo - since
      OBVIOUS
    <2> HIDE DEF more, since, d, cols, times, r
    <2>7. /\ grown \in Seq(Range(grown)) /\ Len(grown) = n + d
          /\ \A i \in 1..(n + d) : grown[i] = IF i <= n THEN evaluatedData[i] ELSE more[i - n]
      <3>1. d \in Nat
        BY <1>2, <2>1
      <3> HIDE DEF n
      <3>2. /\ evaluatedData \o more \in Seq(Range(evaluatedData \o more))
            /\ Len(evaluatedData \o more) = Len(evaluatedData) + d
            /\ \A i \in 1..(Len(evaluatedData) + d) : (evaluatedData \o more)[i] =
                 IF i <= Len(evaluatedData) THEN evaluatedData[i] ELSE more[i - Len(evaluatedData)]
        BY <1>1, <2>2, <3>1, Joined
      <3> QED BY <3>2 DEF n
    <2> HIDE DEF grown
    <2>8. Consecutive(grown, upTo)
      <3> SUFFICES ASSUME NEW i \in 1..(n + d)
                   PROVE  grown[i].t = upTo - (n + d) + i
        BY <2>7 DEF Consecutive
      <3>1. CASE i <= n
        <4>1. grown[i].t = lastTimestamp - n + i
          BY <1>1, <1>2, <2>7, <3>1 DEF GraphInv, DataInv, Consecutive
        <4>2. since = lastTimestamp
          BY <1>1, <2>5, <3>1
        <4>3. n \in Int /\ d \in Int /\ since \in Int /\ upTo \in Int /\ i \in Int
          BY <1>1, <1>2
        <4>4. grown[i].t = since - n + i
          BY <4>1, <4>2
        <4> HIDE DEF n
        <4> QED BY <2>c, <4>3, <4>4
      <3>2. CASE ~(i <= n)
        <4>1. i - n \in 1..d
          BY <1>1, <1>2, <3>2
        <4>2. grown[i].t = since + (i - n)
          BY <2>3, <2>7, <3>2, <4>1
        <4> QED BY <1>1, <1>2, <2>c, <4>2
      <3> QED BY <3>1, <3>2
    <2>9. ~crossed => OwnColumns(grown)
      <3> SUFFICES ASSUME ~crossed, NEW i \in 1..(n + d), NEW m \in DOMAIN grown[i].read
                   PROVE  grown[i].read[m] = m
        BY <2>7 DEF OwnColumns
      <3>1. CASE i <= n
        BY <1>1, <1>2, <2>7, <3>1 DEF GraphInv, DataInv, OwnColumns
      <3>2. CASE ~(i <= n)
        <4>1. i - n \in 1..d /\ grown[i] = more[i - n]
          BY <1>1, <1>2, <2>7, <3>2
        <4> QED BY <2>4, <4>1
      <3> QED BY <3>1, <3>2
    <2>10. maxPoints \in Nat /\ maxPoints > 0
      BY maxPointsAssumption
    <2>11. n + d <= upTo /\ n + d > 0
      BY <1>1, <1>2, <2>1, <2>5, <2>c
    <2>12. ~crossed /\ n > 0 => n = IF lastTimestamp < maxPoints THEN lastTimestamp ELSE maxPoints
      BY DEF GraphInv, DataInv, AsMany
    <2>13. CASE ~(Len(grown) > maxPoints)
      <3>1. evaluatedData' = grown
        BY <2>b, <2>13
      <3>2. ~crossed => AsMany(grown, upTo)
        <4> SUFFICES ASSUME ~crossed
                     PROVE  n + d = IF upTo < maxPoints THEN upTo ELSE maxPoints
          BY <2>7 DEF AsMany
        <4>1. n + d <= maxPoints
          BY <1>1, <1>2, <2>7, <2>10, <2>13
        <4> HIDE DEF n
        <4>2. CASE n = 0
          BY <1>2, <2>6, <2>10, <2>c, <4>1, <4>2
        <4>3. CASE n > 0
          BY <1>1, <1>2, <2>1, <2>5, <2>10, <2>12, <2>c, <4>1, <4>3
        <4> QED BY <1>1, <4>2, <4>3
      <3>3. DataInv'
        <4>1. Len(grown) > 0 /\ upTo >= Len(grown) /\ Len(grown) <= maxPoints
          BY <1>1, <1>2, <2>7, <2>10, <2>11, <2>13
        <4>2. /\ evaluatedData' = grown /\ lastTimestamp' = upTo /\ samples' = samples
              /\ crossed' = crossed /\ expressions' = expressions
          BY <1>7, <3>1
        <4> HIDE DEF n
        <4> QED BY <1>1, <1>2, <1>3, <2>7, <2>8, <2>9, <2>a, <3>2, <4>1, <4>2 DEF DataInv
      <3> QED BY <1>4, <3>3 DEF GraphInv
    <2>14. CASE Len(grown) > maxPoints
      <3> DEFINE kept == SubSeq(grown, Len(grown) - maxPoints + 1, Len(grown))
      <3>1. evaluatedData' = kept
        BY <2>b, <2>14 DEF Evict
      <3>2. /\ kept \in Seq(Range(kept)) /\ Len(kept) = maxPoints
            /\ \A i \in 1..maxPoints : kept[i] = grown[Len(grown) - maxPoints + i]
        <4>1. maxPoints \in 1..Len(grown)
          BY <1>1, <1>2, <2>7, <2>10, <2>14
        <4> QED BY <2>7, <4>1, Ending
      <3>3. \A i \in 1..maxPoints : Len(grown) - maxPoints + i \in 1..Len(grown)
        BY <1>1, <1>2, <2>7, <2>10, <2>14
      <3> HIDE DEF kept
      <3>4. Len(grown) \in Nat
        BY <1>1, <1>2, <2>7, <2>11
      <3>5. Consecutive(kept, upTo)
        <4> SUFFICES ASSUME NEW i \in 1..maxPoints
                     PROVE  kept[i].t = upTo - maxPoints + i
          BY <3>2 DEF Consecutive
        <4>1. kept[i].t = upTo - Len(grown) + (Len(grown) - maxPoints + i)
          BY <2>8, <3>2, <3>3 DEF Consecutive
        <4> QED BY <1>2, <2>10, <3>4, <4>1
      <3>6. ~crossed => OwnColumns(kept)
        BY <2>9, <3>2, <3>3 DEF OwnColumns
      <3>7. AsMany(kept, upTo)
        BY <1>1, <1>2, <2>7, <2>10, <2>11, <2>14, <3>2 DEF AsMany
      <3>8. DataInv'
        <4>1. Len(kept) > 0 /\ upTo >= Len(kept) /\ Len(kept) <= maxPoints
          BY <1>1, <1>2, <2>7, <2>10, <2>11, <2>14, <3>2
        <4>2. /\ evaluatedData' = kept /\ lastTimestamp' = upTo /\ samples' = samples
              /\ crossed' = crossed /\ expressions' = expressions
          BY <1>7, <3>1
        <4> HIDE DEF n
        <4> QED BY <1>1, <1>2, <1>3, <2>a, <3>2, <3>5, <3>6, <3>7, <4>1, <4>2 DEF DataInv
      <3> QED BY <1>4, <3>8 DEF GraphInv
    <2> QED BY <2>13, <2>14
  <1> HIDE DEF times, grown, cols
  <1> QED BY <1>5, <1>6, <1>7

(* What fetchData() makes of the request in flight.                        *)
LEMMA FetchSends ==
  ASSUME NEW exprs, NEW bad, NEW since, fetchData(exprs, bad, since)
  PROVE  \/ request' = request
         \/ request' = DataRequest(exprs, since)
  BY DEF fetchData, sendQuery

\* The page when it is opened.
LEMMA GraphInitially == GraphInit => GraphInv
  <1> SUFFICES ASSUME GraphInit PROVE GraphInv
    OBVIOUS
  <1>1. Len(<<>>) = 0 /\ (\A S : <<>> \in Seq(S)) /\ 1..0 = {}
    BY EmptySeq
  <1>2. evaluatedData = <<>> /\ Len(evaluatedData) = 0 /\ evaluatedData \in Seq(Range(evaluatedData))
    BY <1>1 DEF GraphInit
  <1>3. request.kind = "list"
    BY DEF GraphInit
  <1>4. /\ samples = 1 /\ lastTimestamp = -1 /\ rawData = FALSE
    BY DEF GraphInit
  <1> QED BY <1>1, <1>2, <1>3, <1>4, maxPointsAssumption DEF GraphInv, DataInv, RequestInv,
            Consecutive, OwnColumns, AsMany

\* Every step of the page.
LEMMA GraphStep == GraphInv /\ [GraphNext]_graphVars => GraphInv'
  <1>1. SUFFICES ASSUME GraphInv, [GraphNext]_graphVars
                 PROVE  GraphInv'
    OBVIOUS
  <1>2. ASSUME UNCHANGED <<evaluatedData, lastTimestamp, expressions, metrics, rawData, crossed>>,
               samples' \in Int,
               \/ request' = request
               \/ request' = NoRequest
               \/ request' = DataRequest(expressions, lastTimestamp)
        PROVE  GraphInv'
    <2>1. DataInv'
      BY <1>1, <1>2 DEF GraphInv, DataInv
    <2>2. RequestInv'
      <3>1. CASE request' = request
        BY <1>1, <1>2, <3>1 DEF GraphInv, RequestInv
      <3>2. CASE request' = NoRequest
        BY <3>2 DEF RequestInv, NoRequest
      <3>3. CASE request' = DataRequest(expressions, lastTimestamp)
        <4>1. /\ request'.since = lastTimestamp /\ request'.asked = samples
              /\ request'.names = Wanted(expressions)
          BY <3>3 DEF DataRequest
        <4>2. lastTimestamp \in Int /\ samples \in Int
          BY <1>1 DEF GraphInv, DataInv
        <4> QED BY <1>2, <4>1, <4>2 DEF RequestInv
      <3> QED BY <1>2, <3>1, <3>2, <3>3
    <2> QED BY <2>1, <2>2 DEF GraphInv
  <1>3. samples \in Int
    BY <1>1 DEF GraphInv, DataInv
  <1>4. CASE UNCHANGED graphVars
    BY <1>2, <1>3, <1>4 DEF graphVars
  <1>5. CASE Tick
    <2>1. request' = request \/ request' = DataRequest(expressions, lastTimestamp)
      BY <1>5, FetchSends DEF Tick
    <2> QED BY <1>2, <1>3, <1>5, <2>1 DEF Tick
  <1>6. CASE Answer
    <2>1. UNCHANGED <<samples, expressions, crossed>> /\ request' = NoRequest
      BY <1>6 DEF Answer
    <2>2. CASE request.kind = "list"
      BY <1>2, <1>3, <1>6, <2>1, <2>2 DEF Answer
    <2>3. CASE request.kind = "data"
      <3>1. PICK upTo \in request.asked..samples : handleDataResponse(request, upTo)
        BY <1>6, <2>3 DEF Answer
      <3> QED BY <1>1, <2>1, <2>3, <3>1, DataAnswered
    <2> QED BY <1>6, <2>2, <2>3 DEF Answer
  <1>7. CASE ToggleRealTime
    BY <1>2, <1>3, <1>7 DEF ToggleRealTime
  <1>8. CASE Sample
    BY <1>2, <1>3, <1>8 DEF Sample
  <1>9. ASSUME NEW json \in BOOLEAN, QueryFails(json)
        PROVE  GraphInv'
    BY <1>2, <1>3, <1>9 DEF QueryFails
  <1>10. ASSUME NEW q \in Queries, applyQuery(q)
         PROVE  GraphInv'
    <2> DEFINE p == Parsed(q, lastIndex)
    <2>1. /\ expressions' = p.exprs /\ rawData' = FALSE /\ evaluatedData' = <<>>
          /\ lastTimestamp' = -1 /\ crossed' = (request.kind = "data")
          /\ fetchData(p.exprs, p.wrong, -1) /\ samples' = samples
      BY <1>10 DEF applyQuery
    <2> HIDE DEF p
    <2>2. /\ Len(evaluatedData') = 0 /\ evaluatedData' \in Seq(Range(evaluatedData'))
          /\ 1..0 = {}
      BY <2>1, EmptySeq
    <2>3. DataInv'
      BY <1>3, <2>1, <2>2, maxPointsAssumption DEF DataInv, Consecutive, OwnColumns, AsMany
    <2>4. CASE request' = request
      BY <1>1, <2>1, <2>2, <2>3, <2>4 DEF GraphInv, RequestInv
    <2>5. CASE request' = DataRequest(p.exprs, -1)
      <3>1. /\ request'.since = -1 /\ request'.asked = samples
            /\ request'.names = Wanted(p.exprs)
        BY <2>5 DEF DataRequest
      <3>2. RequestInv'
        BY <1>3, <2>1, <2>2, <3>1 DEF RequestInv
      <3> QED BY <2>3, <3>2 DEF GraphInv
    <2> QED BY <2>1, <2>4, <2>5, FetchSends
  <1> QED BY <1>1, <1>4, <1>5, <1>6, <1>7, <1>8, <1>9, <1>10 DEF GraphNext

\* From its initial state, in any number of steps.
LEMMA GraphHolds == GraphInit /\ [][GraphNext]_graphVars => []GraphInv
  BY GraphInitially, GraphStep, PTL

(***************************************************************************)
(* The points plotted are the most recent samples, each once and in order, *)
(* and unless a query was applied while the data of the one before it was  *)
(* on its way as many as the plot keeps, each from the columns of its      *)
(* metrics: for every parser, query and number of samples and points.      *)
(***************************************************************************)
THEOREM PlotsInOrder == GraphSpec => []PointsInOrder
  <1>1. GraphInv => PointsInOrder
    BY DEF GraphInv, DataInv, Consecutive, OwnColumns, AsMany, PointsInOrder
  <1> QED BY <1>1, GraphHolds, PTL DEF GraphSpec

\* The variables of the page, but for the data, and when a response is awaited.
GraphTypes ==
  /\ {awaitingResponse, realTime, errors, rawData} \subseteq BOOLEAN
  /\ lastIndex \in Regexes
  /\ \A i \in DOMAIN expressions : Contains(query, expressions[i].line)
  /\ request.kind # "none" => awaitingResponse
  /\ samples \in Nat /\ lastTimestamp \in -1..samples
  /\ request.kind = "data" => request.asked \in Nat

\* A request that is made is awaited.
LEMMA FetchAwaits ==
  ASSUME GraphTypes, NEW exprs, NEW bad, NEW since, fetchData(exprs, bad, since)
  PROVE  /\ awaitingResponse' \in BOOLEAN
         /\ request'.kind # "none" => awaitingResponse'
         /\ request'.kind = "data" => request'.asked \in Nat
  <1>1. CASE UNCHANGED <<request, awaitingResponse>>
    BY <1>1 DEF GraphTypes
  <1>2. CASE request' = DataRequest(exprs, since) /\ awaitingResponse' = TRUE
    BY <1>2 DEF DataRequest, GraphTypes
  <1> QED BY <1>1, <1>2 DEF fetchData, sendQuery

LEMMA GraphTypesStep == GraphTypes /\ [GraphNext]_graphVars => GraphTypes'
  <1> SUFFICES ASSUME GraphTypes, [GraphNext]_graphVars
               PROVE  GraphTypes'
    OBVIOUS
  <1>1. CASE UNCHANGED graphVars
    BY <1>1 DEF graphVars, GraphTypes
  <1>2. CASE Tick
    <2>1. fetchData(expressions, errors, lastTimestamp)
      BY <1>2 DEF Tick
    <2> QED BY <1>2, <2>1, FetchAwaits DEF Tick, GraphTypes
  <1>3. CASE Answer
    <2>1. request'.kind = "none" /\ awaitingResponse' = FALSE
      BY <1>3 DEF Answer, NoRequest
    <2>2. rawData' \in BOOLEAN /\ lastTimestamp' \in -1..samples
      <3>1. CASE request.kind = "list"
        BY <1>3, <3>1 DEF Answer, GraphTypes
      <3>2. CASE request.kind = "data"
        <4>1. PICK upTo \in request.asked..samples : handleDataResponse(request, upTo)
          BY <1>3, <3>2 DEF Answer
        <4>2. upTo \in -1..samples
          BY <3>2 DEF GraphTypes
        <4>3. rawData' \in {rawData, TRUE} /\ lastTimestamp' \in {lastTimestamp, upTo}
          BY <4>1 DEF handleDataResponse
        <4> QED BY <4>2, <4>3 DEF GraphTypes
      <3> QED BY <1>3, <3>1, <3>2 DEF Answer
    <2> QED BY <1>3, <2>1, <2>2 DEF Answer, GraphTypes
  <1>4. CASE ToggleRealTime
    BY <1>4 DEF ToggleRealTime, GraphTypes
  <1>5. CASE Sample
    BY <1>5 DEF Sample, GraphTypes
  <1>6. ASSUME NEW json \in BOOLEAN, QueryFails(json)
        PROVE  GraphTypes'
    BY <1>6 DEF QueryFails, NoRequest, GraphTypes
  <1>7. ASSUME NEW q \in Queries, applyQuery(q)
        PROVE  GraphTypes'
    <2> DEFINE p == Parsed(q, lastIndex)
    <2>1. /\ p.re \in Regexes /\ p.wrong \in BOOLEAN
          /\ \A i \in DOMAIN p.exprs : Contains(q, p.exprs[i].line)
      BY ParsedAssumption DEF GraphTypes
    <2> HIDE DEF p
    <2>2. /\ query' = q /\ lastIndex' = p.re /\ expressions' = p.exprs /\ errors' = p.wrong
          /\ rawData' = FALSE /\ lastTimestamp' = -1 /\ UNCHANGED <<realTime, samples>>
          /\ fetchData(p.exprs, p.wrong, -1)
      BY <1>7 DEF applyQuery, p
    <2>3. /\ awaitingResponse' \in BOOLEAN
          /\ request'.kind # "none" => awaitingResponse'
          /\ request'.kind = "data" => request'.asked \in Nat
      BY <2>2, FetchAwaits
    <2>4. \A i \in DOMAIN expressions' : Contains(query', expressions'[i].line)
      BY <2>1, <2>2
    <2>5. /\ {awaitingResponse, realTime, errors, rawData}' \subseteq BOOLEAN
          /\ lastIndex' \in Regexes
      BY <2>1, <2>2, <2>3 DEF GraphTypes
    <2>6. samples' \in Nat /\ lastTimestamp' \in -1..samples'
      BY <2>2 DEF GraphTypes
    <2> QED BY <2>3, <2>4, <2>5, <2>6 DEF GraphTypes
  <1> QED BY <1>1, <1>2, <1>3, <1>4, <1>5, <1>6, <1>7 DEF GraphNext

LEMMA GraphTypesHold == GraphInit /\ [][GraphNext]_graphVars => []GraphTypes
  <1>1. GraphInit => GraphTypes
    <2> SUFFICES ASSUME GraphInit PROVE GraphTypes
      OBVIOUS
    <2>1. /\ awaitingResponse = TRUE /\ realTime = TRUE /\ errors = FALSE /\ rawData = FALSE
          /\ lastIndex = Rewound /\ samples = 1 /\ lastTimestamp = -1 /\ request.kind = "list"
          /\ expressions = <<>> /\ DOMAIN expressions = {}
      BY DEF GraphInit
    <2>2. Rewound \in Regexes
      BY DEF Rewound, Regexes
    <2>3. {awaitingResponse, realTime, errors, rawData} \subseteq BOOLEAN
      BY <2>1
    <2>4. samples \in Nat /\ lastTimestamp \in -1..samples
      BY <2>1
    <2>5. \A i \in DOMAIN expressions : Contains(query, expressions[i].line)
      BY <2>1
    <2> QED BY <2>1, <2>2, <2>3, <2>4, <2>5 DEF GraphTypes
  <1> QED BY <1>1, GraphTypesStep, PTL

LEMMA GraphTyped == GraphInv /\ GraphTypes => GraphTypeOK
  BY DEF GraphInv, DataInv, GraphTypes, GraphTypeOK

-----------------------------------------------------------------------------
(* The job console: the table.                                             *)

Transaction == [kind : {"read", "write"}, job : Nat, at : Nat]

Row == [key : Nat, job : Nat]

ReadTxns == {k \in DOMAIN txns : txns[k].kind = "read"}

Keys == {rows[i].key : i \in DOMAIN rows}

TableTypes ==
  /\ submitted \in Nat
  /\ sent \subseteq 1..submitted
  /\ jobData \in Seq(Nat)
  /\ txns \in Seq(Transaction)
  /\ rows \in Seq(Row)
  /\ \A k \in ReadTxns : txns[k].at \in 1..(Len(jobData) + 1)
  /\ \A i \in DOMAIN rows :
       /\ rows[i].key \in 0..Len(jobData)
       /\ rows[i].key = 0 \/ rows[i].job = jobData[rows[i].key]

\* Some refresh has listed what it has read, or all is listed.
AllListed ==
  opened => \/ \E k \in ReadTxns : \A n \in 1..(txns[k].at - 1) : n \in Keys
            \/ \A n \in 1..Len(jobData) : n \in Keys

\* A refresh that is alone lists the keys in their order.
InOrder ==
  ~raced =>
    /\ \A k, l \in ReadTxns : k = l
    /\ \A i, j \in DOMAIN rows : i < j /\ rows[i].key # 0 /\ rows[j].key # 0 =>
                                   rows[i].key < rows[j].key
    /\ \A k \in ReadTxns : \A i \in DOMAIN rows : rows[i].key < txns[k].at

TableInv == TableTypes /\ AllListed /\ InOrder

(* What is left when one element is removed.                               *)
LEMMA Removed ==
  ASSUME NEW S, NEW s \in Seq(S), NEW k \in DOMAIN s
  PROVE  LET t == RemoveAt(s, k)
         IN  /\ t \in Seq(S)
             /\ DOMAIN t = 1..(Len(s) - 1)
             /\ \A v \in DOMAIN t : t[v] = s[IF v < k THEN v ELSE v + 1]
  <1> DEFINE a == SubSeq(s, 1, k - 1)
             b == SubSeq(s, k + 1, Len(s))
  <1>1. k \in 1..Len(s) /\ Len(s) \in Nat
    OBVIOUS
  <1>2. /\ a \in Seq(S) /\ Len(a) = k - 1
        /\ \A v \in 1..(k - 1) : a[v] = s[v]
    BY <1>1
  <1>3. /\ b \in Seq(S) /\ Len(b) = Len(s) - k
        /\ \A v \in 1..(Len(s) - k) : b[v] = s[v + k]
    <2>1. b = [v \in 1..(Len(s) - (k + 1) + 1) |-> s[v + (k + 1) - 1]]
      BY <1>1
    <2>2. b \in Seq(S) /\ Len(b) = Len(s) - k
      BY <1>1
    <2>3. ASSUME NEW v \in 1..(Len(s) - k)
          PROVE  b[v] = s[v + k]
      <3>1. v \in 1..(Len(s) - (k + 1) + 1) /\ v + (k + 1) - 1 = v + k
        BY <1>1
      <3> HIDE DEF b
      <3> QED BY <2>1, <3>1
    <2> QED BY <2>2, <2>3
  <1>4. RemoveAt(s, k) = a \o b
    BY DEF RemoveAt
  <1> HIDE DEF a, b
  <1>5. a \o b \in Seq(S) /\ Len(a \o b) = Len(s) - 1
    BY <1>1, <1>2, <1>3, ConcatProperties
  <1>6. DOMAIN (a \o b) = 1..(Len(s) - 1)
    BY <1>5, LenProperties
  <1>7. ASSUME NEW v \in 1..(Len(s) - 1)
        PROVE  (a \o b)[v] = s[IF v < k THEN v ELSE v + 1]
    <2>1. (a \o b)[v] = IF v <= Len(a) THEN a[v] ELSE b[v - Len(a)]
      BY <1>1, <1>2, <1>3, <1>7
    <2>2. CASE v < k
      BY <1>1, <1>2, <2>1, <2>2
    <2>3. CASE ~(v < k)
      <3>1. (a \o b)[v] = b[v - (k - 1)] /\ v - (k - 1) \in 1..(Len(s) - k)
        BY <1>1, <1>2, <2>1, <2>3
      <3>2. b[v - (k - 1)] = s[v - (k - 1) + k]
        BY <1>3, <3>1
      <3>3. v - (k - 1) + k = v + 1
        BY <1>1
      <3> QED BY <2>3, <3>1, <3>2, <3>3
    <2> QED BY <2>2, <2>3
  <1> QED BY <1>4, <1>5, <1>6, <1>7

(* What is there when one element is appended.                             *)
LEMMA Appended ==
  ASSUME NEW S, NEW s \in Seq(S), NEW e \in S
  PROVE  /\ Append(s, e) \in Seq(S)
         /\ DOMAIN Append(s, e) = 1..(Len(s) + 1)
         /\ \A i \in DOMAIN s : Append(s, e)[i] = s[i]
         /\ Append(s, e)[Len(s) + 1] = e
         /\ DOMAIN s = 1..Len(s) /\ Len(s) \in Nat
  BY AppendProperties, LenProperties

(* refreshData(): the table is empty and the new refresh is at the start.  *)
LEMMA RefreshStep ==
  ASSUME TableInv, NEW others \in Seq(Transaction), refreshData(others),
         \A k \in DOMAIN others : others[k].kind = "read" =>
                                    others[k].at \in 1..(Len(jobData) + 1),
         jobData' \in Seq(Nat), Len(jobData') >= Len(jobData),
         UNCHANGED <<submitted, sent>>
  PROVE  TableInv'
  <1> DEFINE e == [kind |-> "read", job |-> 0, at |-> 1]
  <1>1. /\ txns' = Append(others, e) /\ rows' = <<>>
        /\ raced' = \E k \in DOMAIN others : others[k].kind = "read"
    BY DEF refreshData
  <1>2. e \in Transaction /\ e.kind = "read" /\ e.at = 1
    BY DEF Transaction
  <1> HIDE DEF e
  <1> DEFINE n == Len(others)
  <1>3. /\ txns' \in Seq(Transaction) /\ DOMAIN txns' = 1..(n + 1)
        /\ \A i \in 1..n : txns'[i] = others[i]
        /\ txns'[n + 1] = e
        /\ DOMAIN others = 1..n /\ n \in Nat
    BY <1>1, <1>2, Appended
  <1>4. Len(jobData) \in Nat /\ Len(jobData') \in Nat
    BY LenProperties DEF TableInv, TableTypes
  <1>5. rows' \in Seq(Row) /\ DOMAIN rows' = {}
    BY <1>1, EmptySeq
  <1> HIDE DEF n
  <1>6. TableTypes'
    <2>1. \A k \in ReadTxns' : txns'[k].at \in 1..(Len(jobData') + 1)
      BY <1>2, <1>3, <1>4 DEF ReadTxns
    <2> QED BY <1>3, <1>5, <2>1 DEF TableInv, TableTypes
  <1>7. AllListed'
    <2>1. n + 1 \in ReadTxns' /\ 1..(txns'[n + 1].at - 1) = {}
      BY <1>2, <1>3 DEF ReadTxns
    <2> QED BY <2>1 DEF AllListed
  <1>8. InOrder'
    <2>1. ASSUME ~raced'
          PROVE  \A k \in ReadTxns' : k = n + 1
      BY <1>1, <1>3, <2>1 DEF ReadTxns
    <2> QED BY <1>5, <2>1 DEF InOrder
  <1> QED BY <1>6, <1>7, <1>8 DEF TableInv

(* A transaction less, which is no refresh that is needed: it writes, or   *)
(* has read everything.                                                    *)
LEMMA LessStep ==
  ASSUME TableInv, NEW k \in DOMAIN txns, txns' = RemoveAt(txns, k),
         txns[k].kind = "write" \/ txns[k].at \notin 1..Len(jobData),
         UNCHANGED <<submitted, jobData, rows, raced, opened>>, sent' = sent
  PROVE  TableInv'
  <1> DEFINE w(v) == IF v < k THEN v ELSE v + 1
  <1>1. /\ txns \in Seq(Transaction) /\ Len(txns) \in Nat /\ DOMAIN txns = 1..Len(txns)
        /\ Len(jobData) \in Nat
    BY LenProperties DEF TableInv, TableTypes
  <1>2. /\ txns' \in Seq(Transaction)
        /\ DOMAIN txns' = 1..(Len(txns) - 1)
        /\ \A v \in DOMAIN txns' : txns'[v] = txns[w(v)]
    BY <1>1, Removed
  <1>3. \A v \in DOMAIN txns' : w(v) \in DOMAIN txns \ {k}
    BY <1>1, <1>2
  <1>4. \A x, y \in DOMAIN txns' : w(x) = w(y) => x = y
    BY <1>1, <1>2
  <1>5. \A x \in DOMAIN txns \ {k} : \E v \in DOMAIN txns' : x = w(v)
    <2> SUFFICES ASSUME NEW x \in DOMAIN txns \ {k}
                 PROVE  \E v \in DOMAIN txns' : x = w(v)
      OBVIOUS
    <2>1. CASE x < k
      <3>1. x \in DOMAIN txns' /\ x = w(x)
        BY <1>1, <1>2, <2>1
      <3> QED BY <3>1
    <2>2. CASE ~(x < k)
      <3>1. x - 1 \in DOMAIN txns' /\ x = w(x - 1)
        BY <1>1, <1>2, <2>2
      <3> QED BY <3>1
    <2> QED BY <2>1, <2>2
  <1> HIDE DEF w
  <1>6. \A v \in ReadTxns' : w(v) \in ReadTxns
    BY <1>2, <1>3 DEF ReadTxns
  <1>7. TableTypes'
    <2>1. \A v \in ReadTxns' : txns'[v].at \in 1..(Len(jobData') + 1)
      BY <1>2, <1>6 DEF ReadTxns, TableInv, TableTypes
    <2> QED BY <1>2, <2>1 DEF TableInv, TableTypes
  <1>8. AllListed'
    <2> SUFFICES ASSUME opened PROVE AllListed'
      BY DEF AllListed
    <2>1. Keys' = Keys
      BY DEF Keys
    <2>2. CASE \A n \in 1..Len(jobData) : n \in Keys
      BY <2>1, <2>2 DEF AllListed
    <2>3. CASE \E x \in ReadTxns : \A n \in 1..(txns[x].at - 1) : n \in Keys
      <3>1. PICK x \in ReadTxns : \A n \in 1..(txns[x].at - 1) : n \in Keys
        BY <2>3
      <3>2. CASE x = k
        <4>1. txns[k].at = Len(jobData) + 1
          BY <1>1, <3>1, <3>2 DEF TableInv, TableTypes, ReadTxns
        <4>2. \A n \in 1..Len(jobData) : n \in Keys
          BY <1>1, <3>1, <3>2, <4>1
        <4> QED BY <2>2, <4>2
      <3>3. CASE x # k
        <4>1. PICK v \in DOMAIN txns' : x = w(v)
          BY <1>5, <3>1, <3>3 DEF ReadTxns
        <4>2. v \in ReadTxns' /\ txns'[v] = txns[x]
          BY <1>2, <3>1, <4>1 DEF ReadTxns
        <4> QED BY <2>1, <3>1, <4>2 DEF AllListed
      <3> QED BY <3>2, <3>3
    <2> QED BY <2>2, <2>3 DEF TableInv, AllListed
  <1>9. InOrder'
    BY <1>2, <1>4, <1>6 DEF InOrder, TableInv, ReadTxns
  <1> QED BY <1>7, <1>8, <1>9 DEF TableInv

(* The cursor of a refresh moves on and lists a job.                       *)
LEMMA ListsStep ==
  ASSUME TableInv, NEW k \in ReadTxns, txns[k].at \in DOMAIN jobData,
         rows' = Append(rows, [key |-> txns[k].at, job |-> jobData[txns[k].at]]),
         txns' = [txns EXCEPT ![k].at = @ + 1],
         UNCHANGED <<submitted, jobData, raced, opened>>, sent' = sent
  PROVE  TableInv'
  <1> DEFINE at == txns[k].at
             row == [key |-> at, job |-> jobData[at]]
             N == Len(jobData)
  <1>1. /\ N \in Nat /\ DOMAIN jobData = 1..N /\ at \in 1..N /\ jobData[at] \in Nat
        /\ txns \in Seq(Transaction) /\ rows \in Seq(Row) /\ k \in DOMAIN txns
    BY LenProperties, ElementOfSeq DEF TableInv, TableTypes, ReadTxns
  <1>2. row \in Row /\ row.key = at /\ row.job = jobData[at]
    BY <1>1 DEF Row
  <1> HIDE DEF row
  <1>3. /\ rows' \in Seq(Row) /\ DOMAIN rows' = 1..(Len(rows) + 1)
        /\ \A i \in DOMAIN rows : rows'[i] = rows[i]
        /\ rows'[Len(rows) + 1] = row
        /\ DOMAIN rows = 1..Len(rows) /\ Len(rows) \in Nat
    <2>1. rows' = Append(rows, row)
      BY DEF row
    <2> QED BY <1>1, <1>2, <2>1, Appended
  <1>4. /\ DOMAIN txns' = DOMAIN txns
        /\ \A j \in DOMAIN txns \ {k} : txns'[j] = txns[j]
        /\ txns'[k] = [txns[k] EXCEPT !.at = at + 1]
    BY <1>1
  <1>5. txns[k] \in Transaction
    <2>1. \A j \in 1..Len(txns) : txns[j] \in Transaction
      BY <1>1, ElementOfSeq
    <2> QED BY <1>1, <2>1, LenProperties
  <1>6. txns'[k] \in Transaction /\ txns'[k].kind = "read" /\ txns'[k].at = at + 1
    <2>1. txns[k].kind = "read" /\ at + 1 \in Nat
      BY <1>1 DEF ReadTxns
    <2> QED BY <1>4, <1>5, <2>1 DEF Transaction
  <1>7. ReadTxns' = ReadTxns
    <2>1. \A j \in DOMAIN txns : txns'[j].kind = "read" <=> txns[j].kind = "read"
      BY <1>4, <1>6 DEF ReadTxns
    <2> QED BY <1>4, <2>1 DEF ReadTxns
  <1>8. txns' \in Seq(Transaction)
    <2>1. txns' = [txns EXCEPT ![k] = [txns[k] EXCEPT !.at = at + 1]]
      BY <1>1
    <2> QED BY <1>1, <1>4, <1>6, <2>1, ExceptSeq
  <1> HIDE DEF N
  <1>9. TableTypes'
    <2>1. \A j \in ReadTxns' : txns'[j].at \in 1..(Len(jobData') + 1)
      <3>1. \A j \in ReadTxns : txns[j].at \in 1..(N + 1) /\ j \in DOMAIN txns
        BY DEF TableInv, TableTypes, ReadTxns, N
      <3>2. Len(jobData') = N
        BY DEF N
      <3> QED BY <1>1, <1>4, <1>6, <1>7, <3>1, <3>2
    <2>2. \A i \in DOMAIN rows' : rows'[i].key \in 0..Len(jobData')
      <3>1. \A i \in DOMAIN rows : rows[i].key \in 0..N
        BY DEF TableInv, TableTypes, N
      <3>2. Len(jobData') = N
        BY DEF N
      <3> QED BY <1>1, <1>2, <1>3, <3>1, <3>2
    <2>3. \A i \in DOMAIN rows' : rows'[i].key = 0 \/ rows'[i].job = jobData'[rows'[i].key]
      <3> SUFFICES ASSUME NEW i \in DOMAIN rows'
                   PROVE  rows'[i].key = 0 \/ rows'[i].job = jobData[rows'[i].key]
        OBVIOUS
      <3>1. CASE i \in DOMAIN rows
        BY <1>3, <3>1 DEF TableInv, TableTypes
      <3>2. CASE i \notin DOMAIN rows
        BY <1>2, <1>3, <3>2
      <3> QED BY <3>1, <3>2
    <2> QED BY <1>3, <1>8, <2>1, <2>2, <2>3 DEF TableInv, TableTypes
  <1>10. Keys \subseteq Keys' /\ at \in Keys'
    <2>1. \A i \in DOMAIN rows : i \in DOMAIN rows' /\ rows'[i].key = rows[i].key
      BY <1>3
    <2>2. Len(rows) + 1 \in DOMAIN rows' /\ rows'[Len(rows) + 1].key = at
      BY <1>2, <1>3
    <2> QED BY <2>1, <2>2 DEF Keys
  <1>11. AllListed'
    <2> SUFFICES ASSUME opened PROVE AllListed'
      BY DEF AllListed
    <2>1. CASE \A n \in 1..Len(jobData) : n \in Keys
      BY <1>10, <2>1 DEF AllListed
    <2>2. CASE \E x \in ReadTxns : \A n \in 1..(txns[x].at - 1) : n \in Keys
      <3>1. PICK x \in ReadTxns : \A n \in 1..(txns[x].at - 1) : n \in Keys
        BY <2>2
      <3>2. \A n \in 1..(txns'[x].at - 1) : n \in Keys'
        <4>1. CASE x = k
          <5>1. \A n \in 1..at : n \in 1..(at - 1) \/ n = at
            BY <1>1
          <5>2. txns'[x].at - 1 = at
            BY <1>1, <1>6, <4>1
          <5> QED BY <1>10, <3>1, <4>1, <5>1, <5>2
        <4>2. CASE x # k
          <5>1. txns'[x] = txns[x]
            BY <1>4, <4>2 DEF ReadTxns
          <5> QED BY <1>10, <3>1, <5>1
        <4> QED BY <4>1, <4>2
      <3> QED BY <1>7, <3>2 DEF AllListed
    <2> QED BY <2>1, <2>2 DEF TableInv, AllListed
  <1>12. InOrder'
    <2> SUFFICES ASSUME ~raced PROVE InOrder'
      BY DEF InOrder
    <2>1. /\ \A x \in ReadTxns : x = k
          /\ \A i, j \in DOMAIN rows : i < j /\ rows[i].key # 0 /\ rows[j].key # 0 =>
                                         rows[i].key < rows[j].key
          /\ \A i \in DOMAIN rows : rows[i].key < at
      BY DEF TableInv, InOrder
    <2>2. \A i \in DOMAIN rows : rows[i].key \in Nat
      BY DEF TableInv, TableTypes
    <2>3. \A i, j \in DOMAIN rows' : i < j /\ rows'[i].key # 0 /\ rows'[j].key # 0 =>
                                       rows'[i].key < rows'[j].key
      <3> SUFFICES ASSUME NEW i \in DOMAIN rows', NEW j \in DOMAIN rows', i < j,
                          rows'[i].key # 0, rows'[j].key # 0
                   PROVE  rows'[i].key < rows'[j].key
        OBVIOUS
      <3>1. i \in DOMAIN rows
        BY <1>3
      <3>2. CASE j \in DOMAIN rows
        BY <1>3, <2>1, <3>1, <3>2
      <3>3. CASE j \notin DOMAIN rows
        <4>1. rows'[j].key = at
          BY <1>2, <1>3, <3>3
        <4> QED BY <1>3, <2>1, <3>1, <4>1
      <3> QED BY <3>2, <3>3
    <2>4. \A i \in DOMAIN rows' : rows'[i].key < at + 1
      <3> SUFFICES ASSUME NEW i \in DOMAIN rows'
                   PROVE  rows'[i].key < at + 1
        OBVIOUS
      <3>1. CASE i \in DOMAIN rows
        <4>1. rows'[i].key = rows[i].key /\ rows[i].key < at /\ rows[i].key \in Nat
          BY <1>3, <2>1, <2>2, <3>1
        <4> QED BY <1>1, <4>1
      <3>2. CASE i \notin DOMAIN rows
        <4>1. rows'[i].key = at
          BY <1>2, <1>3, <3>2
        <4> QED BY <1>1, <4>1
      <3> QED BY <3>1, <3>2
    <2>5. \A x \in ReadTxns' : x = k
      BY <1>7, <2>1
    <2>6. (\A x, y \in ReadTxns' : x = y)
      BY <2>5
    <2>7. \A x \in ReadTxns' : \A i \in DOMAIN rows' : rows'[i].key < txns'[x].at
      BY <1>6, <2>4, <2>5
    <2> QED BY <2>3, <2>6, <2>7 DEF InOrder
  <1> QED BY <1>9, <1>11, <1>12 DEF TableInv

(* A job is created: a write waits, and there is a row without a key.      *)
LEMMA CreatedStep ==
  ASSUME TableInv, NEW c \in sent,
         txns' = Append(txns, [kind |-> "write", job |-> c, at |-> 0]),
         rows' = Append(rows, [key |-> 0, job |-> c]),
         UNCHANGED <<submitted, jobData, raced, opened>>, sent' \subseteq sent
  PROVE  TableInv'
  <1> DEFINE e == [kind |-> "write", job |-> c, at |-> 0]
             row == [key |-> 0, job |-> c]
  <1>1. c \in Nat /\ txns \in Seq(Transaction) /\ rows \in Seq(Row)
    BY DEF TableInv, TableTypes
  <1>2. e \in Transaction /\ e.kind = "write" /\ row \in Row /\ row.key = 0
    BY <1>1 DEF Transaction, Row
  <1>a. txns' = Append(txns, e) /\ rows' = Append(rows, row)
    OBVIOUS
  <1> HIDE DEF e, row
  <1>3. /\ txns' \in Seq(Transaction) /\ DOMAIN txns' = 1..(Len(txns) + 1)
        /\ \A i \in DOMAIN txns : txns'[i] = txns[i]
        /\ txns'[Len(txns) + 1] = e
        /\ DOMAIN txns = 1..Len(txns) /\ Len(txns) \in Nat
    BY <1>1, <1>2, <1>a, Appended
  <1>4. /\ rows' \in Seq(Row) /\ DOMAIN rows' = 1..(Len(rows) + 1)
        /\ \A i \in DOMAIN rows : rows'[i] = rows[i]
        /\ rows'[Len(rows) + 1] = row
        /\ DOMAIN rows = 1..Len(rows) /\ Len(rows) \in Nat
    BY <1>1, <1>2, <1>a, Appended
  <1>5. ReadTxns' = ReadTxns /\ (\A k \in ReadTxns : txns'[k] = txns[k])
    <2>1. \A i \in DOMAIN txns' : i \in DOMAIN txns \/ i = Len(txns) + 1
      BY <1>3
    <2>2. DOMAIN txns \subseteq DOMAIN txns'
      BY <1>3
    <2> QED BY <1>2, <1>3, <2>1, <2>2 DEF ReadTxns
  <1>6. \A i \in DOMAIN rows' : i \notin DOMAIN rows => rows'[i].key = 0
    <2>1. \A i \in DOMAIN rows' : i \in DOMAIN rows \/ i = Len(rows) + 1
      BY <1>4
    <2> QED BY <1>2, <1>4, <2>1
  <1>7. TableTypes'
    <2>1. \A i \in DOMAIN rows' : rows'[i].key \in 0..Len(jobData)
      <3>1. 0 \in 0..Len(jobData)
        BY LenProperties DEF TableInv, TableTypes
      <3> QED BY <1>4, <1>6, <3>1 DEF TableInv, TableTypes
    <2>2. \A k \in ReadTxns' : txns'[k].at \in 1..(Len(jobData') + 1)
      BY <1>5 DEF TableInv, TableTypes
    <2>3. \A i \in DOMAIN rows' : rows'[i].key = 0 \/ rows'[i].job = jobData[rows'[i].key]
      BY <1>4, <1>6 DEF TableInv, TableTypes
    <2> QED BY <1>3, <1>4, <2>1, <2>2, <2>3 DEF TableInv, TableTypes
  <1>8. Keys \subseteq Keys'
    <2>1. \A i \in DOMAIN rows : i \in DOMAIN rows' /\ rows'[i].key = rows[i].key
      BY <1>4
    <2> QED BY <2>1 DEF Keys
  <1>9. AllListed'
    BY <1>5, <1>8 DEF TableInv, AllListed
  <1>10. InOrder'
    <2> SUFFICES ASSUME ~raced PROVE InOrder'
      BY DEF InOrder
    <2>1. \A i, j \in DOMAIN rows' : i < j /\ rows'[i].key # 0 /\ rows'[j].key # 0 =>
                                       rows'[i].key < rows'[j].key
      BY <1>4, <1>6 DEF TableInv, InOrder
    <2>2. \A k \in ReadTxns : \A i \in DOMAIN rows' : rows'[i].key < txns[k].at
      <3>1. \A k \in ReadTxns : 0 < txns[k].at
        BY DEF TableInv, TableTypes
      <3> QED BY <1>4, <1>6, <3>1 DEF TableInv, InOrder
    <2> QED BY <1>5, <2>1, <2>2 DEF TableInv, InOrder
  <1> QED BY <1>7, <1>9, <1>10 DEF TableInv

(* A step that leaves the table alone.                                     *)
LEMMA TableAlone ==
  ASSUME TableInv, UNCHANGED tableVars, submitted' \in Nat, sent' \subseteq 1..submitted'
  PROVE  TableInv'
  BY DEF TableInv, TableTypes, tableVars, AllListed, InOrder, ReadTxns, Keys

\* The page when it is opened.
LEMMA TableInitially == ConsoleInit => TableInv
  <1> SUFFICES ASSUME ConsoleInit PROVE TableInv
    OBVIOUS
  <1>1. txns \in Seq(Transaction) /\ DOMAIN txns = {} /\ rows \in Seq(Row) /\ DOMAIN rows = {}
    BY EmptySeq DEF ConsoleInit
  <1>2. jobData \in Seq(Nat)
    <2>1. <<>> \in Seq(Nat)
      BY EmptySeq
    <2>2. <<0>> \in Seq(Nat)
      OBVIOUS
    <2> QED BY <2>1, <2>2 DEF ConsoleInit
  <1> QED BY <1>1, <1>2 DEF ConsoleInit, TableInv, TableTypes, AllListed, InOrder, ReadTxns

\* Every step of the page.
LEMMA TableStep == TableInv /\ [ConsoleNext]_consoleVars => TableInv'
  <1>1. SUFFICES ASSUME TableInv, [ConsoleNext]_consoleVars
                 PROVE  TableInv'
    OBVIOUS
  <1>2. submitted \in Nat /\ sent \subseteq 1..submitted
    BY <1>1 DEF TableInv, TableTypes
  <1>3. CASE UNCHANGED consoleVars
    BY <1>1, <1>2, <1>3, TableAlone DEF consoleVars, tableVars
  <1>4. CASE OpenAdvanced \/ Back \/ Dismiss
    BY <1>1, <1>2, <1>4, TableAlone DEF OpenAdvanced, Back, Dismiss
  <1>5. ASSUME callCreateJob
        PROVE  submitted' \in Nat /\ sent' \subseteq 1..submitted'
    BY <1>2, <1>5 DEF callCreateJob
  <1>6. CASE SubmitAdvanced
    BY <1>1, <1>5, <1>6, TableAlone DEF SubmitAdvanced
  <1>7. ASSUME NEW names \in Lists, getProcesses(names) \/ SubmitSimple(names)
        PROVE  TableInv'
    <2>1. CASE getProcesses(names)
      BY <1>1, <1>2, <2>1, TableAlone DEF getProcesses
    <2>2. CASE SubmitSimple(names)
      <3>1. UNCHANGED tableVars
        BY <2>2 DEF SubmitSimple
      <3>2. submitted' \in Nat /\ sent' \subseteq 1..submitted'
        BY <1>2, <1>5, <2>2 DEF SubmitSimple
      <3> QED BY <1>1, <3>1, <3>2, TableAlone
    <2> QED BY <1>7, <2>1, <2>2
  <1>8. ASSUME NEW parallel \in BOOLEAN, NEW arranged \in Perms(grid), getTask(parallel, arranged)
        PROVE  TableInv'
    BY <1>1, <1>2, <1>8, TableAlone DEF getTask
  <1>9. CASE OpenSucceeds
    <2>1. /\ refreshData(txns) /\ UNCHANGED <<jobData, sent, submitted>>
      BY <1>9 DEF OpenSucceeds
    <2>2. /\ txns \in Seq(Transaction) /\ jobData \in Seq(Nat)
          /\ \A k \in DOMAIN txns : txns[k].kind = "read" =>
                                      txns[k].at \in 1..(Len(jobData) + 1)
      BY <1>1 DEF TableInv, TableTypes, ReadTxns
    <2>3. Len(jobData') >= Len(jobData)
      BY <2>1, <2>2, LenProperties
    <2> QED BY <1>1, <2>1, <2>2, <2>3, RefreshStep
  <1>10. ASSUME NEW c \in sent, CreateAnswered(c) \/ CreateFails(c)
         PROVE  TableInv'
    <2>1. sent' \subseteq sent /\ UNCHANGED submitted
      BY <1>10 DEF CreateAnswered, CreateFails
    <2>2. CASE CreateAnswered(c) /\ opened
      BY <1>1, <2>1, <2>2, CreatedStep DEF CreateAnswered
    <2>3. CASE UNCHANGED tableVars
      BY <1>1, <1>2, <2>1, <2>3, TableAlone
    <2> QED BY <1>10, <2>2, <2>3 DEF CreateAnswered, CreateFails, tableVars
  <1>11. ASSUME NEW k \in DOMAIN txns, CursorMoves(k)
         PROVE  TableInv'
    <2>1. k \in ReadTxns /\ UNCHANGED <<submitted, jobData, raced, opened>> /\ sent' = sent
      BY <1>11 DEF CursorMoves, ReadTxns
    <2>2. CASE txns[k].at \in DOMAIN jobData
      <3>1. /\ rows' = Append(rows, [key |-> txns[k].at, job |-> jobData[txns[k].at]])
            /\ txns' = [txns EXCEPT ![k].at = @ + 1]
        BY <1>11, <2>2 DEF CursorMoves
      <3> QED BY <1>1, <2>1, <2>2, <3>1, ListsStep
    <2>3. CASE txns[k].at \notin DOMAIN jobData
      <3>1. txns' = RemoveAt(txns, k) /\ UNCHANGED rows
        BY <1>11, <2>3 DEF CursorMoves
      <3>2. txns[k].at \notin 1..Len(jobData)
        BY <1>1, <2>3, LenProperties DEF TableInv, TableTypes
      <3> QED BY <1>1, <2>1, <3>1, <3>2, LessStep
    <2> QED BY <2>2, <2>3
  <1>12. ASSUME NEW k \in DOMAIN txns, AddSucceeds(k)
         PROVE  TableInv'
    <2> DEFINE others == RemoveAt(txns, k)
    <2>1. /\ jobData' = Append(jobData, txns[k].job) /\ refreshData(others)
          /\ UNCHANGED <<sent, submitted>>
      BY <1>12 DEF AddSucceeds
    <2>2. txns \in Seq(Transaction) /\ jobData \in Seq(Nat)
      BY <1>1 DEF TableInv, TableTypes
    <2>3. /\ others \in Seq(Transaction)
          /\ \A v \in DOMAIN others : \E x \in DOMAIN txns : others[v] = txns[x]
      <3>1. /\ others \in Seq(Transaction)
            /\ DOMAIN others = 1..(Len(txns) - 1)
            /\ \A v \in DOMAIN others : others[v] = txns[IF v < k THEN v ELSE v + 1]
        BY <2>2, Removed
      <3>2. DOMAIN txns = 1..Len(txns) /\ Len(txns) \in Nat
        BY <2>2, LenProperties
      <3> HIDE DEF others
      <3>3. \A v \in DOMAIN others : (IF v < k THEN v ELSE v + 1) \in DOMAIN txns
        BY <3>1, <3>2
      <3> QED BY <3>1, <3>3
    <2>4. \A v \in DOMAIN others : others[v].kind = "read" =>
                                     others[v].at \in 1..(Len(jobData) + 1)
      <3> HIDE DEF others
      <3> QED BY <1>1, <2>3 DEF TableInv, TableTypes, ReadTxns
    <2>5. jobData' \in Seq(Nat) /\ Len(jobData') >= Len(jobData)
      <3>1. txns[k].job \in Nat
        <4>1. \A j \in 1..Len(txns) : txns[j] \in Transaction
          BY <2>2, ElementOfSeq
        <4>2. txns[k] \in Transaction
          BY <2>2, <4>1, LenProperties
        <4> QED BY <4>2 DEF Transaction
      <3> QED BY <2>1, <2>2, <3>1, AppendProperties, LenProperties
    <2> HIDE DEF others
    <2> QED BY <1>1, <2>1, <2>3, <2>4, <2>5, RefreshStep
  <1>13. ASSUME NEW k \in DOMAIN txns, AddFails(k)
         PROVE  TableInv'
    BY <1>1, <1>13, LessStep DEF AddFails
  <1> QED BY <1>1, <1>3, <1>4, <1>6, <1>7, <1>8, <1>9, <1>10, <1>11, <1>12, <1>13 DEF ConsoleNext

\* A table at rest.
LEMMA TableRests == TableInv => TableIsComplete
  <1> SUFFICES ASSUME TableInv, opened, txns = <<>>
               PROVE  LET listed == {i \in DOMAIN rows : rows[i].key # 0}
                      IN  /\ {rows[i].key : i \in listed} = DOMAIN jobData
                          /\ ~raced => \A i, j \in listed : i < j => rows[i].key < rows[j].key
    BY DEF TableIsComplete
  <1>1. ReadTxns = {}
    BY DEF ReadTxns
  <1>2. \A n \in 1..Len(jobData) : n \in Keys
    BY <1>1 DEF TableInv, AllListed
  <1>3. /\ DOMAIN jobData = 1..Len(jobData) /\ Len(jobData) \in Nat
        /\ \A i \in DOMAIN rows : rows[i].key \in 0..Len(jobData)
    BY LenProperties DEF TableInv, TableTypes
  <1> QED BY <1>2, <1>3 DEF Keys, TableInv, InOrder

\* From its initial state, in any number of steps.
LEMMA TableHolds == ConsoleInit /\ [][ConsoleNext]_consoleVars => []TableInv
  BY TableInitially, TableStep, PTL

(***************************************************************************)
(* When the database is at rest the table lists every stored job, and in   *)
(* the order of the keys unless refreshes have raced: for any number of    *)
(* jobs, created before and after the database is open, and whichever of   *)
(* the requests and transactions fail.                                     *)
(***************************************************************************)
THEOREM TableIsRefreshed == ConsoleSpec => []TableIsComplete
  BY TableRests, TableHolds, PTL DEF ConsoleSpec

-----------------------------------------------------------------------------
(* The job console: the forms.                                             *)

(* A list without repetitions.                                             *)
Names(s) == s \in Seq(Range(s)) /\ IsInjective(s)

FormInv ==
  /\ submitted \in Nat
  /\ tab \in {"closed", "process", "task", "job"}
  /\ {processes, taskObj.processes} \subseteq Lists \cup {<<>>}
  /\ grid = <<>> \/ \E s \in Lists : grid \in Perms(s)
  /\ taskObj = [processes |-> taskObj.processes, order |-> taskObj.order]
  /\ tab \in {"task", "job"} =>
       /\ \E s \in Lists : grid \in Perms(s)
       /\ Names(grid) /\ Names(processes)
       /\ Range(grid) = Range(processes)
  /\ tab = "job" =>
       /\ taskObj.processes = processes
       /\ taskObj.order = Deleted \/ taskObj.order \in SortedByLeft(grid)

(* Places that only grow, and of which none is left out, are the places in *)
(* order.                                                                  *)
LEMMA GrowingPlaces ==
  ASSUME NEW n \in Nat, NEW f \in [1..n -> 1..n],
         \A i, j \in 1..n : i < j => f[i] < f[j],
         \A p \in 1..n : \E i \in 1..n : f[i] = p
  PROVE  \A i \in 1..n : f[i] = i
  <1> DEFINE S == {i \in 1..n : f[i] # i}
  <1> SUFFICES ASSUME S # {} PROVE FALSE
    OBVIOUS
  <1>1. PICK i \in S : \A y \in S : i <= y
    <2>1. S \in SUBSET Nat
      OBVIOUS
    <2> HIDE DEF S
    <2> QED BY <2>1, LeastNumber
  <1>2. i \in 1..n /\ f[i] # i /\ f[i] \in 1..n
    OBVIOUS
  <1>3. \A j \in 1..n : j < i => f[j] = j
    BY <1>1
  <1> HIDE DEF S
  <1>4. f[i] > i
    <2>1. CASE f[i] < i
      <3>1. f[f[i]] = f[i]
        BY <1>2, <1>3, <2>1
      <3>2. f[f[i]] < f[i]
        BY <1>2, <2>1
      <3> QED BY <1>2, <3>1, <3>2
    <2> QED BY <1>2, <2>1
  <1>5. PICK k \in 1..n : f[k] = i
    BY <1>2
  <1>6. CASE k < i
    BY <1>2, <1>3, <1>5, <1>6
  <1>7. CASE k = i
    BY <1>2, <1>5, <1>7
  <1>8. CASE k > i
    <2>1. f[i] < f[k]
      BY <1>2, <1>8
    <2> QED BY <1>2, <1>4, <1>5, <2>1
  <1> QED BY <1>2, <1>6, <1>7, <1>8

(* The elements of a single row are sorted into the order they stand in.   *)
LEMMA RowSorted ==
  ASSUME NEW g, Names(g), NEW s \in SortedByLeft(g), Len(g) <= Columns
  PROVE  s = g
  <1> DEFINE n == Len(g)
             place(m) == CHOOSE p \in DOMAIN g : g[p] = m
             f == [i \in 1..n |-> place(s[i])]
  <1>1. /\ s \in [1..n -> Range(g)] /\ Range(s) = Range(g) /\ IsInjective(s)
        /\ n \in Nat /\ DOMAIN g = 1..n /\ IsInjective(g)
        /\ \A i, j \in 1..n : i < j => Left(g, s[i]) <= Left(g, s[j])
    <2>1. DOMAIN g = 1..n /\ n \in Nat
      BY DEF Names
    <2> HIDE DEF n
    <2> QED BY <2>1 DEF SortedByLeft, Perms, Names
  <1>2. \A m \in Range(g) : place(m) \in 1..n /\ g[place(m)] = m
    BY <1>1 DEF Range
  <1>3. \A m \in Range(g) : Left(g, m) = place(m) - 1
    <2>1. \A p \in 1..n : (p - 1) % Columns = p - 1
      <3>1. Columns \in Nat /\ Columns > 0
        BY ListsAssumption
      <3>2. \A x \in Nat : x < Columns => x % Columns = x
        BY <3>1
      <3> QED BY <1>1, <3>1, <3>2
    <2>2. \A m \in Range(g) : Left(g, m) = (place(m) - 1) % Columns
      BY DEF Left
    <2> HIDE DEF place
    <2> QED BY <1>2, <2>1, <2>2
  <1> HIDE DEF place
  <1>4. \A i \in 1..n : s[i] \in Range(g) /\ f[i] = place(s[i])
    BY <1>1
  <1>5. f \in [1..n -> 1..n]
    BY <1>2, <1>4
  <1>6. \A i, j \in 1..n : f[i] = f[j] => i = j
    BY <1>1, <1>2, <1>4 DEF IsInjective
  <1>7. \A i, j \in 1..n : i < j => f[i] <= f[j]
    <2> SUFFICES ASSUME NEW i \in 1..n, NEW j \in 1..n, i < j PROVE f[i] <= f[j]
      OBVIOUS
    <2>1. place(s[i]) - 1 <= place(s[j]) - 1
      BY <1>1, <1>3, <1>4
    <2>2. place(s[i]) \in 1..n /\ place(s[j]) \in 1..n
      BY <1>2, <1>4
    <2> QED BY <1>4, <2>1, <2>2
  <1>8. \A p \in 1..n : \E i \in 1..n : f[i] = p
    <2> SUFFICES ASSUME NEW p \in 1..n PROVE \E i \in 1..n : f[i] = p
      OBVIOUS
    <2>1. g[p] \in Range(g)
      BY <1>1 DEF Range
    <2>2. PICK i \in 1..n : s[i] = g[p]
      BY <1>1, <2>1 DEF Range
    <2>3. place(g[p]) = p
      BY <1>1, <1>2, <2>1 DEF IsInjective
    <2> QED BY <1>4, <2>2, <2>3
  <1> HIDE DEF f
  <1>9. \A i, j \in 1..n : i < j => f[i] < f[j]
    BY <1>1, <1>5, <1>6, <1>7
  <1>10. \A i \in 1..n : f[i] = i
    BY <1>1, <1>5, <1>8, <1>9, GrowingPlaces
  <1>11. \A i \in 1..n : s[i] = g[i]
    <2> SUFFICES ASSUME NEW i \in 1..n PROVE s[i] = g[i]
      OBVIOUS
    <2>1. g[place(s[i])] = s[i] /\ place(s[i]) = i
      BY <1>2, <1>4, <1>10
    <2> QED BY <2>1
  <1>12. g = [i \in 1..n |-> g[i]]
    BY DEF Names
  <1> QED BY <1>1, <1>11, <1>12

(* An arrangement of a list without repetitions is one.                    *)
LEMMA ArrangedNames ==
  ASSUME NEW g, Names(g), NEW t \in Perms(g)
  PROVE  Names(t) /\ Range(t) = Range(g) /\ (\A s : g \in Perms(s) => t \in Perms(s))
  <1>1. t \in [DOMAIN g -> Range(g)] /\ Range(t) = Range(g) /\ IsInjective(t)
    BY DEF Perms
  <1>2. DOMAIN g = 1..Len(g) /\ Len(g) \in Nat
    BY DEF Names
  <1>3. t \in Seq(Range(g))
    BY <1>1, <1>2
  <1>4. ASSUME NEW s, g \in Perms(s)
        PROVE  t \in Perms(s)
    <2>1. g \in [DOMAIN s -> Range(s)] /\ Range(g) = Range(s)
      BY <1>4 DEF Perms
    <2> QED BY <1>1, <2>1 DEF Perms
  <1> QED BY <1>1, <1>3, <1>4 DEF Names

\* A list is an arrangement of itself.
LEMMA OwnArrangement ==
  ASSUME NEW g, Names(g)
  PROVE  g \in Perms(g)
  <1>1. g \in [DOMAIN g -> Range(g)]
    BY DEF Names
  <1> QED BY <1>1 DEF Names, Perms

(* A task object filled from the grid orders its own processes.            *)
LEMMA JobOrdered ==
  ASSUME FormInv, tab = "job"
  PROVE  /\ Ordered(taskObj)
         /\ Range(grid) = Range(taskObj.processes)
         /\ Len(grid) <= Columns => taskObj.order \in {grid, Deleted}
  <1>1. /\ Names(grid) /\ Range(grid) = Range(processes) /\ taskObj.processes = processes
        /\ taskObj.order = Deleted \/ taskObj.order \in SortedByLeft(grid)
    BY DEF FormInv
  <1>2. ASSUME taskObj.order # Deleted
        PROVE  Range(taskObj.order) = Range(grid) /\ IsInjective(taskObj.order)
    BY <1>1, <1>2 DEF SortedByLeft, Perms
  <1>3. ASSUME Len(grid) <= Columns, taskObj.order # Deleted
        PROVE  taskObj.order = grid
    BY <1>1, <1>3, RowSorted
  <1> QED BY <1>1, <1>2, <1>3 DEF Ordered

(* A step that leaves the forms alone, or closes the advanced one.         *)
LEMMA FormAlone ==
  ASSUME FormInv, UNCHANGED <<processes, grid, taskObj>>, submitted' \in Nat,
         tab' \in {tab, "closed", "process"} \/ (tab = "job" /\ tab' = "task")
  PROVE  FormInv'
  BY DEF FormInv

\* What a step that sends a configuration has to have.
SendsAsArranged ==
  submitted' > submitted =>
    /\ Ordered(taskObj')
    /\ tab = "job" =>
         /\ Range(grid) = Range(taskObj.processes)
         /\ Len(grid) <= Columns => taskObj.order \in {grid, Deleted}

\* Every step of the page.
LEMMA FormStep == FormInv /\ [ConsoleNext]_consoleVars => FormInv' /\ [SendsAsArranged]_consoleVars
  <1>1. SUFFICES ASSUME FormInv, [ConsoleNext]_consoleVars
                 PROVE  FormInv' /\ [SendsAsArranged]_consoleVars
    OBVIOUS
  <1>2. submitted \in Nat
    BY <1>1 DEF FormInv
  <1>3. ASSUME submitted' = submitted PROVE SendsAsArranged
    BY <1>2, <1>3 DEF SendsAsArranged
  <1>4. \A s \in Lists : Names(s) /\ s \in Perms(s)
    <2>1. \A s \in Lists : Names(s)
      BY ListsAssumption DEF Names
    <2> QED BY <2>1, OwnArrangement
  <1>5. CASE UNCHANGED consoleVars
    BY <1>1, <1>2, <1>5, FormAlone DEF consoleVars
  <1>6. CASE OpenAdvanced \/ Back \/ Dismiss
    BY <1>1, <1>2, <1>3, <1>6, FormAlone DEF OpenAdvanced, Back, Dismiss
  <1>7. CASE SubmitAdvanced
    <2>1. tab = "job" /\ UNCHANGED formVars /\ submitted' \in Nat
      BY <1>2, <1>7 DEF SubmitAdvanced, callCreateJob
    <2>2. SendsAsArranged
      BY <1>1, <2>1, JobOrdered DEF SendsAsArranged, formVars, Ordered
    <2> QED BY <1>1, <2>1, <2>2, FormAlone DEF formVars
  <1>8. ASSUME NEW names \in Lists, getProcesses(names)
        PROVE  FormInv' /\ SendsAsArranged
    <2>1. /\ processes' = names /\ grid' = names /\ tab' = "task"
          /\ UNCHANGED <<taskObj, submitted>>
      BY <1>8 DEF getProcesses
    <2>2. \E s \in Lists : grid' \in Perms(s)
      BY <1>4, <2>1
    <2> QED BY <1>1, <1>3, <1>4, <2>1, <2>2 DEF FormInv
  <1>9. ASSUME NEW names \in Lists, SubmitSimple(names)
        PROVE  FormInv' /\ SendsAsArranged
    <2>1. /\ tab = "closed" /\ tab' = "closed"
          /\ taskObj' = [taskObj EXCEPT !.processes = names,
                                        !.order = IF @ = Deleted THEN Deleted ELSE names]
      BY <1>9 DEF SubmitSimple
    <2>2. submitted' \in Nat /\ (taskObj.order = Deleted => submitted' = submitted)
      BY <1>2, <1>9 DEF SubmitSimple, callCreateJob
    <2>3. /\ taskObj' = [processes |-> taskObj'.processes, order |-> taskObj'.order]
          /\ taskObj'.processes = names
          /\ taskObj.order # Deleted => taskObj'.order = names
      BY <1>1, <2>1 DEF FormInv
    <2>a. UNCHANGED <<processes, grid>>
      BY <1>9 DEF SubmitSimple
    <2>4. FormInv'
      BY <1>1, <2>1, <2>2, <2>3, <2>a DEF FormInv
    <2>5. CASE taskObj.order = Deleted
      BY <1>3, <2>2, <2>4, <2>5
    <2>6. CASE taskObj.order # Deleted
      <3>1. Ordered(taskObj')
        BY <1>4, <1>9, <2>3, <2>6 DEF Ordered, Names
      <3> QED BY <2>1, <2>4, <3>1 DEF SendsAsArranged
    <2> QED BY <2>5, <2>6
  <1>10. ASSUME NEW parallel \in BOOLEAN, NEW arranged \in Perms(grid),
                getTask(parallel, arranged)
         PROVE  FormInv' /\ SendsAsArranged
    <2>1. /\ tab = "task" /\ tab' = "job" /\ grid' = arranged
          /\ UNCHANGED <<processes, submitted>>
      BY <1>10 DEF getTask
    <2>2. PICK order \in IF parallel THEN {Deleted} ELSE SortedByLeft(arranged) :
            taskObj' = [processes |-> processes, order |-> order]
      BY <1>10 DEF getTask
    <2>3. /\ taskObj' = [processes |-> taskObj'.processes, order |-> taskObj'.order]
          /\ taskObj'.processes = processes
          /\ taskObj'.order = Deleted \/ taskObj'.order \in SortedByLeft(arranged)
      BY <2>2
    <2>4. Names(grid) /\ Range(grid) = Range(processes) /\ Names(processes)
      BY <1>1, <2>1 DEF FormInv
    <2>5. Names(arranged) /\ Range(arranged) = Range(grid)
      BY <2>4, ArrangedNames
    <2>6. (SortedByLeft(grid))' = SortedByLeft(arranged)
      BY <2>1 DEF SortedByLeft, Perms, Left
    <2>a. \E s \in Lists : grid' \in Perms(s)
      <3>1. PICK s \in Lists : grid \in Perms(s)
        BY <1>1, <2>1 DEF FormInv
      <3> QED BY <2>1, <2>4, <3>1, ArrangedNames
    <2>b. {processes', taskObj'.processes} \subseteq Lists \cup {<<>>}
      BY <1>1, <2>1, <2>3 DEF FormInv
    <2>7. FormInv'
      BY <1>2, <2>a, <2>b, <2>1, <2>3, <2>4, <2>5, <2>6 DEF FormInv
    <2> QED BY <1>3, <2>1, <2>7
  <1>11. CASE OpenSucceeds
    BY <1>1, <1>2, <1>3, <1>11, FormAlone DEF OpenSucceeds, formVars
  <1>12. ASSUME NEW c \in sent, CreateAnswered(c) \/ CreateFails(c)
         PROVE  FormInv' /\ SendsAsArranged
    BY <1>1, <1>2, <1>3, <1>12, FormAlone DEF CreateAnswered, CreateFails, formVars
  <1>13. ASSUME NEW k \in DOMAIN txns, CursorMoves(k) \/ AddSucceeds(k) \/ AddFails(k)
         PROVE  FormInv' /\ SendsAsArranged
    BY <1>1, <1>2, <1>3, <1>13, FormAlone DEF CursorMoves, AddSucceeds, AddFails, formVars
  <1> QED BY <1>1, <1>5, <1>6, <1>7, <1>8, <1>9, <1>10, <1>11, <1>12, <1>13 DEF ConsoleNext

\* From its initial state, in any number of steps.
LEMMA FormHolds ==
  ConsoleInit /\ [][ConsoleNext]_consoleVars => []FormInv /\ OrderedAsArranged
  <1>1. ConsoleInit => FormInv
    BY DEF ConsoleInit, FormInv
  <1>2. [][SendsAsArranged]_consoleVars => OrderedAsArranged
    BY DEF OrderedAsArranged, SendsAsArranged
  <1> QED BY <1>1, <1>2, FormStep, PTL

LEMMA ConsoleTyped == TableInv /\ FormInv => ConsoleTypeOK
  BY DEF TableInv, TableTypes, FormInv, ConsoleTypeOK

(***************************************************************************)
(* A configuration that is sent orders exactly its own processes, or none, *)
(* whichever form has filled the task object that both write; and as they  *)
(* are arranged when the grid is a single row: for every list of names.    *)
(***************************************************************************)
THEOREM SentAsArranged == ConsoleSpec => OrderedAsArranged
  BY FormHolds, PTL DEF ConsoleSpec

-----------------------------------------------------------------------------
(* The update pages.                                                       *)

\* The directions of an update, and the actions of its instances in each.
Directions == {"ROLLING_FORWARD", "ROLLING_BACK"}

Direction(s) ==
  IF s \in {"ROLLING_FORWARD", "ROLL_FORWARD_PAUSED", "ROLLED_FORWARD"}
  THEN "ROLLING_FORWARD" ELSE "ROLLING_BACK"

ActionsOf(d) ==
  IF d = "ROLLING_FORWARD"
  THEN {"INSTANCE_UPDATING", "INSTANCE_UPDATED", "INSTANCE_UPDATE_FAILED"}
  ELSE {"INSTANCE_ROLLING_BACK", "INSTANCE_ROLLED_BACK", "INSTANCE_ROLLBACK_FAILED"}

States == {"IDLE", "WORKING", "SUCCEEDED", "FAILED"}

\* The instance has got to an end in this direction.
Ended(es, d) ==
  STATE_MAP[d].SUCCEEDED \in Range(es) \/ STATE_MAP[d].FAILED \in Range(es)

(* What the events of an instance say, whatever updaters it has had; w says  *)
(* whether there has been something to do.                                   *)
Recorded(es, d, w) ==
  /\ Ended(es, d) => /\ STATE_MAP[d].WORKING \in Range(es)
                     /\ es[Len(es)] # STATE_MAP[d].WORKING
  /\ es = <<>> <=> ~w
  /\ d = "ROLLING_FORWARD" => Range(es) \subseteq ActionsOf(d)
  /\ Range(es) \cap ActionsOf(d) # {} => es[Len(es)] \in ActionsOf(d)

\* And when an updater has it in the state st.
Kept(es, d, st, w) ==
  /\ Recorded(es, d, w)
  /\ st = "WORKING" => w /\ STATE_MAP[d].WORKING \in Range(es)
  /\ st \in {"SUCCEEDED", "FAILED"} => es = <<>> \/ Ended(es, d)

LEMMA MapFacts ==
  ASSUME NEW d \in Directions
  PROVE  /\ \A c \in {"WORKING", "SUCCEEDED", "FAILED"} :
              STATE_MAP[d][c] \in ActionsOf(d) /\ STATE_MAP[d][c] \in JobUpdateAction
         /\ STATE_MAP[d].WORKING # STATE_MAP[d].SUCCEEDED
         /\ STATE_MAP[d].WORKING # STATE_MAP[d].FAILED
         /\ STATE_MAP[d].SUCCEEDED # STATE_MAP[d].FAILED
  <1>1. CASE d = "ROLLING_FORWARD"
    BY <1>1 DEF STATE_MAP, ActionsOf, JobUpdateAction
  <1>2. CASE d = "ROLLING_BACK"
    BY <1>2 DEF STATE_MAP, ActionsOf, JobUpdateAction
  <1> QED BY <1>1, <1>2 DEF Directions

(* An event more, unless there is one already.                             *)
LEMMA SaveFacts ==
  ASSUME NEW es \in Seq(JobUpdateAction), NEW a \in JobUpdateAction
  PROVE  /\ Save(es, a) \in Seq(JobUpdateAction)
         /\ Save(es, a) # <<>>
         /\ Range(Save(es, a)) = Range(es) \cup {a}
         /\ a \in Range(es) => Save(es, a) = es
         /\ a \notin Range(es) => Save(es, a)[Len(Save(es, a))] = a
  <1>1. CASE a \in Range(es)
    <2>1. Save(es, a) = es
      BY <1>1 DEF Save
    <2>2. es # <<>>
      BY <1>1 DEF Range
    <2> QED BY <1>1, <2>1, <2>2
  <1>2. CASE a \notin Range(es)
    <2>1. Save(es, a) = Append(es, a)
      BY <1>2 DEF Save
    <2>2. /\ Append(es, a) \in Seq(JobUpdateAction)
          /\ Len(Append(es, a)) = Len(es) + 1
          /\ Append(es, a)[Len(es) + 1] = a
          /\ \A k \in 1..Len(es) : Append(es, a)[k] = es[k]
          /\ Len(es) \in Nat
      BY AppendProperties, LenProperties
    <2> DEFINE bs == Append(es, a)
    <2>3. DOMAIN es = 1..Len(es) /\ DOMAIN bs = 1..(Len(es) + 1)
      BY <2>2, LenProperties
    <2> HIDE DEF bs
    <2>4. {bs[k] : k \in DOMAIN bs} = {es[k] : k \in DOMAIN es} \cup {a}
      <3>1. 1..(Len(es) + 1) = 1..Len(es) \cup {Len(es) + 1}
        BY <2>2
      <3> QED BY <2>2, <2>3, <3>1 DEF bs
    <2>5. bs # <<>>
      BY <2>2 DEF bs
    <2> QED BY <1>2, <2>1, <2>2, <2>4, <2>5 DEF Range, bs
  <1> QED BY <1>1, <1>2

LEMMA SaveAdds ==
  ASSUME NEW es \in Seq(JobUpdateAction), NEW a \in JobUpdateAction
  PROVE  Save(es, a) \in Seq(JobUpdateAction) /\ Range(es) \subseteq Range(Save(es, a))
  BY SaveFacts

\* The changes that the update of an instance may make at once.
MayTurn(old, new) ==
  \/ new = old
  \/ old = "WORKING" /\ new # "IDLE"
  \/ old = "IDLE" /\ new # "FAILED"

\* Events are only added.
LEMMA RecordType ==
  ASSUME NEW d \in Directions, NEW es \in Seq(JobUpdateAction),
         NEW old \in States, NEW new \in States, MayTurn(old, new)
  PROVE  /\ Record(es, d, old, new) \in Seq(JobUpdateAction)
         /\ Range(es) \subseteq Range(Record(es, d, old, new))
  <1> DEFINE W == STATE_MAP[d].WORKING
             S == STATE_MAP[d].SUCCEEDED
  <1>1. W \in JobUpdateAction /\ S \in JobUpdateAction
    BY MapFacts
  <1>2. CASE new = old
    BY <1>2 DEF Record
  <1>3. CASE old = "WORKING" /\ new # "WORKING"
    <2>1. STATE_MAP[d][new] \in JobUpdateAction
      BY <1>3, MapFacts DEF MayTurn, States
    <2>2. Record(es, d, old, new) = Save(es, STATE_MAP[d][new])
      BY <1>3 DEF Record
    <2> QED BY <2>1, <2>2, SaveAdds
  <1>4. CASE old = "IDLE" /\ new = "WORKING"
    <2>1. Record(es, d, old, new) = Save(es, W)
      BY <1>4 DEF Record
    <2> HIDE DEF W
    <2> QED BY <1>1, <2>1, SaveAdds
  <1>5. CASE old = "IDLE" /\ new = "SUCCEEDED"
    <2>1. Record(es, d, old, new) = IF es = <<>> THEN es ELSE Save(Save(es, W), S)
      BY <1>5 DEF Record
    <2>2. Save(es, W) \in Seq(JobUpdateAction) /\ Range(es) \subseteq Range(Save(es, W))
      <3> HIDE DEF W
      <3> QED BY <1>1, SaveAdds
    <2>3. \A bs \in Seq(JobUpdateAction) :
            Save(bs, S) \in Seq(JobUpdateAction) /\ Range(bs) \subseteq Range(Save(bs, S))
      <3> HIDE DEF S
      <3> QED BY <1>1, SaveAdds
    <2> QED BY <2>1, <2>2, <2>3
  <1> QED BY <1>2, <1>3, <1>4, <1>5 DEF MayTurn, States

\* To save the last action of an instance that is being worked on.
LEMMA EndKept ==
  ASSUME NEW d \in Directions, NEW es \in Seq(JobUpdateAction),
         Recorded(es, d, TRUE), STATE_MAP[d].WORKING \in Range(es),
         NEW c \in {"SUCCEEDED", "FAILED"}
  PROVE  LET bs == Save(es, STATE_MAP[d][c])
         IN  Recorded(bs, d, TRUE) /\ Ended(bs, d)
  <1> DEFINE W == STATE_MAP[d].WORKING
             T == STATE_MAP[d][c]
             bs == Save(es, T)
  <1>1. T \in ActionsOf(d) /\ T \in JobUpdateAction /\ T # W
    BY MapFacts
  <1>2. /\ bs # <<>> /\ Range(bs) = Range(es) \cup {T}
        /\ T \in Range(es) => bs = es
        /\ T \notin Range(es) => bs[Len(bs)] = T
    BY <1>1, SaveFacts
  <1>3. Ended(bs, d)
    <2>1. T \in Range(bs) /\ T \in {STATE_MAP[d].SUCCEEDED, STATE_MAP[d].FAILED}
      BY <1>2
    <2> QED BY <2>1 DEF Ended
  <1>4. CASE T \in Range(es)
    BY <1>2, <1>3, <1>4
  <1>5. CASE T \notin Range(es)
    <2> HIDE DEF bs, T
    <2>1. bs[Len(bs)] = T /\ bs[Len(bs)] # STATE_MAP[d].WORKING /\ bs[Len(bs)] \in ActionsOf(d)
      BY <1>1, <1>2, <1>5
    <2>2. STATE_MAP[d].WORKING \in Range(bs)
      BY <1>2
    <2>3. d = "ROLLING_FORWARD" => Range(bs) \subseteq ActionsOf(d)
      BY <1>1, <1>2 DEF Recorded
    <2> QED BY <1>2, <1>3, <2>1, <2>2, <2>3 DEF Recorded, bs, T
  <1> QED BY <1>4, <1>5

\* To save the first action of an instance.
LEMMA StartKept ==
  ASSUME NEW d \in Directions, NEW es \in Seq(JobUpdateAction), NEW w \in BOOLEAN,
         Recorded(es, d, w)
  PROVE  LET bs == Save(es, STATE_MAP[d].WORKING)
         IN  Recorded(bs, d, TRUE) /\ STATE_MAP[d].WORKING \in Range(bs)
  <1> DEFINE W == STATE_MAP[d].WORKING
             bs == Save(es, W)
  <1>1. /\ W \in ActionsOf(d) /\ W \in JobUpdateAction
        /\ W # STATE_MAP[d].SUCCEEDED /\ W # STATE_MAP[d].FAILED
    BY MapFacts
  <1>2. /\ bs # <<>> /\ Range(bs) = Range(es) \cup {W}
        /\ W \in Range(es) => bs = es
        /\ W \notin Range(es) => bs[Len(bs)] = W
    BY <1>1, SaveFacts
  <1>3. CASE W \in Range(es)
    BY <1>2, <1>3 DEF Recorded
  <1>4. CASE W \notin Range(es)
    <2> HIDE DEF bs
    <2>1. ~Ended(es, d)
      BY <1>4 DEF Recorded
    <2>2. ~Ended(bs, d)
      BY <1>1, <1>2, <2>1 DEF Ended
    <2>3. d = "ROLLING_FORWARD" => Range(bs) \subseteq ActionsOf(d)
      BY <1>1, <1>2 DEF Recorded
    <2>4. Recorded(bs, d, TRUE)
      BY <1>1, <1>2, <1>4, <2>2, <2>3 DEF Recorded
    <2> QED BY <1>2, <2>4 DEF bs
  <1> QED BY <1>3, <1>4

(* One evaluation of an instance.                                          *)
LEMMA RecordKeeps ==
  ASSUME NEW d \in Directions, NEW es \in Seq(JobUpdateAction), NEW w \in BOOLEAN,
         NEW old \in States, NEW new \in States, MayTurn(old, new),
         Kept(es, d, old, w)
  PROVE  Kept(Record(es, d, old, new), d, new, w \/ new = "WORKING")
  <1> DEFINE bs == Save(es, STATE_MAP[d].WORKING)
  <1>1. CASE new = old
    <2>1. Record(es, d, old, new) = es
      BY <1>1 DEF Record
    <2> QED BY <1>1, <2>1 DEF Kept, Recorded
  <1>2. CASE old = "WORKING" /\ new # "WORKING"
    <2>1. new \in {"SUCCEEDED", "FAILED"} /\ w = TRUE
      BY <1>2 DEF MayTurn, States, Kept
    <2>2. Record(es, d, old, new) = Save(es, STATE_MAP[d][new])
      BY <1>2 DEF Record
    <2>3. Recorded(es, d, TRUE) /\ STATE_MAP[d].WORKING \in Range(es)
      BY <1>2, <2>1 DEF Kept
    <2>4. Recorded(Record(es, d, old, new), d, TRUE) /\ Ended(Record(es, d, old, new), d)
      BY <2>1, <2>2, <2>3, EndKept
    <2> QED BY <1>2, <2>1, <2>4 DEF Kept
  <1>3. CASE old = "IDLE" /\ new = "WORKING"
    <2>1. Record(es, d, old, new) = bs
      BY <1>3 DEF Record
    <2>2. Recorded(bs, d, TRUE) /\ STATE_MAP[d].WORKING \in Range(bs)
      BY StartKept DEF Kept
    <2> QED BY <1>3, <2>1, <2>2 DEF Kept
  <1>4. CASE old = "IDLE" /\ new = "SUCCEEDED" /\ es = <<>>
    <2>1. Record(es, d, old, new) = es
      BY <1>4 DEF Record
    <2> QED BY <1>4, <2>1 DEF Kept, Recorded
  <1>5. CASE old = "IDLE" /\ new = "SUCCEEDED" /\ es # <<>>
    <2>1. Record(es, d, old, new) = Save(bs, STATE_MAP[d]["SUCCEEDED"])
      BY <1>5 DEF Record
    <2>2. Recorded(bs, d, TRUE) /\ STATE_MAP[d].WORKING \in Range(bs)
      BY StartKept DEF Kept
    <2>3. bs \in Seq(JobUpdateAction)
      BY MapFacts, SaveFacts
    <2> HIDE DEF bs
    <2>4. Recorded(Record(es, d, old, new), d, TRUE) /\ Ended(Record(es, d, old, new), d)
      BY <2>1, <2>2, <2>3, EndKept
    <2>5. w = TRUE
      BY <1>5 DEF Kept, Recorded
    <2> QED BY <1>5, <2>4, <2>5 DEF Kept
  <1> QED BY <1>1, <1>2, <1>3, <1>4, <1>5 DEF MayTurn, States

(* The instances of an update are finitely many.                           *)
LEMMA IdsFinite == IsFiniteSet(getAllInstanceIds)
  <1>1. ASSUME NEW rs \in Seq([first : Nat, last : Nat])
        PROVE  IsFiniteSet(idsFromRanges(rs))
    <2> DEFINE R == {rs[i].first..rs[i].last : i \in DOMAIN rs}
               f == [i \in DOMAIN rs |-> rs[i].first..rs[i].last]
    <2>1. DOMAIN rs = 1..Len(rs) /\ Len(rs) \in Nat
      OBVIOUS
    <2>2. IsFiniteSet(DOMAIN rs)
      BY <2>1, FS_Interval
    <2>3. f \in Surjection(DOMAIN rs, R)
      BY DEF Surjection
    <2>4. IsFiniteSet(R)
      BY <2>2, <2>3, FS_Surjection
    <2>5. \A T \in R : IsFiniteSet(T)
      <3>1. \A i \in DOMAIN rs : rs[i].first \in Int /\ rs[i].last \in Int
        <4>1. \A i \in 1..Len(rs) : rs[i] \in [first : Nat, last : Nat]
          BY ElementOfSeq
        <4> QED BY <2>1, <4>1
      <3> QED BY <3>1, FS_Interval
    <2> HIDE DEF R
    <2>6. IsFiniteSet(UNION R)
      BY <2>4, <2>5, FS_UNION
    <2> QED BY <2>6 DEF R, idsFromRanges
  <1>2. /\ initialState \in Seq([first : Nat, last : Nat])
        /\ desiredState \in Seq([first : Nat, last : Nat])
    BY RangesAssumption DEF RangesAssumption
  <1>3. IsFiniteSet(oldIds) /\ IsFiniteSet(newIds)
    BY <1>1, <1>2 DEF oldIds, newIds
  <1> QED BY <1>3, FS_Union DEF getAllInstanceIds

UpdateStatus ==
  {"ROLLING_FORWARD", "ROLLING_BACK", "ROLL_FORWARD_PAUSED", "ROLL_BACK_PAUSED",
   "ROLLED_FORWARD", "ROLLED_BACK", "ABORTED", "ERROR", "FAILED"}

UpdateType ==
  [status : UpdateStatus, inst : [instances -> States],
   events : [instances -> Seq(JobUpdateAction)], worked : SUBSET instances]

Finished == {"ROLLED_FORWARD", "ROLLED_BACK"}

\* What is known of an update: nothing of the instances in x.
Sound(u, x) ==
  /\ u \in UpdateType
  /\ u.status \notin {"ABORTED", "ERROR", "FAILED"} =>
       \A i \in instances \ x :
         Kept(u.events[i], Direction(u.status), u.inst[i], i \in u.worked)
  /\ u.status \in Finished =>
       \A i \in instances \ x :
         u.events[i] = <<>> \/ Ended(u.events[i], Direction(u.status))

\* No event is lost.
More(u, v) == \A i \in instances : Range(u.events[i]) \subseteq Range(v.events[i])

LEMMA NextStatesMay ==
  ASSUME NEW old \in [instances -> States], NEW new \in NextStates(old)
  PROVE  /\ new \in [instances -> States]
         /\ \A i \in instances : MayTurn(old[i], new[i])
  BY DEF NextStates, States, MayTurn

\* What has been recorded forward is the start of a way back.
LEMMA ForwardThenBack ==
  ASSUME NEW es \in Seq(JobUpdateAction), NEW w \in BOOLEAN,
         Recorded(es, "ROLLING_FORWARD", w)
  PROVE  Recorded(es, "ROLLING_BACK", w)
  <1>1. Range(es) \subseteq ActionsOf("ROLLING_FORWARD")
    BY DEF Recorded
  <1>2. Range(es) \cap ActionsOf("ROLLING_BACK") = {}
    BY <1>1 DEF ActionsOf
  <1>3. ~Ended(es, "ROLLING_BACK")
    BY <1>2, MapFacts DEF Ended, Directions
  <1>4. es = <<>> <=> ~w
    BY DEF Recorded
  <1> QED BY <1>2, <1>3, <1>4 DEF Recorded

(* An evaluation, whether the update goes on, ends or turns round.         *)
LEMMA EvaluatedSound ==
  ASSUME NEW x, NEW u, Sound(u, x), u.status \in Directions,
         NEW new \in NextStates(u.inst)
  PROVE  /\ Sound(Evaluated(u, new), x)
         /\ More(u, Evaluated(u, new))
  <1> DEFINE d == u.status
             s == StatusAfter(d, new)
             v == Evaluated(u, new)
             es(i) == Record(u.events[i], d, u.inst[i], new[i])
             w(i) == i \in u.worked \/ new[i] = "WORKING"
  <1>1. /\ u \in UpdateType /\ d \in Directions
        /\ u.inst \in [instances -> States]
        /\ u.events \in [instances -> Seq(JobUpdateAction)]
        /\ u.worked \in SUBSET instances
    BY DEF Sound, UpdateType
  <1>2. /\ new \in [instances -> States]
        /\ \A i \in instances : MayTurn(u.inst[i], new[i])
    BY <1>1, NextStatesMay
  <1>3. /\ v.status = s
        /\ v.inst = IF s = d THEN new ELSE AllIdle
        /\ v.events = [i \in instances |-> es(i)]
        /\ v.worked = u.worked \cup ByState(new, "WORKING")
        /\ v = [status |-> v.status, inst |-> v.inst, events |-> v.events, worked |-> v.worked]
    BY DEF Evaluated
  <1>4. \A i \in instances :
          es(i) \in Seq(JobUpdateAction) /\ Range(u.events[i]) \subseteq Range(es(i))
    BY <1>1, <1>2, RecordType
  <1>5. \A i \in instances : i \in v.worked <=> w(i)
    BY <1>3 DEF ByState
  <1>6. s \in UpdateStatus
    BY <1>1 DEF StatusAfter, UpdateStatus, Directions
  <1>7. v \in UpdateType
    <2>1. AllIdle \in [instances -> States]
      BY DEF AllIdle, States
    <2>2. v.inst \in [instances -> States]
      BY <1>2, <1>3, <2>1
    <2>3. v.events \in [instances -> Seq(JobUpdateAction)]
      BY <1>3, <1>4
    <2>4. v.worked \in SUBSET instances
      BY <1>1, <1>3 DEF ByState
    <2> HIDE DEF v
    <2> QED BY <1>3, <1>6, <2>2, <2>3, <2>4 DEF UpdateType
  <1>8. ASSUME NEW i \in instances \ x
        PROVE  Kept(es(i), d, new[i], w(i))
    <2>1. Kept(u.events[i], d, u.inst[i], i \in u.worked)
      <3>1. d \notin {"ABORTED", "ERROR", "FAILED"} /\ Direction(d) = d
        BY <1>1 DEF Directions, Direction
      <3> QED BY <3>1 DEF Sound
    <2>2. /\ u.events[i] \in Seq(JobUpdateAction) /\ u.inst[i] \in States
          /\ new[i] \in States /\ MayTurn(u.inst[i], new[i])
          /\ (i \in u.worked) \in BOOLEAN
      BY <1>1, <1>2
    <2> HIDE DEF d
    <2> QED BY <1>1, <2>1, <2>2, RecordKeeps
  <1>9. ASSUME NEW i \in instances \ x, s \notin {"ABORTED", "ERROR", "FAILED"}
        PROVE  Kept(v.events[i], Direction(s), v.inst[i], i \in v.worked)
    <2>1. v.events[i] = es(i) /\ (i \in v.worked <=> w(i))
      BY <1>3, <1>5
    <2>2. Recorded(es(i), d, w(i))
      BY <1>8 DEF Kept
    <2>3. CASE s = d
      <3>1. Direction(s) = d /\ v.inst[i] = new[i]
        BY <1>1, <1>3, <2>3 DEF Direction, Directions
      <3>2. Kept(es(i), d, new[i], w(i))
        BY <1>8
      <3> QED BY <2>1, <3>1, <3>2 DEF Kept, Recorded
    <2>4. CASE s # d
      <3>1. v.inst[i] = "IDLE"
        BY <1>3, <2>4 DEF AllIdle
      <3>2. Direction(s) = d \/ (d = "ROLLING_FORWARD" /\ Direction(s) = "ROLLING_BACK")
        <4>1. \/ s = d \/ s = "FAILED"
              \/ d = "ROLLING_FORWARD" /\ s \in {"ROLLING_BACK", "ROLLED_FORWARD"}
              \/ d # "ROLLING_FORWARD" /\ s = "ROLLED_BACK"
          BY DEF StatusAfter
        <4> HIDE DEF s
        <4> QED BY <1>1, <1>9, <2>4, <4>1 DEF Direction, Directions
      <3>3. es(i) \in Seq(JobUpdateAction) /\ w(i) \in BOOLEAN
        BY <1>4
      <3> HIDE DEF es, d, s, w
      <3>4. Recorded(es(i), Direction(s), w(i))
        BY <2>2, <3>2, <3>3, ForwardThenBack
      <3> QED BY <2>1, <3>1, <3>4 DEF Kept, Recorded
    <2> QED BY <2>3, <2>4
  <1>10. ASSUME NEW i \in instances \ x, s \in Finished
         PROVE  v.events[i] = <<>> \/ Ended(v.events[i], Direction(s))
    <2>1. /\ ByState(new, "IDLE") \cup ByState(new, "WORKING") = {}
          /\ Direction(s) = d
      BY <1>1, <1>10 DEF StatusAfter, Finished, Directions, Direction
    <2>2. new[i] \in {"SUCCEEDED", "FAILED"}
      BY <1>2, <2>1 DEF ByState, States
    <2>3. v.events[i] = es(i)
      BY <1>3
    <2> QED BY <1>8, <2>1, <2>2, <2>3 DEF Kept
  <1>11. Sound(v, x)
    <2> HIDE DEF v, s
    <2> QED BY <1>3, <1>7, <1>9, <1>10 DEF Sound
  <1>12. More(u, v)
    BY <1>3, <1>4 DEF More
  <1> QED BY <1>11, <1>12

\* An update in progress that no updater works on.
LEMMA IdleSound ==
  ASSUME NEW x, NEW u, Sound(u, x), NEW s \in Directions,
         u.status \in {s, PauseState(s)}, NEW t \in {s, PauseState(s)}
  PROVE  LET n == [u EXCEPT !.status = t, !.inst = AllIdle]
         IN  Sound(n, x) /\ n.status = t /\ n.events = u.events
  <1> DEFINE n == [u EXCEPT !.status = t, !.inst = AllIdle]
  <1>1. /\ u \in UpdateType
        /\ {s, PauseState(s)} \subseteq UpdateStatus \ (Finished \cup {"ABORTED", "ERROR", "FAILED"})
        /\ Direction(u.status) = s /\ Direction(t) = s
    BY DEF Sound, PauseState, UpdateStatus, Finished, Direction, Directions
  <1>2. AllIdle \in [instances -> States] /\ \A i \in instances : AllIdle[i] = "IDLE"
    BY DEF AllIdle, States
  <1>3. /\ n \in UpdateType
        /\ n.status = t /\ n.inst = AllIdle /\ n.events = u.events /\ n.worked = u.worked
    BY <1>1, <1>2 DEF UpdateType
  <1>4. \A i \in instances \ x : Recorded(u.events[i], s, i \in u.worked)
    BY <1>1 DEF Sound, Kept
  <1>5. \A i \in instances \ x : Kept(n.events[i], s, n.inst[i], i \in n.worked)
    BY <1>2, <1>3, <1>4 DEF Kept
  <1> HIDE DEF n
  <1>6. Sound(n, x)
    BY <1>1, <1>3, <1>5 DEF Sound
  <1> QED BY <1>3, <1>6 DEF n

(* A new updater.                                                          *)
LEMMA FirstSound ==
  ASSUME NEW x, NEW u, Sound(u, x), NEW s \in Directions,
         u.status \in {s, PauseState(s)}, NEW v \in FirstEvaluation(u, s)
  PROVE  Sound(v, x) /\ More(u, v)
  <1> DEFINE n == [u EXCEPT !.status = s, !.inst = AllIdle]
             b == [u EXCEPT !.status = PauseState(s), !.inst = AllIdle]
  <1>1. Sound(n, x) /\ n.status = s /\ n.events = u.events
    BY IdleSound
  <1>2. Sound(b, x) /\ b.events = u.events
    BY IdleSound
  <1>3. [n EXCEPT !.status = PauseState(s)] = b
    BY DEF Sound, UpdateType
  <1>4. v \in Evaluations(n) \/ v = b
    BY <1>3 DEF FirstEvaluation
  <1> HIDE DEF n, b
  <1>5. CASE v = b
    BY <1>2, <1>5 DEF More
  <1>6. CASE v \in Evaluations(n)
    <2>1. PICK new \in NextStates(n.inst) : v = Evaluated(n, new)
      BY <1>6 DEF Evaluations
    <2>2. Sound(v, x) /\ More(n, v)
      BY <1>1, <2>1, EvaluatedSound
    <2> QED BY <1>1, <2>2 DEF More
  <1> QED BY <1>4, <1>5, <1>6

(* Of each instance with events, the latest is the last.                   *)
LEMMA LatestIsLast ==
  ASSUME NEW es \in [instances -> Seq(JobUpdateAction)]
  PROVE  LET latest == getLatestInstanceEvents(es, JobUpdateAction)
         IN  /\ DOMAIN latest = {i \in instances : es[i] # <<>>}
             /\ \A i \in DOMAIN latest : latest[i] = es[i][Len(es[i])]
  <1> DEFINE of(i) == {k \in DOMAIN es[i] : es[i][k] \in JobUpdateAction}
             latest == getLatestInstanceEvents(es, JobUpdateAction)
  <1>1. latest = [i \in {j \in DOMAIN es : of(j) # {}} |-> es[i][Max(of(i))]]
    BY DEF getLatestInstanceEvents
  <1>2. ASSUME NEW i \in instances
        PROVE  /\ of(i) # {} <=> es[i] # <<>>
               /\ es[i] # <<>> => Max(of(i)) = Len(es[i])
    <2>1. es[i] \in Seq(JobUpdateAction) /\ Len(es[i]) \in Nat /\ DOMAIN es[i] = 1..Len(es[i])
      BY LenProperties
    <2>2. of(i) = 1..Len(es[i])
      <3>1. \A k \in 1..Len(es[i]) : es[i][k] \in JobUpdateAction
        BY <2>1, ElementOfSeq
      <3> QED BY <2>1, <3>1
    <2>3. es[i] # <<>> <=> Len(es[i]) > 0
      BY <2>1, EmptySeq
    <2> HIDE DEF of
    <2>4. ASSUME Len(es[i]) > 0
          PROVE  Max(of(i)) = Len(es[i])
      <3> DEFINE n == Len(es[i])
      <3>1. n \in of(i) /\ \A y \in of(i) : n >= y
        BY <2>1, <2>2, <2>4
      <3>2. \A z \in of(i) : (\A y \in of(i) : z >= y) => z = n
        <4>1. \A z \in of(i) : z \in Int
          BY <2>2
        <4> HIDE DEF n
        <4> QED BY <2>1, <2>2, <3>1, <4>1 DEF n
      <3> QED BY <3>1, <3>2 DEF Max
    <2>5. of(i) # {} <=> Len(es[i]) > 0
      <3>1. \A n \in Nat : (1..n) # {} <=> n > 0
        <4>1. ASSUME NEW n \in Nat, n > 0
              PROVE  1 \in 1..n
          BY <4>1
        <4>2. ASSUME NEW n \in Nat, NEW k \in 1..n
              PROVE  n > 0
          OBVIOUS
        <4> QED BY <4>1, <4>2
      <3> QED BY <2>1, <2>2, <3>1
    <2> QED BY <2>3, <2>4, <2>5
  <1>3. DOMAIN es = instances
    OBVIOUS
  <1> HIDE DEF of
  <1> QED BY <1>1, <1>2, <1>3

\* The instances counted as updated.
LEMMA ProgressCounts ==
  ASSUME events \in [instances -> Seq(JobUpdateAction)]
  PROVE  progressFromEvents(events) = Cardinality(Been)
  <1> DEFINE successful == {a \in JobUpdateAction : isInstanceSuccessful(a)}
             of(i) == {k \in DOMAIN events[i] : events[i][k] \in successful}
  <1>1. successful = {"INSTANCE_UPDATED"}
    BY DEF isInstanceSuccessful, JobUpdateAction
  <1>2. DOMAIN getLatestInstanceEvents(events, successful) = {j \in DOMAIN events : of(j) # {}}
    BY DEF getLatestInstanceEvents
  <1>3. \A i \in instances : of(i) # {} <=> "INSTANCE_UPDATED" \in Range(events[i])
    BY <1>1 DEF Range
  <1>4. DOMAIN events = instances
    OBVIOUS
  <1> HIDE DEF of, successful
  <1>5. DOMAIN getLatestInstanceEvents(events, successful) = Been
    BY <1>2, <1>3, <1>4 DEF Been
  <1> QED BY <1>5 DEF progressFromEvents, successful

PagesInv ==
  /\ Sound(Update, unsaved)
  /\ shown.status \in Finished => status = shown.status
  /\ ProgressIsHonest

\* The variables of the update, taken together.
LEMMA UpdateIs ==
  ASSUME NEW u, u \in UpdateType, TurnsInto(u)
  PROVE  Update' = u
  BY DEF UpdateType, TurnsInto, Update

\* An instance of a finished update that storage and updater agree about.
LEMMA FinishedShows ==
  ASSUME PagesInv, status \in Finished, NEW i \in getAllInstanceIds \ unsaved
  PROVE  /\ fillInstanceSummary(events)[i] \notin {"INSTANCE_UPDATING", "INSTANCE_ROLLING_BACK"}
         /\ fillInstanceSummary(events)[i] = "pending" <=> i \notin worked
  <1> DEFINE latest == getLatestInstanceEvents(events, JobUpdateAction)
             d == Direction(status)
             summary == fillInstanceSummary(events)
  <1>1. /\ Update \in UpdateType
        /\ Update.status = status /\ Update.events = events /\ Update.worked = worked
    BY DEF PagesInv, Sound, Update
  <1>2. events \in [instances -> Seq(JobUpdateAction)] /\ worked \subseteq instances
    BY <1>1 DEF UpdateType
  <1>3. /\ DOMAIN latest = {j \in instances : events[j] # <<>>}
        /\ \A j \in DOMAIN latest : latest[j] = events[j][Len(events[j])]
    BY <1>2, LatestIsLast
  <1>4. summary[i] = IF i \notin DOMAIN latest THEN "pending"
                     ELSE IF isInstanceSuccessful(latest[i]) /\ i \in oldIds \ newIds
                     THEN "instance-removed" ELSE latest[i]
    BY DEF fillInstanceSummary
  <1> HIDE DEF latest, summary
  <1>5. CASE i \notin instances
    BY <1>2, <1>3, <1>4, <1>5 DEF summary
  <1>6. CASE i \in instances
    <2>1. status \notin {"ABORTED", "ERROR", "FAILED"}
      BY DEF Finished
    <2>2. Kept(events[i], d, inst[i], i \in worked)
      BY <1>1, <1>6, <2>1 DEF PagesInv, Sound, Update
    <2>3. Recorded(events[i], d, i \in worked)
      BY <2>2 DEF Kept
    <2>4. events[i] = <<>> \/ Ended(events[i], d)
      BY <1>1, <1>6 DEF PagesInv, Sound
    <2>5. CASE events[i] = <<>>
      BY <1>3, <1>4, <2>3, <2>5 DEF Recorded, summary
    <2>6. CASE events[i] # <<>>
      <3> DEFINE a == events[i][Len(events[i])]
      <3>1. i \in DOMAIN latest /\ latest[i] = a /\ i \in worked
        BY <1>3, <1>6, <2>3, <2>6 DEF Recorded
      <3>2. d \in Directions
        BY DEF Direction, Directions
      <3>3. a # STATE_MAP[d].WORKING /\ Range(events[i]) \cap ActionsOf(d) # {}
        <4>1. /\ STATE_MAP[d].SUCCEEDED \in ActionsOf(d)
              /\ STATE_MAP[d].FAILED \in ActionsOf(d)
          BY <3>2, MapFacts
        <4> QED BY <2>3, <2>4, <2>6, <4>1 DEF Recorded, Ended
      <3>4. a \in ActionsOf(d)
        BY <2>3, <3>3 DEF Recorded
      <3> HIDE DEF a, d
      <3>5. a \notin {"INSTANCE_UPDATING", "INSTANCE_ROLLING_BACK", "pending"}
        BY <3>2, <3>3, <3>4 DEF ActionsOf, STATE_MAP, Directions
      <3> QED BY <1>4, <3>1, <3>5 DEF summary
    <2> QED BY <2>5, <2>6
  <1> QED BY <1>5, <1>6

(* What an answer makes the page show.                                     *)
LEMMA AnswerIsHonest ==
  ASSUME PagesInv, ProgressAnswered
  PROVE  ProgressIsHonest' /\ (shown'.status \in Finished => status' = shown'.status)
  <1>1. UNCHANGED <<status, events, inst, worked, unsaved>>
    BY DEF ProgressAnswered, updateVars
  <1>2. Been' = Been
    BY <1>1 DEF Been
  <1>3. CASE desiredState = <<>>
    <2>1. shown' = shown
      BY <1>3 DEF ProgressAnswered
    <2> QED BY <1>1, <1>2, <2>1 DEF PagesInv, ProgressIsHonest
  <1>4. CASE desiredState # <<>>
    <2>1. events \in [instances -> Seq(JobUpdateAction)]
      BY DEF PagesInv, Sound, UpdateType, Update
    <2>2. /\ shown'.status = status
          /\ shown'.stats.total = Cardinality(getAllInstanceIds)
          /\ shown'.stats.updated = Cardinality(Been)
          /\ shown'.summary = fillInstanceSummary(events)
      BY <1>4, <2>1, ProgressCounts DEF ProgressAnswered, Details, getUpdateStats
    <2>3. ASSUME instances \subseteq getAllInstanceIds
          PROVE  /\ Cardinality(Been) <= Cardinality(getAllInstanceIds)
                 /\ Cardinality(Been) = Cardinality(getAllInstanceIds) =>
                      Been = getAllInstanceIds
      <3>1. Been \subseteq getAllInstanceIds
        BY <2>3 DEF Been
      <3> QED BY <3>1, IdsFinite, FS_Subset, FS_CardinalityType
    <2>4. getAllInstanceIds = oldIds \cup newIds
      BY DEF getAllInstanceIds
    <2>5. ASSUME shown'.status \in Finished, NEW i \in getAllInstanceIds \ unsaved'
          PROVE  /\ shown'.summary[i] \notin {"INSTANCE_UPDATING", "INSTANCE_ROLLING_BACK"}
                 /\ shown'.summary[i] = "pending" <=> i \notin worked'
      BY <1>1, <2>2, <2>5, FinishedShows
    <2> QED BY <1>1, <1>2, <2>2, <2>3, <2>4, <2>5 DEF ProgressIsHonest, Finished
  <1> QED BY <1>3, <1>4

(* A step of the scheduler.                                                *)
LEMMA UpdateStep ==
  ASSUME Sound(Update, unsaved),
         evaluateUpdater \/ EvaluationThrows \/ pause \/ resume \/ abort
  PROVE  /\ Sound(Update', unsaved')
         /\ More(Update, Update')
         /\ isInProgress(status)
         /\ shown' = shown
  <1>1. /\ Update \in UpdateType /\ status \in UpdateStatus
        /\ Update.status = status /\ Update.inst = inst /\ Update.events = events
        /\ Update.worked = worked
    BY DEF Sound, Update, UpdateType
  <1>2. shown' = shown
    BY DEF evaluateUpdater, EvaluationThrows, pause, resume, abort, pageVars
  <1>3. isInProgress(status)
    BY DEF evaluateUpdater, EvaluationThrows, pause, resume, abort, isInProgress, UPDATE_TERMINAL
  <1>4. CASE evaluateUpdater
    <2>1. status \in Directions /\ unsaved' = unsaved
      BY <1>4 DEF evaluateUpdater, Directions
    <2>2. PICK u \in Evaluations(Update) :
            IF status = "ROLLING_FORWARD" /\ u.status = "ROLLING_BACK"
            THEN \E v \in FirstEvaluation(u, "ROLLING_BACK") : TurnsInto(v)
            ELSE TurnsInto(u)
      BY <1>4 DEF evaluateUpdater
    <2>3. PICK new \in NextStates(Update.inst) : u = Evaluated(Update, new)
      BY DEF Evaluations
    <2>4. Sound(u, unsaved) /\ More(Update, u)
      BY <1>1, <2>1, <2>3, EvaluatedSound
    <2>5. CASE TurnsInto(u)
      <3>1. Update' = u
        BY <2>4, <2>5, UpdateIs DEF Sound
      <3> QED BY <1>2, <1>3, <2>1, <2>4, <3>1
    <2>6. CASE u.status = "ROLLING_BACK" /\
               \E v \in FirstEvaluation(u, "ROLLING_BACK") : TurnsInto(v)
      <3>1. PICK v \in FirstEvaluation(u, "ROLLING_BACK") : TurnsInto(v)
        BY <2>6
      <3>2. Sound(v, unsaved) /\ More(u, v)
        BY <2>4, <2>6, FirstSound DEF Directions
      <3>3. Update' = v
        BY <3>1, <3>2, UpdateIs DEF Sound
      <3>4. More(Update, v)
        BY <2>4, <3>2 DEF More
      <3> QED BY <1>2, <1>3, <2>1, <3>2, <3>3, <3>4
    <2> QED BY <2>2, <2>5, <2>6
  <1>5. CASE resume
    <2>1. PICK u \in FirstEvaluation(Update, RollingState(status)) : TurnsInto(u)
      BY <1>5 DEF resume
    <2>2. /\ RollingState(status) \in Directions
          /\ status \in {RollingState(status), PauseState(RollingState(status))}
      BY <1>1, <1>3 DEF UpdateStatus, isInProgress, UPDATE_TERMINAL, RollingState, PauseState,
                        Directions
    <2>3. Sound(u, unsaved) /\ More(Update, u)
      BY <1>1, <2>2, FirstSound
    <2>4. Update' = u /\ unsaved' = unsaved
      BY <1>5, <2>1, <2>3, UpdateIs DEF Sound, resume
    <2> QED BY <1>2, <1>3, <2>3, <2>4
  <1>6. CASE pause
    <2> DEFINE n == [Update EXCEPT !.status = PauseState(status), !.inst = AllIdle]
    <2>1. status \in Directions /\ unsaved' = unsaved
      BY <1>6 DEF pause, Directions
    <2>2. /\ Sound(n, unsaved)
          /\ n.status = PauseState(status) /\ n.inst = AllIdle
          /\ n.events = events /\ n.worked = worked
      <3>1. Sound(n, unsaved) /\ n.status = PauseState(status) /\ n.events = Update.events
        BY <1>1, <2>1, IdleSound
      <3>2. n.inst = AllIdle /\ n.worked = Update.worked
        <4>1. ASSUME NEW u \in UpdateType, NEW s
              PROVE  LET b == [u EXCEPT !.status = s, !.inst = AllIdle]
                     IN  b.inst = AllIdle /\ b.worked = u.worked
          BY DEF UpdateType
        <4> QED BY <1>1, <4>1
      <3> QED BY <1>1, <3>1, <3>2
    <2> HIDE DEF n
    <2>3. /\ Update'.status = n.status /\ Update'.inst = n.inst
          /\ Update'.events = n.events /\ Update'.worked = n.worked
      BY <1>6, <2>2 DEF pause, Update
    <2>4. Update' \in UpdateType
      <3>1. /\ n.status \in UpdateStatus /\ n.inst \in [instances -> States]
            /\ n.events \in [instances -> Seq(JobUpdateAction)] /\ n.worked \in SUBSET instances
        BY <2>2 DEF Sound, UpdateType
      <3> QED BY <2>3, <3>1 DEF Update, UpdateType
    <2>5. Sound(Update', unsaved)
      BY <2>2, <2>3, <2>4 DEF Sound
    <2> QED BY <1>1, <1>2, <1>3, <2>1, <2>2, <2>3, <2>5 DEF More
  <1>7. CASE abort
    <2>1. /\ status' \in {"ABORTED", "ERROR"} /\ inst' = AllIdle
          /\ UNCHANGED <<events, worked, unsaved>>
      BY <1>7 DEF abort
    <2>2. AllIdle \in [instances -> States] /\ {"ABORTED", "ERROR"} \subseteq UpdateStatus
      BY DEF AllIdle, States, UpdateStatus
    <2>3. Update' \in UpdateType
      BY <1>1, <2>1, <2>2 DEF Update, UpdateType
    <2>4. Update'.status = status' /\ Update'.events = events
      BY <2>1 DEF Update
    <2>5. Sound(Update', unsaved')
      BY <2>1, <2>3, <2>4 DEF Sound, Finished
    <2> QED BY <1>1, <1>2, <1>3, <2>4, <2>5 DEF More
  <1>8. CASE EvaluationThrows
    <2>1. /\ status \in Directions
          /\ UNCHANGED <<status, events, worked>>
      BY <1>8 DEF EvaluationThrows, Directions
    <2>2. PICK new \in NextStates(inst) :
            /\ inst' = new
            /\ unsaved' = unsaved \cup {i \in instances : new[i] # inst[i]}
      BY <1>8 DEF EvaluationThrows
    <2>3. inst' \in [instances -> States]
      BY <1>1, <2>2, NextStatesMay DEF UpdateType
    <2>4. Update' \in UpdateType
      BY <1>1, <2>1, <2>3 DEF Update, UpdateType
    <2>5. /\ Update'.status = status /\ Update'.events = events
          /\ Update'.worked = worked /\ Update'.inst = inst'
      BY <2>1 DEF Update
    <2>6. \A i \in instances \ unsaved' : i \in instances \ unsaved /\ inst'[i] = inst[i]
      BY <2>2
    <2>7. \A i \in instances \ unsaved : Kept(events[i], Direction(status), inst[i], i \in worked)
      BY <1>1, <2>1 DEF Sound, Directions
    <2>8. Sound(Update', unsaved')
      BY <2>1, <2>4, <2>5, <2>6, <2>7 DEF Sound, Directions, Finished
    <2> QED BY <1>1, <1>2, <1>3, <2>5, <2>8 DEF More
  <1> QED BY <1>4, <1>5, <1>6, <1>7, <1>8

\* Every step of the page.
LEMMA PagesStep == PagesInv /\ [PagesNext]_pagesVars => PagesInv'
  <1>1. SUFFICES ASSUME PagesInv, [PagesNext]_pagesVars
                 PROVE  PagesInv'
    OBVIOUS
  <1>2. ASSUME UNCHANGED <<updateVars, shown>>
        PROVE  PagesInv'
    BY <1>1, <1>2 DEF updateVars, PagesInv, ProgressIsHonest, Been, Update
  <1>3. CASE evaluateUpdater \/ EvaluationThrows \/ pause \/ resume \/ abort
    <2>1. /\ Sound(Update', unsaved') /\ More(Update, Update')
          /\ isInProgress(status) /\ shown' = shown
      BY <1>1, <1>3, UpdateStep DEF PagesInv
    <2>2. shown.status \notin Finished
      BY <1>1, <2>1 DEF PagesInv, isInProgress, UPDATE_TERMINAL, Finished
    <2>3. Been \subseteq Been' /\ Been' \subseteq instances
      BY <2>1 DEF More, Been, Update
    <2>4. ProgressIsHonest'
      BY <1>1, <2>1, <2>2, <2>3 DEF PagesInv, ProgressIsHonest, Finished, getAllInstanceIds
    <2> QED BY <2>1, <2>2, <2>4 DEF PagesInv
  <1>4. CASE ProgressAnswered
    <2>1. Update' = Update /\ unsaved' = unsaved
      BY <1>4 DEF ProgressAnswered, updateVars, Update
    <2> QED BY <1>1, <1>4, <2>1, AnswerIsHonest DEF PagesInv
  <1>5. CASE UNCHANGED pagesVars
    BY <1>2, <1>5 DEF pagesVars, pageVars
  <1>6. CASE getUpdatesForJob \/ getUpdateProgress \/ ProgressLost
    BY <1>2, <1>6 DEF getUpdatesForJob, getUpdateProgress, ProgressLost
  <1>7. CASE \E which \in DOMAIN lists :
               ListAsked(which) \/ ListAnswered(which) \/ ListLost(which)
    BY <1>2, <1>7 DEF ListAsked, ListAnswered, ListLost
  <1> QED BY <1>1, <1>3, <1>4, <1>5, <1>6, <1>7 DEF PagesNext

\* From its initial state, in any number of steps.
LEMMA PagesHold == PagesInit /\ [][PagesNext]_pagesVars => []PagesInv
  <1>1. PagesInit => PagesInv
    <2> SUFFICES ASSUME PagesInit PROVE PagesInv
      OBVIOUS
    <2> DEFINE n == [status |-> "ROLLING_FORWARD", inst |-> AllIdle, worked |-> {},
                     events |-> [i \in instances |-> <<>>]]
    <2>1. PICK u \in FirstEvaluation(n, "ROLLING_FORWARD") :
            status = u.status /\ inst = u.inst /\ events = u.events /\ worked = u.worked
      BY DEF PagesInit
    <2>2. unsaved = {} /\ shown.status = "none"
      BY DEF PagesInit
    <2>3. n \in UpdateType
      BY EmptySeq DEF UpdateType, UpdateStatus, AllIdle, States
    <2>4. ASSUME NEW i \in instances
          PROVE  Kept(n.events[i], "ROLLING_FORWARD", n.inst[i], i \in n.worked)
      <3>1. /\ n.events[i] = <<>> /\ n.inst[i] = "IDLE" /\ i \notin n.worked
            /\ Range(n.events[i]) = {}
        BY DEF AllIdle, Range
      <3> QED BY <3>1 DEF Kept, Recorded, Ended
    <2>5. Sound(n, unsaved)
      BY <2>2, <2>3, <2>4 DEF Sound, Direction, Finished
    <2>6. n.status = "ROLLING_FORWARD"
      OBVIOUS
    <2> HIDE DEF n
    <2>7. Sound(u, unsaved)
      BY <2>5, <2>6, FirstSound DEF Directions
    <2>8. Update = u
      BY <2>1, <2>7 DEF Sound, UpdateType, Update
    <2> QED BY <2>2, <2>7, <2>8 DEF PagesInv, ProgressIsHonest, Finished
  <1> QED BY <1>1, PagesStep, PTL

\* The calls of the pages, and what the page of an update shows.
PagesTypes ==
  /\ poll \in {"none", "summaries", "sent", "timer"}
  /\ lists \in [{"inProgress", "completed"} ->
                 [call : {"none", "sent", "timer"}, has : BOOLEAN]]
  /\ shown.status # "none" => DOMAIN shown.summary = getAllInstanceIds
  /\ lost \in 0..MaxLost

LEMMA PagesTypesStep == PagesTypes /\ [PagesNext]_pagesVars => PagesTypes'
  <1> SUFFICES ASSUME PagesTypes, [PagesNext]_pagesVars
               PROVE  PagesTypes'
    OBVIOUS
  <1>1. CASE UNCHANGED pagesVars
    BY <1>1 DEF pagesVars, pageVars, PagesTypes
  <1>2. CASE \/ evaluateUpdater \/ EvaluationThrows \/ pause \/ resume \/ abort
             \/ getUpdatesForJob \/ getUpdateProgress
    BY <1>2 DEF evaluateUpdater, EvaluationThrows, pause, resume, abort, pageVars,
                getUpdatesForJob, getUpdateProgress, PagesTypes
  <1>3. CASE ProgressAnswered
    <2>1. shown'.status # "none" => DOMAIN shown'.summary = getAllInstanceIds
      BY <1>3 DEF ProgressAnswered, Details, fillInstanceSummary, PagesTypes
    <2>2. poll' \in {"none", "timer"} /\ UNCHANGED <<lists, lost>>
      BY <1>3 DEF ProgressAnswered
    <2> QED BY <2>1, <2>2 DEF PagesTypes
  <1>4. ASSUME lost < MaxLost, lost' = lost + 1
        PROVE  lost' \in 0..MaxLost
    BY <1>4, LostAssumption DEF PagesTypes
  <1>5. CASE ProgressLost
    <2>1. poll' = "none" /\ UNCHANGED <<lists, shown>> /\ lost' \in 0..MaxLost
      BY <1>4, <1>5 DEF ProgressLost
    <2> QED BY <2>1 DEF PagesTypes
  <1>6. ASSUME NEW which \in DOMAIN lists,
               ListAsked(which) \/ ListAnswered(which) \/ ListLost(which)
        PROVE  PagesTypes'
    <2>1. Listed(which) \in BOOLEAN
      BY DEF Listed
    <2> DEFINE List == [call : {"none", "sent", "timer"}, has : BOOLEAN]
    <2>a. lists \in [{"inProgress", "completed"} -> List] /\ lists[which] \in List
      BY DEF PagesTypes
    <2>b. /\ [lists[which] EXCEPT !.call = "sent"] \in List
          /\ [call |-> "timer", has |-> Listed(which)] \in List
          /\ [call |-> "timer", has |-> FALSE] \in List
      BY <2>1, <2>a
    <2> HIDE DEF List
    <2>c. \E l \in List : lists' = [lists EXCEPT ![which] = l]
      <3>1. CASE ListAsked(which)
        <4>1. lists' = [lists EXCEPT ![which] = [lists[which] EXCEPT !.call = "sent"]]
          BY <3>1, <2>a DEF ListAsked
        <4> QED BY <2>b, <4>1
      <3>2. CASE ListAnswered(which)
        BY <2>b, <3>2 DEF ListAnswered
      <3>3. CASE ListLost(which)
        BY <2>b, <3>3 DEF ListLost
      <3> QED BY <1>6, <3>1, <3>2, <3>3
    <2>2. /\ lists' \in [{"inProgress", "completed"} -> List]
          /\ UNCHANGED <<poll, shown>>
      BY <1>6, <2>a, <2>c DEF ListAsked, ListAnswered, ListLost
    <2>3. lost' \in 0..MaxLost
      BY <1>4, <1>6 DEF ListAsked, ListAnswered, ListLost, PagesTypes
    <2> QED BY <2>2, <2>3 DEF PagesTypes, List
  <1> QED BY <1>1, <1>2, <1>3, <1>5, <1>6 DEF PagesNext

LEMMA PagesTypesHold == PagesInit /\ [][PagesNext]_pagesVars => []PagesTypes
  <1>1. PagesInit => PagesTypes
    <2> SUFFICES ASSUME PagesInit PROVE PagesTypes
      OBVIOUS
    <2>1. poll \in {"none", "summaries", "sent", "timer"}
      BY DEF PagesInit
    <2>2. lost \in 0..MaxLost /\ shown.status = "none"
      BY LostAssumption DEF PagesInit
    <2>3. lists \in [{"inProgress", "completed"} ->
                     [call : {"none", "sent", "timer"}, has : BOOLEAN]]
      BY DEF PagesInit
    <2> QED BY <2>1, <2>2, <2>3 DEF PagesTypes
  <1> QED BY <1>1, PagesTypesStep, PTL

LEMMA PagesTyped == PagesTypes => PagesTypeOK
  BY DEF PagesTypes, PagesTypeOK

(***************************************************************************)
(* The page of an update claims neither more nor less than has happened:   *)
(* all instances are shown as updated only if every one has been, and once *)
(* the update has rolled forward or back, no instance is shown in progress *)
(* and one is pending exactly if there was nothing to do for it, for every *)
(* scope, number of tolerated failures, pause and failover.                *)
(***************************************************************************)
THEOREM PagesAreHonest == PagesSpec => []ProgressIsHonest
  <1>1. PagesInv => ProgressIsHonest
    BY DEF PagesInv
  <1> QED BY <1>1, PagesHold, PTL DEF PagesSpec

-----------------------------------------------------------------------------
(* The browser.                                                            *)

(* A step of the browser is a step of the page that is open, and leaves    *)
(* the others alone.                                                       *)
LEMMA PageOpen ==
  [WebNext]_webVars => /\ [PailerNext]_pailerVars
                       /\ [GraphNext]_graphVars
                       /\ [ConsoleNext]_consoleVars
                       /\ [PagesNext]_pagesVars
  BY DEF WebNext, webVars

LEMMA PagesOpen ==
  WebSpec => /\ PailerInit /\ [][PailerNext]_pailerVars
             /\ GraphInit /\ [][GraphNext]_graphVars
             /\ ConsoleInit /\ [][ConsoleNext]_consoleVars
             /\ PagesInit /\ [][PagesNext]_pagesVars
  <1>1. WebInit => PailerInit /\ GraphInit /\ ConsoleInit /\ PagesInit
    BY DEF WebInit
  <1> QED BY <1>1, PageOpen, PTL DEF WebSpec

(***************************************************************************)
(* Whichever page is open, the variables of every page keep their types:   *)
(* the text is within the file and the user within the text, no two calls  *)
(* share a slot, at most one request for data is on its way, a row of the  *)
(* table is of the job with its key, only jobs submitted are being sent.   *)
(***************************************************************************)
THEOREM WebTypes == WebSpec => []WebTypeOK
  <1>1. PailerInv /\ GraphInv /\ GraphTypes /\ TableInv /\ FormInv /\ PagesTypes => WebTypeOK
    BY PailerTyped, GraphTyped, ConsoleTyped, PagesTyped DEF WebTypeOK
  <1> QED BY <1>1, PagesOpen, PailerHolds, GraphHolds, GraphTypesHold, TableHolds,
             FormHolds, PagesTypesHold, PTL

(***************************************************************************)
(* What is proved of each page alone is true of the browser.               *)
(***************************************************************************)
THEOREM WebPagesAreTrue ==
  WebSpec => /\ [](TextMatchesFile /\ PointsInOrder /\ TableIsComplete /\ ProgressIsHonest)
             /\ OrderedAsArranged
  <1>1. PailerInv /\ GraphInv /\ TableInv /\ PagesInv =>
          TextMatchesFile /\ PointsInOrder /\ TableIsComplete /\ ProgressIsHonest
    <2>1. PailerInv => TextMatchesFile
      BY DEF PailerInv, Shown, TextMatchesFile
    <2>2. GraphInv => PointsInOrder
      BY DEF GraphInv, DataInv, Consecutive, OwnColumns, AsMany, PointsInOrder
    <2>3. PagesInv => ProgressIsHonest
      BY DEF PagesInv
    <2> QED BY <2>1, <2>2, <2>3, TableRests
  <1> QED BY <1>1, PagesOpen, PailerHolds, GraphHolds, TableHolds, FormHolds, PagesHold, PTL

=============================================================================
