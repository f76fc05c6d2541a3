----------------------------- MODULE LogPailer -----------------------------
(***************************************************************************)
(* The viewer of a log file in the Thermos observer (jquery.pailer.js): it *)
(* shows the last page of a file, tails it, and pages backwards when the   *)
(* user scrolls to the top.  Reads are asynchronous; several may be in     *)
(* flight, and an answer shows the file as it was at some moment between   *)
(* the request and the answer.  The text is the sequence of the offsets of *)
(* the bytes shown, a byte is a line of the element, and markup, which     *)
(* makes the lengths of the text and of the file differ, is left out.      *)
(***************************************************************************)
EXTENDS Integers, Sequences, FiniteSets, FiniteSetsExt

CONSTANTS PageSize,        \* settings.page_size
          TruncateLength,  \* settings.truncate_length
          Height,          \* element.height()
          Newlines,        \* the offsets of the file that hold '\n'
          MaxFile,         \* bound: length of the file
          MaxScrolls,      \* bound: times the user scrolls
          MaxReadErrors,   \* bound: reads that fail
          MaxCalls         \* bound: reads in flight and timers

ASSUME PailerSizes == /\ {PageSize, TruncateLength, Height} \subseteq Nat \ {0}
                      /\ Height < TruncateLength
                      /\ {MaxFile, MaxCalls} \subseteq Nat

VARIABLES
  file,      \* length of the log file, written by the process
  pailer,    \* the fields of the Pailer that change
  text,      \* element.html(): the offsets shown
  top,       \* element.scrollTop()
  scrolled,  \* a scroll event is waiting to be dispatched
  calls,     \* reads in flight and timers, each in a slot
  scrolls, readErrors,
  overlap    \* history: reads have disturbed each other since initialize

pailerVars == <<file, pailer, text, top, scrolled, calls, scrolls, readErrors, overlap>>

Bytes(first, length) == [i \in 1..length |-> first + i - 1]

ScrollHeight(t) == Max({Len(t), Height})

AtBottom == top + Height >= ScrollHeight(text)

Slots == 1..MaxCalls

(* A read in flight, or the timer that will start one, without its slot. *)
Read(do, offset, length, buffer) ==
  [slot |-> 0, do |-> do, at |-> "read", offset |-> offset, length |-> length,
   buffer |-> buffer, size |-> file]

Timer(do) ==
  [slot |-> 0, do |-> do, at |-> "timer", offset |-> 0, length |-> 0,
   buffer |-> <<>>, size |-> 0]

(* The handler of the call `done` ends and makes the calls `new`. *)
Becomes(done, new) ==
  LET left == calls \ done
      slots == Slots \ {c.slot : c \in left}
  IN  /\ new # {} => slots # {}
      /\ calls' = left \cup {[c EXCEPT !.slot = Min(slots)] : c \in new}

-----------------------------------------------------------------------------
(* initialize() and the callbacks of its read. *)

Initialized(size) ==
  LET at == IF size > PageSize THEN size - PageSize ELSE 0
  IN  [pailer EXCEPT !.start = at, !.end = at, !.initialized = TRUE]

InitializeAnswered(c) ==
  /\ \E size \in c.size..file : pailer' = Initialized(size)
  /\ text' = <<>>
  /\ top' = 0
  /\ scrolled' = (scrolled \/ top # 0)
  /\ Becomes({c}, {Timer("tail")})

-----------------------------------------------------------------------------
(* page(): at most one, and not before the file is known. *)

Pages == pailer.initialized /\ ~pailer.paging /\ pailer.start # 0

PageRead ==
  LET offset == pailer.start - PageSize
  IN  IF offset < 0 THEN Read("page", 0, pailer.start, <<>>)
                    ELSE Read("page", offset, PageSize, <<>>)

Page(done) ==
  /\ pailer' = [pailer EXCEPT !.paging = @ \/ Pages]
  /\ Becomes(done, IF Pages THEN {PageRead} ELSE {})

(* The text after the first newline; all of it when it has none. *)
Newline(bytes) == {i \in DOMAIN bytes : bytes[i] \in Newlines}

AfterNewline(bytes) ==
  IF Newline(bytes) = {} THEN bytes
  ELSE SubSeq(bytes, Min(Newline(bytes)) + 1, Len(bytes))

(* A page may be answered with less than was asked for (a negative length   *)
(* asks for all), the rest is then read at once.                            *)
PageAnswered(c) ==
  LET all == IF c.length < 0 THEN file - c.offset ELSE Min({c.length, file - c.offset})
  IN \E n \in 1..all :
       LET read  == c.buffer \o Bytes(c.offset, n)
           first == c.offset - Len(c.buffer)
           kept  == IF first = 0 THEN read ELSE AfterNewline(read)
       IN  IF n < c.length
           THEN /\ Becomes({c}, {Read("page", c.offset + n, c.length - n, read)})
                /\ UNCHANGED <<pailer, text, top, scrolled>>
           ELSE /\ pailer' = [pailer EXCEPT !.start = first + Len(read) - Len(kept),
                                            !.paging = FALSE]
                /\ text' = kept \o text
                /\ top' = top + ScrollHeight(text') - ScrollHeight(text)
                /\ scrolled' = (scrolled \/ top' # top)
                /\ Becomes({c}, {})

-----------------------------------------------------------------------------
(* tail(), which goes on as long as the user is at the bottom, and          *)
(* truncate().                                                              *)

TailRead == IF pailer.initialized THEN {Read("tail", pailer.end, TruncateLength, <<>>)} ELSE {}

\* Mutation: keeps the beginning of the text.
TruncatedAtEnd(t) == SubSeq(t, 1, TruncateLength)

Truncated(t) == SubSeq(t, Len(t) - TruncateLength + 1, Len(t))

Shows(c, n) ==
  LET fresh == pailer.start = pailer.end /\ c.offset # 0
      read  == Bytes(c.offset, n)
      kept  == IF fresh THEN AfterNewline(read) ELSE read
      grown == text \o kept
      end   == c.offset + n
      cut   == Len(grown) >= TruncateLength
      start == IF cut THEN end - TruncateLength
               ELSE IF fresh THEN end - Len(kept) ELSE pailer.start
  IN  /\ pailer' = [pailer EXCEPT !.start = start, !.end = end]
      /\ text' = IF cut THEN Truncated(grown) ELSE grown
      /\ top' = Min({top + ScrollHeight(grown) - ScrollHeight(text),
                     ScrollHeight(text') - Height})

\* Mutation: a loop that ends does not say so.
TailEndsQuietly(c) ==
  /\ ~AtBottom
  /\ Becomes({c}, {})
  /\ UNCHANGED <<pailer, text, top, scrolled>>

TailEnds(c) ==
  /\ ~AtBottom
  /\ pailer' = [pailer EXCEPT !.tailing = FALSE]
  /\ Becomes({c}, {})
  /\ UNCHANGED <<text, top, scrolled>>

TailGoesOn(c) ==
  /\ AtBottom
  /\ \E size \in c.size..file :
       LET n == Min({TruncateLength, size - c.offset})
       IN  IF n > 0 THEN Shows(c, n) ELSE UNCHANGED <<pailer, text, top>>
  /\ scrolled' = (scrolled \/ top' # top)
  /\ Becomes({c}, {Timer("tail")})

-----------------------------------------------------------------------------
(* The browser: answers, errors, timers and scroll events, in any order.    *)

Answered(slot) ==
  /\ \E c \in calls : /\ c.slot = slot /\ c.at = "read"
                      /\ CASE c.do = "init" -> InitializeAnswered(c)
                           [] c.do = "page" -> PageAnswered(c)
                           [] c.do = "tail" -> TailEnds(c) \/ TailGoesOn(c)
  /\ UNCHANGED <<file, scrolls, readErrors>>

(* A failed tail starts again from initialize(); a failed page tries page() *)
(* again, which finds `paging` still set.                                   *)
Failed(slot) ==
  /\ readErrors < MaxReadErrors
  /\ readErrors' = readErrors + 1
  /\ \E c \in calls :
       /\ c.slot = slot /\ c.at = "read"
       /\ pailer' = [pailer EXCEPT !.initialized = @ /\ c.do # "tail"]
       /\ Becomes({c}, {Timer(IF c.do = "page" THEN "page" ELSE "init")})
  /\ UNCHANGED <<file, text, top, scrolled, scrolls>>

TimerFires(slot) ==
  /\ \E c \in calls :
       /\ c.slot = slot /\ c.at = "timer"
       /\ \/ c.do = "init" /\ Becomes({c}, {Read("init", -1, -1, <<>>)}) /\ UNCHANGED pailer
          \/ c.do = "tail" /\ Becomes({c}, TailRead) /\ UNCHANGED pailer
          \/ c.do = "page" /\ Page({c})
  /\ UNCHANGED <<file, text, top, scrolled, scrolls, readErrors>>

ScrollEvent ==
  /\ scrolled
  /\ scrolled' = FALSE
  /\ \/ top = 0 /\ Page({})
     \/ /\ top # 0 /\ AtBottom
        /\ pailer' = [pailer EXCEPT !.tailing = TRUE]
        /\ Becomes({}, IF pailer.tailing THEN {} ELSE TailRead)
     \/ /\ top # 0 /\ ~AtBottom
        /\ pailer' = [pailer EXCEPT !.tailing = FALSE]
        /\ UNCHANGED calls
  /\ UNCHANGED <<file, text, top, scrolls, readErrors>>

UserScrolls ==
  /\ scrolls < MaxScrolls
  /\ scrolls' = scrolls + 1
  /\ top' \in 0..(ScrollHeight(text) - Height) \ {top}
  /\ scrolled' = TRUE
  /\ UNCHANGED <<file, pailer, text, calls, readErrors>>

ProcessWrites ==
  /\ file < MaxFile
  /\ file' = file + 1
  /\ UNCHANGED <<pailer, text, top, scrolled, calls, scrolls, readErrors>>

(* Two tail loops run at once, or a tail or initialize() moved the start of *)
(* the text under the read of a page.  It is over when initialize() has     *)
(* cleared the text and no such read is left.                               *)
Disturbed ==
  LET paging == \E c \in calls \cap calls' : c.do = "page" /\ c.at = "read"
  IN  \/ Cardinality({c \in calls' : c.do = "tail"}) > 1
      \/ pailer'.start # pailer.start /\ paging
      \/ overlap /\ (paging \/ pailer.initialized \/ ~pailer'.initialized)

PailerInit ==
  /\ file \in 0..MaxFile
  /\ pailer = [initialized |-> FALSE, start |-> -1, end |-> -1,
               paging |-> FALSE, tailing |-> TRUE]
  /\ text = <<>> /\ top = 0 /\ scrolled = FALSE
  /\ calls = {[Read("init", -1, -1, <<>>) EXCEPT !.slot = 1]}
  /\ scrolls = 0 /\ readErrors = 0 /\ overlap = FALSE

PailerNext ==
  /\ \/ \E slot \in Slots : Answered(slot) \/ Failed(slot) \/ TimerFires(slot)
     \/ ScrollEvent \/ UserScrolls \/ ProcessWrites
  /\ overlap' = Disturbed

(* While the page is open every read is answered, every timer fires and     *)
(* every event is dispatched.                                                *)
PailerFairness ==
  /\ \A slot \in Slots : WF_pailerVars(Answered(slot) /\ overlap' = Disturbed)
  /\ \A slot \in Slots : WF_pailerVars(TimerFires(slot) /\ overlap' = Disturbed)
  /\ WF_pailerVars(ScrollEvent /\ overlap' = Disturbed)

PailerSpec == PailerInit /\ [][PailerNext]_pailerVars /\ PailerFairness

-----------------------------------------------------------------------------
(* The fields, the text and the calls in flight have their types. *)
PailerTypeOK ==
  /\ file \in 0..MaxFile
  /\ pailer \in [initialized : BOOLEAN, start : -TruncateLength..MaxFile,
                 end : -1..MaxFile, paging : BOOLEAN, tailing : BOOLEAN]
  /\ \A i \in DOMAIN text : text[i] \in 0..(file - 1)
  /\ top \in 0..(ScrollHeight(text) - Height)
  /\ \A c \in calls : c.do \in {"init", "page", "tail"} /\ c.at \in {"read", "timer"}
  /\ \A c, d \in calls : c.slot = d.slot => c = d

(* As long as no two tail loops run at once and the start of the text does  *)
(* not move under the read of a page, the text shown is the piece of the    *)
(* file between `start` and `end`: nothing twice, nothing left out, across  *)
(* partial lines cut off at either end, short answers and truncation.       *)
TextMatchesFile ==
  ~overlap => text = Bytes(pailer.start, pailer.end - pailer.start)

(* A user who stays at the bottom sees the end of the file in the end,      *)
(* whatever reads failed and however often the user left and came back.     *)
TailCatchesUp == <>[]AtBottom => []<>(pailer.end = file)

-----------------------------------------------------------------------------
=============================================================================
