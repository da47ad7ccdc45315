-------------------------------- MODULE Arena --------------------------------
(***************************************************************************)
(* Arena of include/coplus/arena/arena.h, the allocator behind             *)
(* coplus::arena::allocator.  Memory is a row of pages, cut into spans.    *)
(* The first page of a span carries a header: a free span is in the list   *)
(* of its size, a big chunk occupies its span alone, and a page span is    *)
(* cut into objects of one size class and is in the bin of that class.     *)
(*                                                                         *)
(* Byte sizes are those of the code.  The numbers of pages are parameters: *)
(* a page span here holds few objects and a span few pages.  One Arena     *)
(* serves the program, without a lock: a call is one step.                 *)
(***************************************************************************)
EXTENDS Integers, Sequences, FiniteSetsExt, Functions

CONSTANTS
  kSpanSlotSize,  \* pages of the largest span
  kLazySize,      \* spans from this size on are never merged when freed
  BinPages,       \* how many pages a page span of each size class has
  kPageTotal,     \* pages that can be committed, kPageTotalSize less the reserved ones
  InitPairs,      \* spans of two pages that Init creates
  InitMax,        \* spans of kSpanSlotSize pages that Init creates
  Page0Heads,     \* pages whose head bits lie where page 0 would have its hPri
  Sizes,          \* bound of the model: the sizes clients ask for
  MaxLive         \* bound of the model: chunks in use at a time

kPageLen == 4096
kSpanHeaderSize == 12
kPageHeaderSize == 16
kMaxObjectAvailable == 4080
kBinSlotTemplate ==
  <<4, 8, 16, 32, 48, 56, 64, 72, 80, 88, 96, 112, 128, 144, 160, 176, 192,
    208, 224, 240, 256, 272, 288, 320, 352, 384, 448, 512, 576, 672, 800,
    1024, 1088, 1344, 1632, 2016, 2720, 3040, 4080>>
kBinSlotSize == Len(kBinSlotTemplate)
Bins == 1 .. kBinSlotSize

ASSUME PagesAssumption ==
  /\ kSpanSlotSize \in Nat /\ kSpanSlotSize >= 2 /\ kLazySize \in Nat
  /\ BinPages \in [Bins -> 1 .. kSpanSlotSize - 1]
  /\ InitPairs \in Nat /\ InitMax \in Nat
  /\ kPageTotal \in Nat /\ kPageTotal >= 2 * InitPairs + kSpanSlotSize * InitMax

(* A page span has room for two objects, so that the second one exists when *)
(* the first one is handed out.                                             *)
ASSUME RoomAssumption ==
  \A b \in Bins : kPageHeaderSize + 2 * kBinSlotTemplate[b] <= BinPages[b] * kPageLen

VARIABLES
  heap,   \* the record of what Arena keeps, in its pages and beside them
  chunks, \* those in use: where each begins and how many bytes were asked for
  upset   \* "no", or how the code has left what its structure provides for:
          \*   "used behind"      an object in use is in the free list of its page
          \*   "handed out twice" Malloc has returned an object that is in use
          \*   "misplaced"        the pages of a bin are not linked as a list
          \*   "bits cleared"     pages that begin a span have lost their head bit
          \*   "nothing left"     a span without pages is in the lists

arenaVars == <<heap, chunks, upset>>

-----------------------------------------------------------------------------
(* Handles, pointers and size classes *)

PtrOf(h) == (h - 1) * kPageLen
PageHandleOf(ptr) == ptr \div kPageLen + 1
SpanSlotOf(size) == (size + kSpanHeaderSize - 1) \div kPageLen + 1

(* No chunk is larger than a span: the lists end there, and Malloc does not *)
(* look whether there is one for the size.                                  *)
ASSUME SizesAssumption ==
  /\ Sizes \subseteq Nat
  /\ \A size \in Sizes : size > 0 /\ SpanSlotOf(size) <= kSpanSlotSize

(* The search starts above slot 24: sizes from 289 to 320, which fit there, *)
(* go to slot 25.                                                           *)
BinSearch(size) ==
  LET search[lo \in Bins, hi \in Bins] ==
        LET mid == lo + (hi - lo) \div 2
        IN  IF hi <= lo + 1 THEN hi
            ELSE IF kBinSlotTemplate[mid] = size THEN mid
            ELSE IF kBinSlotTemplate[mid] < size THEN search[mid, hi]
            ELSE search[lo, mid]
  IN  search[24, kBinSlotSize]

BinSlot(size) ==
  IF size <= 48 THEN Min({b \in 1 .. 5 : size <= kBinSlotTemplate[b]})
  ELSE IF size <= 96 THEN (size - 1) \div 8
  ELSE IF size <= 288 THEN (size - 1) \div 16 + 6
  ELSE BinSearch(size)

(* Every size goes to a class it fits in, and to the smallest one, but for  *)
(* the sizes that fit in slot 24.                                           *)
ASSUME ClassAssumption ==
  \A size \in 1 .. kMaxObjectAvailable :
    LET b == BinSlot(size)
    IN  /\ b \in Bins /\ kBinSlotTemplate[b] >= size
        /\ b = 1 \/ kBinSlotTemplate[b - 1] < size \/ b = 25

-----------------------------------------------------------------------------
(* Headers and lists.  The head bits are the domain of header: the header   *)
(* of a page that begins no span is never read.  The fields of a page are 0 *)
(* in the header of a span.                                                 *)

is_head_(s) == DOMAIN s.header

(* f with v for x, and without a value for x *)
Put(f, x, v) == [y \in DOMAIN f \cup {x} |-> IF y = x THEN v ELSE f[y]]
Drop(f, x) == Restrict(f, DOMAIN f \ {x})

Span(n, next) == [Flag |-> n, hPri |-> 0, hNext |-> next, oFree |-> 0, nUsed |-> 0]

(* the header behind a handle, unless the handle is 0 *)
SetPri(s, h, pri) == IF h > 0 THEN [s EXCEPT !.header[h].hPri = pri] ELSE s
SetNext(s, h, next) == IF h > 0 THEN [s EXCEPT !.header[h].hNext = next] ELSE s

LinkedNodeMerge(s, pri, next) == SetPri(SetNext(s, pri, next), next, pri)

(* make h a free span of n pages, first in its list *)
PushSpan(s, h, n) ==
  LET next == s.span_list_[n]
  IN  SetPri([s EXCEPT !.header = Put(@, h, Span(n, next)), !.span_list_[n] = h], next, h)

(* LinkedNodeDeleteHead: the first span leaves its list *)
PopSpan(s, n) ==
  LET next == s.header[s.span_list_[n]].hNext
  IN  SetPri([s EXCEPT !.span_list_[n] = next], next, 0)

(* Mutant: the head bit of a merged span stays. *)
RemoveSpanKeepsHead(s, h) ==
  LET f == s.header[h]
  IN  IF f.hPri = 0
        THEN SetPri([s EXCEPT !.span_list_[f.Flag] = f.hNext], f.hNext, 0)
        ELSE LinkedNodeMerge(s, f.hPri, f.hNext)

(* a free span leaves its list, wherever it is, and begins no span any more *)
RemoveSpan(s, h) ==
  LET f == s.header[h]
      t == IF f.hPri = 0
             THEN SetPri([s EXCEPT !.span_list_[f.Flag] = f.hNext], f.hNext, 0)
             ELSE LinkedNodeMerge(s, f.hPri, f.hNext)
  IN  [t EXCEPT !.header = Drop(@, h)]

(* the while loop down to the next head; 0 when there is none *)
SpanHandleOf(s, h) == Max({x \in is_head_(s) : x <= h} \cup {0})

AllocChunkFromHeap(s, n) == PushSpan([s EXCEPT !.pages = @ + n], s.pages + 1, n)
AllocMaxChunkFromHeap(s) == AllocChunkFromHeap(s, kSpanSlotSize)

EmptyHeap ==
  [pages     |-> 0,                                   \* kHeapAllocPage, less the reserved ones
   header    |-> << >>,
   span_list_ |-> [n \in 0 .. kSpanSlotSize |-> 0],
   bin_      |-> [b \in Bins |-> 0],
   offset    |-> << >>]                               \* what free objects store

ArenaInit ==
  /\ heap = EmptyHeap
  /\ chunks = {}
  /\ upset = "no"

Constructed == 2 * InitPairs + kSpanSlotSize * InitMax

(* The loops of Init, one span at a time, before anybody calls. *)
Construct ==
  /\ heap.pages < Constructed
  /\ heap' = IF heap.pages < 2 * InitPairs THEN AllocChunkFromHeap(heap, 2) ELSE AllocMaxChunkFromHeap(heap)
  /\ UNCHANGED <<chunks, upset>>

-----------------------------------------------------------------------------
(* Malloc *)

Bigger(s, n) == {k \in n + 1 .. kSpanSlotSize : s.span_list_[k] > 0}

(* Mutant: the heap grows without end. *)
CanTakeAlways(n) == TRUE

(* otherwise AllocMemFromHeap throws bad_alloc before anything has changed *)
CanTake(n) ==
  \/ heap.span_list_[n] > 0
  \/ Bigger(heap, n) # {}
  \/ heap.pages + kSpanSlotSize <= kPageTotal

(* The span that Take(n) takes: the first of its size, else the first of the *)
(* next bigger size there is, else the first pages that are committed.       *)
TakenSpan(n) ==
  IF heap.span_list_[n] > 0 THEN heap.span_list_[n]
  ELSE IF Bigger(heap, n) # {} THEN heap.span_list_[Min(Bigger(heap, n))]
  ELSE heap.pages + 1

(* A bigger span is split and what is left of it becomes a free span, also  *)
(* when nothing is left.                                                    *)
Take(n) ==
  LET s == IF Bigger(heap, n) # {} THEN heap ELSE AllocMaxChunkFromHeap(heap)
      big == IF Bigger(heap, n) # {} THEN Min(Bigger(heap, n)) ELSE kSpanSlotSize
  IN  IF heap.span_list_[n] > 0
        THEN PopSpan(heap, n)
        ELSE PushSpan(PopSpan(s, big), TakenSpan(n) + n, big - n)

NothingLeft(n) == n = kSpanSlotSize /\ heap.span_list_[n] = 0

Hand(ptr, size) == chunks' = chunks \cup {[ptr |-> ptr, size |-> size]}

MallocBig(size) ==
  LET n == SpanSlotOf(size)
      h == TakenSpan(n)
  IN  /\ size > kMaxObjectAvailable
      /\ CanTake(n)
      /\ heap' = [Take(n) EXCEPT !.header[h].Flag = n, !.header[h].hNext = -1]
      /\ Hand(PtrOf(h) + kSpanHeaderSize, size)
      /\ upset' = IF NothingLeft(n) THEN "nothing left" ELSE upset

(* the first page of the bin, or when that is used up the second one *)
Scope(b) ==
  LET h == heap.bin_[b]
  IN  IF h > 0 /\ heap.header[h].oFree = 0 THEN heap.header[h].hNext ELSE h

HasFree(h) == h > 0 /\ heap.header[h].oFree > 0

(* The objects of a page span of a class, as offsets from its begin. *)
Objects(b) ==
  {kPageHeaderSize + i * kBinSlotTemplate[b] :
     i \in 0 .. (BinPages[b] * kPageLen - kPageHeaderSize) \div kBinSlotTemplate[b] - 1}

HasChunk(ptr) == \E c \in chunks : c.ptr = ptr

(* The object at ptr in the free list stores where the next one is.  One    *)
(* that is in use stores what its client has written: 0, or what is taken   *)
(* for an object.                                                           *)
StoredAt(ptr, b) == IF HasChunk(ptr) THEN Objects(b) \cup {0} ELSE {heap.offset[ptr]}

(* The first free object is handed out.  A stored 0 is taken to mean that   *)
(* the memory behind it was never used, if an object fits in there.  But 0  *)
(* is also what an object stores that was freed when no other was free, and *)
(* then the one behind it may be in use: it is first in the free list now,  *)
(* and handed out again unless it is freed before.                          *)
MallocObject(size) ==
  LET b == BinSlot(size)
      h == Scope(b)
      o == heap.header[h].oFree
      ptr == PtrOf(h) + o
      behind == ptr + kBinSlotTemplate[b]
      rest == Drop(heap.offset, ptr)
  IN  /\ size <= kMaxObjectAvailable
      /\ HasFree(h)
      /\ \E stored \in StoredAt(ptr, b) :
           LET fresh == stored = 0 /\ o + 2 * kBinSlotTemplate[b] <= BinPages[b] * kPageLen
           IN  /\ heap' = [heap EXCEPT
                             !.header[h].nUsed = @ + 1,
                             !.header[h].oFree = IF fresh THEN o + kBinSlotTemplate[b] ELSE stored,
                             !.offset = IF fresh THEN Put(rest, behind, 0) ELSE rest]
               /\ upset' = IF HasChunk(ptr) THEN "handed out twice"
                           ELSE IF fresh /\ HasChunk(behind) THEN "used behind" ELSE upset
      /\ Hand(ptr, size)

(* No free object: a span becomes the first page of the bin, its first     *)
(* object is handed out and the second one is free.                        *)
MallocPage(size) ==
  LET b == BinSlot(size)
      n == BinPages[b]
      h == TakenSpan(n)
      next == heap.bin_[b]
      second == kPageHeaderSize + kBinSlotTemplate[b]
      page == [Flag |-> -b, hPri |-> 0, hNext |-> next, oFree |-> second, nUsed |-> 1]
  IN  /\ size <= kMaxObjectAvailable
      /\ ~HasFree(Scope(b))
      /\ CanTake(n)
      /\ heap' = SetPri([Take(n) EXCEPT !.header[h] = page,
                                        !.bin_[b] = h,
                                        !.offset = Put(@, PtrOf(h) + second, 0)], next, h)
      /\ Hand(PtrOf(h) + kPageHeaderSize, size)
      /\ UNCHANGED upset

MallocThrows(size) ==
  /\ IF size > kMaxObjectAvailable
       THEN ~CanTake(SpanSlotOf(size))
       ELSE ~HasFree(Scope(BinSlot(size))) /\ ~CanTake(BinPages[BinSlot(size)])
  /\ UNCHANGED arenaVars

Malloc(size) ==
  /\ heap.pages >= Constructed
  /\ Cardinality(chunks) < MaxLive
  /\ MallocBig(size) \/ MallocObject(size) \/ MallocPage(size) \/ MallocThrows(size)

-----------------------------------------------------------------------------
(* Free *)

(* Mutant: a span may be merged whatever its use. *)
MergeableInUse(s, x, n) == s.header[x].Flag \in 1 .. kSpanSlotSize - n

(* A free neighbour that fits in a span together with n pages.  A big chunk *)
(* in use has hNext = -1, a page span a negative Flag.                      *)
Mergeable(s, x, n) ==
  s.header[x].hNext >= 0 /\ s.header[x].Flag \in 1 .. kSpanSlotSize - n

(* The span h becomes free.  It is merged with the span behind it and then, *)
(* unless its list is empty or it has become large, with the one in front.  *)
FreeSpan(s, h) ==
  LET n == s.header[h].Flag
      behind == h + n
      joins == behind <= s.pages /\ Mergeable(s, behind, n)
      t == IF joins THEN RemoveSpan(s, behind) ELSE s
      m == IF joins THEN n + s.header[behind].Flag ELSE n
      front == SpanHandleOf(t, h - 1)
      joined == front > 0 /\ t.span_list_[m] > 0 /\ m < kLazySize /\ Mergeable(t, front, m)
      u == RemoveSpan(t, front)
  IN  IF s.span_list_[n] <= 0 \/ n >= kLazySize THEN PushSpan(s, h, n)
      ELSE IF joined
        THEN PushSpan([u EXCEPT !.header = Drop(@, h)],
                      front, m + t.header[front].Flag)
        ELSE PushSpan(t, h, m)

FreeBig(c) ==
  LET h == SpanHandleOf(heap, PageHandleOf(c.ptr))
  IN  /\ heap.header[h].Flag > 0
      /\ heap' = FreeSpan(heap, h)
      /\ chunks' = chunks \ {c}
      /\ UNCHANGED upset

(* A page stays in its bin while it has objects in use, while its free      *)
(* object is in the first eighth, or when it is the first one.              *)
Stays(h) ==
  LET page == heap.header[h]
  IN  \/ page.nUsed > 1
      \/ page.oFree < (BinPages[-page.Flag] * kPageLen) \div 8
      \/ heap.bin_[-page.Flag] = h

(* The page h takes the place of the first one.  This is meant for the      *)
(* second of two pages: behind it the list is linked to itself, in front of *)
(* it pages are lost.                                                       *)
ToFront(s, h, b) ==
  LET first == s.bin_[b]
      next == s.header[h].hNext
      t == SetPri([s EXCEPT !.header[first].hPri = h, !.header[first].hNext = next], next, next)
  IN  [t EXCEPT !.header[h].hNext = first, !.header[h].hPri = 0, !.bin_[b] = h]

ClearHeads(s) == [s EXCEPT !.header = Restrict(@, DOMAIN @ \ Page0Heads)]

(* A page that has fewer objects in use than the first one.  Without a page *)
(* behind it the write of hPri goes to page 0 and clears head bits.         *)
Reorder(s, h, b) ==
  IF s.header[h].hNext = 0 THEN ClearHeads(ToFront(s, h, b)) ELSE ToFront(s, h, b)

(* Mutant: the link of the freed object is not stored. *)
FreeObjectUnlinked(c) ==
  LET h == SpanHandleOf(heap, PageHandleOf(c.ptr))
      page == heap.header[h]
      s == [heap EXCEPT !.header[h].nUsed = @ - 1,
                        !.header[h].oFree = c.ptr - PtrOf(h),
                        !.offset = Put(@, c.ptr, 0)]
  IN  /\ page.Flag < 0
      /\ Stays(h)
      /\ heap' = s
      /\ chunks' = chunks \ {c}
      /\ UNCHANGED upset

FreeObject(c) ==
  LET h == SpanHandleOf(heap, PageHandleOf(c.ptr))
      page == heap.header[h]
      b == -page.Flag
      s == [heap EXCEPT !.header[h].nUsed = @ - 1,
                        !.header[h].oFree = c.ptr - PtrOf(h),
                        !.offset = Put(@, c.ptr, page.oFree)]
      reorders == s.header[heap.bin_[b]].nUsed > page.nUsed - 1
  IN  /\ page.Flag < 0
      /\ Stays(h)
      /\ heap' = IF reorders THEN Reorder(s, h, b) ELSE s
      /\ chunks' = chunks \ {c}
      /\ upset' = IF ~reorders THEN upset
                  ELSE IF page.hNext = 0 /\ is_head_(heap) \cap Page0Heads # {} THEN "bits cleared"
                  ELSE IF page.hPri # heap.bin_[b] \/ page.hNext > 0 THEN "misplaced"
                  ELSE upset

FreePage(c) ==
  LET h == SpanHandleOf(heap, PageHandleOf(c.ptr))
      page == heap.header[h]
      b == -page.Flag
      s == IF page.hPri = 0
             THEN SetPri([heap EXCEPT !.bin_[b] = page.hNext], page.hNext, 0)
             ELSE LinkedNodeMerge(heap, page.hPri, page.hNext)
      inside == {x \in DOMAIN heap.offset : SpanHandleOf(heap, PageHandleOf(x)) = h}
  IN  /\ page.Flag < 0
      /\ ~Stays(h)
      /\ heap' = FreeSpan([s EXCEPT !.header[h] = Span(BinPages[b], 0),
                                    !.offset = Restrict(@, DOMAIN @ \ inside)], h)
      /\ chunks' = chunks \ {c}
      /\ UNCHANGED upset

Free(c) == FreeBig(c) \/ FreeObject(c) \/ FreePage(c)

(* An object in use that is in the free list as well does no harm before it *)
(* is handed out.  Where the code has left its structure otherwise, what it *)
(* reads and writes next is not known, and the model ends.                  *)
GoesOn == upset \in {"no", "used behind"}
Ended == ~GoesOn /\ UNCHANGED arenaVars

ArenaNext ==
  \/ Construct
  \/ GoesOn /\ \E size \in Sizes : Malloc(size)
  \/ GoesOn /\ \E c \in chunks : Free(c)
  \/ Ended

ArenaSpec == ArenaInit /\ [][ArenaNext]_arenaVars

-----------------------------------------------------------------------------
(* Properties *)

PageHandles == 1 .. kPageTotal + 1

ArenaTypeOK ==
  /\ heap.pages \in 0 .. kPageTotal
  /\ is_head_(heap) \subseteq PageHandles
  /\ \A h \in is_head_(heap) :
       heap.header[h] \in [Flag : (-kBinSlotSize) .. kSpanSlotSize, hPri : PageHandles \cup {0},
                          hNext : PageHandles \cup {0, -1}, oFree : Nat, nUsed : Nat]
  /\ heap.span_list_ \in [0 .. kSpanSlotSize -> PageHandles \cup {0}]
  /\ heap.bin_ \in [Bins -> PageHandles \cup {0}]
  /\ \A ptr \in DOMAIN heap.offset : heap.offset[ptr] \in Nat
  /\ chunks \subseteq [ptr : Nat, size : Sizes]
  /\ upset \in {"no", "used behind", "handed out twice", "misplaced", "bits cleared", "nothing left"}

(* The spans that are cut into objects; how many pages a span has. *)
PageSpans == {h \in is_head_(heap) : heap.header[h].Flag < 0}

Pages(s, h) == IF s.header[h].Flag > 0 THEN s.header[h].Flag ELSE BinPages[-s.header[h].Flag]

(* The spans cover the committed pages without gap or overlap, whatever was *)
(* split and merged: SpanHandleOf and the merge of neighbours rest on that. *)
SpansTile ==
  /\ \A h \in is_head_(heap) : h + Pages(heap, h) <= heap.pages + 1
  /\ \A p \in 1 .. heap.pages :
       Cardinality({h \in is_head_(heap) : p \in h .. h + Pages(heap, h) - 1}) = 1

(* A list that begins with first and goes on with next, up to a 0, has      *)
(* exactly the members S.                                                   *)
Reaches(first, next, S) ==
  LET Closed(T) == /\ first # 0 => first \in T
                   /\ \A x \in T : next[x] # 0 => next[x] \in T
  IN  Closed(S) /\ \A T \in SUBSET S : Closed(T) => T = S

(* It leads backwards as it leads forwards. *)
DoublyLinked(first, S) ==
  /\ Reaches(first, [h \in S |-> heap.header[h].hNext], S)
  /\ first > 0 => heap.header[first].hPri = 0
  /\ \A h \in S : heap.header[h].hNext > 0 => heap.header[heap.header[h].hNext].hPri = h

(* Nothing is lost: a span is in the list of its size, a page in the bin of *)
(* its class, or a chunk in use lies in it and can free it.                 *)
EverySpanListed ==
  /\ \A n \in 1 .. kSpanSlotSize :
       DoublyLinked(heap.span_list_[n],
                    {h \in is_head_(heap) : heap.header[h].Flag = n /\ heap.header[h].hNext >= 0})
  /\ \A b \in Bins :
       DoublyLinked(heap.bin_[b], {h \in PageSpans : heap.header[h].Flag = -b})
  /\ \A h \in is_head_(heap) :
       heap.header[h].hNext = -1 <=> \E c \in chunks : c.ptr = PtrOf(h) + kSpanHeaderSize

(* Splitting, merging and moving spans between the lists leaves the spans   *)
(* tiling the pages and every span where Malloc or Free will find it.       *)
SpansAccounted == GoesOn => SpansTile /\ EverySpanListed

(* The objects of a page in use, and those that are free: in them the next  *)
(* free one is stored.                                                      *)
Used(h) == {o \in Objects(-heap.header[h].Flag) : \E c \in chunks : c.ptr = PtrOf(h) + o}

Unused(h) == {o \in Objects(-heap.header[h].Flag) : PtrOf(h) + o \in DOMAIN heap.offset}

(* A page knows how many of its objects are in use, its free list has the   *)
(* free ones, and any other lies behind all of these, the last of which is  *)
(* free and ends the list: it was never handed out.                         *)
ObjectsAccounted ==
  upset = "no" =>
    \A h \in PageSpans :
      /\ heap.header[h].nUsed = Cardinality(Used(h))
      /\ Used(h) \cap Unused(h) = {}
      /\ Reaches(heap.header[h].oFree, [o \in Unused(h) |-> heap.offset[PtrOf(h) + o]], Unused(h))
      /\ \A o \in Objects(-heap.header[h].Flag) \ (Used(h) \cup Unused(h)) :
           \E last \in Unused(h) :
             /\ heap.offset[PtrOf(h) + last] = 0
             /\ last < o
             /\ \A k \in Used(h) \cup Unused(h) : k <= last

(* Until Malloc has handed out an object that was in use (or Free has       *)
(* cleared head bits), chunks in use do not overlap, and lie behind the     *)
(* header of their span and inside it: what a client writes reaches no      *)
(* other chunk and no header.                                               *)
NoOverlap ==
  upset \notin {"handed out twice", "bits cleared"} =>
    /\ \A c, d \in chunks : c # d => c.ptr + c.size <= d.ptr \/ d.ptr + d.size <= c.ptr
    /\ \A c \in chunks :
         LET h == SpanHandleOf(heap, PageHandleOf(c.ptr))
         IN  /\ h > 0
             /\ c.ptr >= PtrOf(h) + IF heap.header[h].Flag > 0 THEN kSpanHeaderSize ELSE kPageHeaderSize
             /\ c.ptr + c.size <= PtrOf(h + Pages(heap, h))
=============================================================================
