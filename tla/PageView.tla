------------------------------ MODULE PageView ------------------------------
(***************************************************************************)
(* What the reader shows (session.rs with document/reflow.rs,              *)
(* reflow_view.rs, plain.rs, fixed/pdf.rs and render/cache.rs): the page,  *)
(* the layout the document last used, the render cache, and the position   *)
(* saved for the next opening.  Text is laid out again only when a page is *)
(* drawn, so the session's page number may belong to an older layout.      *)
(***************************************************************************)
EXTENDS Integers, Sequences, FiniteSets

CONSTANTS Kind,             \* "epub", "txt" or "pdf"
          Chapters,         \* length of the text of each chapter (of each PDF page)
          HasTextLayer,     \* whether a PDF has text to lay out
          Viewports,        \* sizes of the panel, as characters at scale 1
          Scales,           \* text scales; font, spacing and alignment act alike
          ReopenScales,     \* the scale preferences the book is reopened with
          Qualities,        \* render qualities 0, 1, 2
          Looks,            \* night, fit, crop and contrast together
          CacheSlots,       \* pages the render cache has room for
          MaxSettings, MaxOpens,
          None

PageViewAssumption ==
    /\ Kind \in {"epub", "txt", "pdf"} /\ HasTextLayer \in BOOLEAN /\ Chapters \in Seq(Nat \ {0}) /\ Chapters # <<>>
    /\ Viewports \subseteq Nat \ {0} /\ Scales \subseteq Nat \ {0} /\ 1 \in Scales
    /\ ReopenScales \subseteq Scales /\ Qualities \subseteq 0 .. 2 /\ 1 \in Qualities
    /\ {CacheSlots, MaxSettings, MaxOpens} \subseteq Nat

VARIABLES isOpen, page, viewport, quality, look, zoom, pan,
          reflow,           \* the text is laid out (always, but for a PDF's fixed pages)
          laid,             \* size and scale of the layout in use
          lastViewport,     \* the buffer size a PDF page was last drawn at
          cache,            \* the cached pages, least recently used first
          screen,           \* the last drawing: its outcome and what it should have been
          turn,             \* the turn or jump made on an up-to-date screen, until drawn
          fresh,            \* nothing has changed since the drawing
          saved,            \* the stored position, and the text it was saved at
          textScale,        \* the scale preference
          resumed,          \* the text the reopened book should show
          settings, opens

session == <<page, viewport, quality, look, zoom, pan, reflow, laid, lastViewport, cache>>
vars == <<isOpen, session, screen, turn, fresh, saved, textScale, resumed, settings, opens>>

-----------------------------------------------------------------------------
(* Layouts *)

\* a text file and a book are always laid out: PlainBackend is one unit of ReflowView
Reflowable == Kind # "pdf"

\* characters on a page; paginate
Capacity(l) == IF l.size < l.scale THEN 1 ELSE l.size \div l.scale

PagesOf(c, l) == (Chapters[c] + Capacity(l) - 1) \div Capacity(l)

\* layout_all: every chapter starts a page
ChapterStart(l) == [c \in 1 .. Len(Chapters) + 1 |->
                      LET before[k \in 0 .. c - 1] == IF k = 0 THEN 0 ELSE before[k - 1] + PagesOf(k, l)
                      IN  before[c - 1]]

\* page_count
PageCount(r, l) == IF r THEN ChapterStart(l)[Len(Chapters) + 1] ELSE Len(Chapters)

\* chapter_of, unit_of: the last chapter that starts at or before the page
ChapterOf(p, l) == CHOOSE c \in 1 .. Len(Chapters) :
                     /\ ChapterStart(l)[c] <= p
                     /\ c = Len(Chapters) \/ ChapterStart(l)[c + 1] > p

\* the text page p shows
Content(p, r, l) ==
    IF ~r THEN [chapter |-> p + 1, from |-> 0, to |-> Chapters[p + 1]]
    ELSE LET c == ChapterOf(p, l)
             i == p - ChapterStart(l)[c]
             end == (i + 1) * Capacity(l)
         IN  [chapter |-> c, from |-> i * Capacity(l), to |-> IF end > Chapters[c] THEN Chapters[c] ELSE end]

LeastOf(a, b) == IF a < b THEN a ELSE b

\* the last page: page_count().saturating_sub(1)
LastPage == PageCount(reflow, laid) - 1

\* page_pin: the chapter and the first character's offset in it; only EPUB has one
PagePin(p) ==
    IF Kind = "epub" /\ p <= LastPage THEN [chapter |-> ChapterOf(p, laid), offset |-> Content(p, reflow, laid).from] ELSE None

\* pin_to_page: the last page of the chapter that starts at or before the offset
PinToPage(pin, l) ==
    LET pages == {p \in ChapterStart(l)[pin.chapter] .. ChapterStart(l)[pin.chapter + 1] - 1 : Content(p, TRUE, l).from <= pin.offset}
    IN  CHOOSE p \in pages : \A q \in pages : q <= p

-----------------------------------------------------------------------------
(* Drawing *)

\* render_quality_factor: the buffer is drawn at this size and resampled
Quality(size, q) == CASE q = 0 -> (size * 3) \div 4 [] q = 2 -> (size * 3) \div 2 [] OTHER -> size

\* render_cache_key: the page and the settings, not the viewport and not the layout
CacheKey(p) == [page |-> p, quality |-> quality, look |-> look]

Cached(key) == \E i \in DOMAIN cache : cache[i].key = key

Entry(key) == cache[CHOOSE i \in DOMAIN cache : cache[i].key = key]

Without(key) == SelectSeq(cache, LAMBDA e : e.key # key)

\* ByteLru::get stamps the entry
Touched(key) == Append(Without(key), Entry(key))

\* ByteLru::insert drops the least recently used entry when there is no room; pages are of one size
Inserted(key, pixels) ==
    LET rest == Without(key)
        kept == IF Len(rest) < CacheSlots THEN rest ELSE Tail(rest)
    IN  IF CacheSlots = 0 THEN rest ELSE Append(kept, [key |-> key, pixels |-> pixels])

\* ensure_laid, as the page is drawn in a buffer of this size
EnsureLaid(size) == [size |-> size, scale |-> laid.scale]

\* the buffer a page is drawn in: a magnified one is not resampled
BufferSize == IF zoom > 1 THEN viewport ELSE Quality(viewport, quality)

\* the pixels of page p drawn now, on layout l
Pixels(p, l) == [content |-> Content(p, reflow, l), size |-> viewport, quality |-> IF zoom > 1 THEN 1 ELSE quality,
                 look |-> look, zoom |-> zoom, pan |-> pan]

Drawn(l) == laid' = IF reflow THEN l ELSE laid

StepsAside == turn' = None /\ fresh' = FALSE

\* render_current, its cached path
RenderCached ==
    /\ isOpen /\ ~fresh /\ zoom = 1 /\ pan = 0 /\ Cached(CacheKey(page))
    /\ cache' = Touched(CacheKey(page))
    /\ screen' = [ok |-> TRUE, pixels |-> Entry(CacheKey(page)).pixels,
                  wanted |-> IF page < PageCount(reflow, EnsureLaid(BufferSize)) THEN Pixels(page, EnsureLaid(BufferSize)) ELSE None]
    /\ fresh' = TRUE
    /\ UNCHANGED <<isOpen, page, viewport, quality, look, zoom, pan, reflow, laid, lastViewport, turn, saved, textScale, resumed, settings, opens>>

\* render_current: a page beyond the new layout is PageOutOfRange
RenderDrawn ==
    LET l == EnsureLaid(BufferSize)
        ok == page < PageCount(reflow, l)
    IN  /\ isOpen /\ ~fresh /\ ~(zoom = 1 /\ pan = 0 /\ Cached(CacheKey(page)))
        /\ Drawn(l) /\ lastViewport' = BufferSize
        /\ screen' = [ok |-> ok, pixels |-> IF ok THEN Pixels(page, l) ELSE None, wanted |-> IF ok THEN Pixels(page, l) ELSE None]
        /\ cache' = IF ok /\ zoom = 1 /\ pan = 0 THEN Inserted(CacheKey(page), Pixels(page, l)) ELSE cache
        /\ fresh' = TRUE
        /\ UNCHANGED <<isOpen, page, viewport, quality, look, zoom, pan, reflow, turn, saved, textScale, resumed, settings, opens>>

\* prefetch_page: another page into the cache, never when magnified
Prefetch(p) ==
    LET q == LeastOf(p, LastPage)
        l == EnsureLaid(BufferSize)
    IN  /\ isOpen /\ fresh /\ zoom = 1
        /\ IF Cached(CacheKey(q)) THEN cache' = Touched(CacheKey(q)) /\ UNCHANGED <<laid, lastViewport>>
           ELSE /\ Drawn(l) /\ lastViewport' = BufferSize
                /\ cache' = IF q < PageCount(reflow, l) THEN Inserted(CacheKey(q), Pixels(q, l)) ELSE cache
        /\ UNCHANGED <<isOpen, page, viewport, quality, look, zoom, pan, reflow, screen, turn, fresh, saved, textScale, resumed, settings, opens>>

-----------------------------------------------------------------------------
(* Moving *)

\* load_ink_for_current_page: the zoom stays, the top of the new page shows
Land == pan' = 0 /\ UNCHANGED zoom

\* a move from an up-to-date screen promises what the next drawing shows
Promise(kind, chapter) ==
    turn' = IF fresh /\ screen.ok THEN [kind |-> kind, chapter |-> chapter, from |-> screen.pixels.content] ELSE None

Moved(p, kind, chapter) ==
    /\ page' = p /\ fresh' = FALSE /\ resumed' = None /\ Promise(kind, chapter)
    /\ IF p # page THEN Land ELSE UNCHANGED <<zoom, pan>>
    /\ UNCHANGED <<isOpen, viewport, quality, look, reflow, laid, lastViewport, cache, screen, saved, textScale, settings, opens>>

\* on_gesture
NextPage == isOpen /\ Moved(IF page < LastPage THEN page + 1 ELSE page, "next", 0)

PrevPage == isOpen /\ Moved(IF page = 0 THEN 0 ELSE page - 1, "prev", 0)

\* jump_to_toc: resolve_nav's target in the layout in use, or a page of the fixed document
JumpToToc(c) == isOpen /\ Moved(LeastOf(IF reflow THEN ChapterStart(laid)[c] ELSE c - 1, LastPage), "toc", c)

\* supports_reflow, is_magnifiable: only fixed pages are magnified
Magnifiable == ~reflow

\* set_zoom; the shell magnifies fixed pages only and pans only what is magnified
SetZoom(z, p) ==
    /\ isOpen /\ Magnifiable /\ <<z, p>> # <<zoom, pan>> /\ (z = 1 => p = 0)
    /\ zoom' = z /\ pan' = p /\ StepsAside
    /\ UNCHANGED <<isOpen, page, viewport, quality, look, reflow, laid, lastViewport, cache, screen, saved, textScale, resumed, settings, opens>>

-----------------------------------------------------------------------------
(* Settings *)

Setting == isOpen /\ settings < MaxSettings /\ settings' = settings + 1 /\ StepsAside /\ UNCHANGED <<isOpen, lastViewport, screen, saved, opens>>

\* set_viewport: cached pages are of the old size; the layout waits for the next drawing
SetViewport(v) ==
    /\ Setting /\ v # viewport
    /\ viewport' = v /\ cache' = <<>>
    /\ UNCHANGED <<page, quality, look, zoom, pan, reflow, laid, textScale, resumed>>

\* set_night, set_fit, set_crop_auto, set_crop_margin, set_contrast, set_render_quality: all in the key
SetLook(q, k) ==
    /\ Setting /\ <<q, k>> # <<quality, look>>
    /\ quality' = q /\ look' = k
    /\ UNCHANGED <<page, viewport, zoom, pan, reflow, laid, cache, textScale, resumed>>

RepaginateKeepsCache(s) ==
    /\ laid' = [laid EXCEPT !.scale = s]
    /\ page' = LeastOf(ChapterStart(laid')[ChapterOf(page, laid)], PageCount(TRUE, laid') - 1)
    /\ UNCHANGED cache

\* repaginate_keeping_chapter, repaginate_keeping_unit: at the size in use, to the chapter's start
Repaginate(s) ==
    /\ laid' = [laid EXCEPT !.scale = s]
    /\ page' = LeastOf(ChapterStart(laid')[ChapterOf(page, laid)], PageCount(TRUE, laid') - 1)
    /\ cache' = <<>>

\* a PDF takes text settings only while it is laid out
TextSettable == reflow

\* set_text_scale; set_font, set_line_spacing and set_alignment lay out again in the same way
SetTextScale(s) ==
    /\ Setting /\ TextSettable /\ s # textScale
    /\ Repaginate(s) /\ Land /\ textScale' = s /\ resumed' = None
    /\ UNCHANGED <<viewport, quality, look, reflow>>

\* PdfBackend::set_reflow: on lays out at the size last drawn and scale 1, off goes back to the source page
ReflowTarget ==
    IF reflow THEN page' = ChapterOf(page, laid) - 1 /\ UNCHANGED laid
    ELSE /\ laid' = [size |-> lastViewport, scale |-> 1]
         /\ page' = ChapterStart(laid')[page + 1]

\* set_reflow, PDF only; the shell has drawn a page before it offers the toggle
SetReflow ==
    /\ Setting /\ Kind = "pdf" /\ HasTextLayer /\ lastViewport > 0
    /\ reflow' = ~reflow /\ ReflowTarget
    /\ cache' = <<>> /\ zoom' = 1 /\ pan' = 0 /\ resumed' = None
    /\ UNCHANGED <<viewport, quality, look, textScale>>

\* Caches::trim: moderate pressure clears the covers only
TrimCritical == /\ isOpen /\ cache # <<>> /\ cache' = <<>>
                /\ UNCHANGED <<isOpen, page, viewport, quality, look, zoom, pan, reflow, laid, lastViewport, screen, turn, fresh, saved, textScale, resumed, settings, opens>>

-----------------------------------------------------------------------------
(* Positions *)

\* save_position, as the shell calls it on pause and on closing; the text is that of the page shown
SavePosition ==
    /\ isOpen /\ fresh /\ screen.ok
    /\ saved' = [page |-> page, pin |-> PagePin(page), text |-> [chapter |-> screen.pixels.content.chapter, offset |-> screen.pixels.content.from]]
    /\ UNCHANGED <<isOpen, session, screen, turn, fresh, textScale, resumed, settings, opens>>

\* nativeClose, or the process is killed: what was not saved is gone
Close ==
    /\ isOpen /\ opens < MaxOpens /\ textScale \in ReopenScales
    /\ isOpen' = FALSE
    /\ UNCHANGED <<session, screen, turn, fresh, saved, textScale, resumed, settings, opens>>

\* attach_store: the pin, or else the page number, clamped to the document
ResumePage(l, r) ==
    IF saved = None THEN 0
    ELSE LeastOf(IF saved.pin # None THEN PinToPage(saved.pin, l) ELSE saved.page, PageCount(r, l) - 1)

\* open_*_with_store at scale 1 on this viewport; the shell then applies the scale preference
Open(v) ==
    LET first == [size |-> v, scale |-> 1]
        flows == Reflowable
        l == [size |-> v, scale |-> textScale]
        p == ResumePage(first, flows)
    IN  /\ ~isOpen /\ opens < MaxOpens /\ textScale \in ReopenScales
        /\ isOpen' = TRUE /\ opens' = opens + 1 /\ viewport' = v
        /\ reflow' = flows /\ lastViewport' = 0 /\ cache' = <<>>
        /\ IF flows /\ textScale # 1 THEN laid' = l /\ page' = ChapterStart(l)[ChapterOf(p, first)]
           ELSE laid' = first /\ page' = p
        /\ quality' = 1 /\ zoom' = 1 /\ pan' = 0 /\ StepsAside
        /\ resumed' = IF saved = None THEN None ELSE saved.text
        /\ screen' = [ok |-> FALSE, pixels |-> None, wanted |-> None]
        /\ UNCHANGED <<look, saved, textScale, settings>>

Init ==
    /\ isOpen = FALSE /\ page = 0 /\ viewport \in Viewports /\ quality = 1 /\ look \in Looks
    /\ zoom = 1 /\ pan = 0 /\ reflow = Reflowable /\ laid = [size |-> viewport, scale |-> 1]
    /\ lastViewport = 0 /\ cache = <<>> /\ screen = [ok |-> FALSE, pixels |-> None, wanted |-> None]
    /\ turn = None /\ fresh = FALSE /\ saved = None /\ textScale = 1 /\ resumed = None /\ settings = 0 /\ opens = 0

Next ==
    \/ RenderCached \/ RenderDrawn \/ NextPage \/ PrevPage
    \/ \E d \in {-1, 1} : page + d >= 0 /\ Prefetch(page + d)
    \/ \E c \in DOMAIN Chapters : JumpToToc(c)
    \/ \E z \in {1, 2}, p \in {0, 1} : SetZoom(z, p)
    \/ \E v \in Viewports : SetViewport(v) \/ Open(v)
    \/ \E q \in Qualities, k \in Looks : SetLook(q, k)
    \/ \E s \in Scales : SetTextScale(s)
    \/ SetReflow \/ TrimCritical \/ SavePosition \/ Close

Spec == Init /\ [][Next]_vars

-----------------------------------------------------------------------------
(* Properties *)

TypeOK ==
    /\ isOpen \in BOOLEAN /\ page \in Nat /\ viewport \in Viewports /\ quality \in Qualities /\ look \in Looks
    /\ zoom \in {1, 2} /\ pan \in {0, 1} /\ (zoom = 1 => pan = 0) /\ (reflow => zoom = 1)
    /\ laid.size \in Nat \ {0} /\ laid.scale \in Scales /\ lastViewport \in Nat
    /\ Len(cache) <= CacheSlots /\ \A i, j \in DOMAIN cache : cache[i].key = cache[j].key => i = j

\* A drawing served from the render cache (render_current) has the pixels a new drawing of the
\* session's page under the settings in force would have.
CachedPixelsRight == screen.ok => screen.pixels = screen.wanted

\* The session's page is a page of the document whenever it is drawn: render_current never
\* answers PageOutOfRange.
PageDraws == fresh => screen.ok

Successor(a, b) ==
    \/ b.chapter = a.chapter /\ b.from = a.to
    \/ b.chapter = a.chapter + 1 /\ a.to = Chapters[a.chapter] /\ b.from = 0
    \/ a = b /\ a.chapter = Len(Chapters) /\ a.to = Chapters[a.chapter]

Predecessor(a, b) == (Successor(b, a) /\ a # b) \/ (a = b /\ a.chapter = 1 /\ a.from = 0)

\* Turning forward shows the text that follows the page on the screen, turning back the text
\* before it, and a contents entry (jump_to_toc) the start of its chapter; only the ends stay.
ReadsOn ==
    fresh /\ turn # None /\ screen.ok =>
        LET c == screen.pixels.content
        IN  CASE turn.kind = "next" -> Successor(turn.from, c)
              [] turn.kind = "prev" -> Predecessor(turn.from, c)
              [] OTHER -> c.chapter = turn.chapter /\ c.from = 0

\* A book reopened with attach_store shows, when first drawn, the text saved last.
ResumesText ==
    fresh /\ screen.ok /\ resumed # None =>
        LET c == screen.pixels.content
        IN  c.chapter = resumed.chapter /\ c.from <= resumed.offset /\ resumed.offset < c.to
=============================================================================
