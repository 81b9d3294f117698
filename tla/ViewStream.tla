------------------------------- MODULE ViewStream -------------------------------
(***************************************************************************)
(* guacd_to_ws: the pump from guacd to the browser, on an AVC444 stream.   *)
(* A read of the socket ends anywhere, so the tail of a chunk is carried   *)
(* until its instruction is complete, or until the carry is full and is    *)
(* flushed as it is; ping echoes share the browser's socket.  On the way   *)
(* the auxiliary chroma views are dropped, if the slice headers seen so    *)
(* far prove that no main view needs one; the SPS is edited; and the blobs *)
(* of video streams become binary frames.                                  *)
(*                                                                         *)
(* A picture is one access unit in one blob, and an instruction a few      *)
(* units that a read may part: its first unit has the length at its head.  *)
(* The encoder and the decoder are those of H.264, as far as h264_refs.rs  *)
(* and h264_aux_drop.rs speak of them: what a picture refers to, how it is *)
(* marked, and the frames that a decoder infers for gaps in frame_num.     *)
(* guacd opens one stream at a time here, so MAX_DROPPED_STREAMS and       *)
(* MAX_PENDING_STREAMS are never met, and of its instructions only a       *)
(* clipboard is longer than MAX_GUACD_CARRY.                               *)
(***************************************************************************)
EXTENDS Naturals, FiniteSets, SequencesExt

CONSTANTS
    Shapes,            \* the hosts: how their views refer and are marked
    MinMain, MinAux,   \* inter slices of each view before the gate decides
    AllowUnproven,     \* RUSTGUAC_H264_AUX_DROP=unproven
    MaxFrameNum,       \* frame_num counts modulo this
    None,
    MaxCarry,          \* MAX_GUACD_CARRY, in units
    MaxPictures,       \* bound: pictures of a run
    MaxOthers,         \* bound: other streams and instructions of a run
    WireCap            \* bound: units that guacd is ahead by

ASSUME BoundsAssumption ==
    /\ {MinMain, MinAux, MaxFrameNum, MaxCarry, MaxPictures, MaxOthers, WireCap} \subseteq Nat
    /\ AllowUnproven \in BOOLEAN

VARIABLES
    host,     \* the encoder
    wire,     \* what guacd wrote and the pump has not read
    carry,    \* what was read of an instruction that is not complete
    probe,    \* what the slice headers have said
    drop,     \* the AuxDropper
    sps,      \* the SpsRewriter
    split,    \* the streams that the BlobSplitter converts
    browser,  \* its stream, decoder and notice
    parser    \* its parser, which joins all text messages: the units that are
              \* due of an instruction; whether an echo came in between, and
              \* whether the pump has flushed a full carry

streamVars == <<host, wire, carry, probe, drop, sps, split, browser, parser>>

-----------------------------------------------------------------------------
(* H.264: the decoded picture buffer.  lt holds the long-term pictures and *)
(* st the short-term ones, the latest first.  0 is no picture, or one that *)
(* a decoder inferred.                                                     *)

NoPictures == [lt |-> [k \in {0, 1} |-> 0], st |-> <<>>, prev |-> 0]
Count(d) == Cardinality({k \in {0, 1} : d.lt[k] # 0}) + Len(d.st)

\* The sliding window evicts only short-term pictures.
Full(d, cap) == Count(d) >= cap /\ d.st = <<>>
Push(d, p, cap) ==
    [d EXCEPT !.st = <<p>> \o (IF Count(d) >= cap /\ @ # <<>> THEN Front(@) ELSE @)]

\* A gap in frame_num is filled with inferred short-term frames.
Gap(d, s) == IF s.idr THEN <<>> ELSE [i \in 1..(s.fn - 1 - d.prev) |-> d.prev + i]
InferOne(x, f) == [x EXCEPT !.dpb = Push(@, [id |-> 0, fn |-> f], x.cap)]
Infer(d, s, cap) == FoldLeft(InferOne, [dpb |-> d, cap |-> cap], Gap(d, s)).dpb

\* The default list of a P slice: short-term pictures, then long-term ones.
DefaultList(d) ==
    [i \in 1..Len(d.st) |-> d.st[i].id] \o SelectSeq(<<d.lt[0], d.lt[1]>>, LAMBDA p : p # 0)

\* The picture that a slice is predicted from: a long-term one by name, a
\* short-term one by frame_num, or one by its place in the default list.
Reference(d, s) ==
    CASE s.read = "long" -> d.lt[s.name]
      [] s.read = "relative" ->
             (IF \E i \in 1..Len(d.st) : d.st[i].fn = s.name
              THEN d.st[CHOOSE i \in 1..Len(d.st) : d.st[i].fn = s.name].id ELSE 0)
      [] s.read = "default" -> (IF s.name \in 1..Len(DefaultList(d)) THEN DefaultList(d)[s.name] ELSE 0)

Mark(d, s, cap) ==
    CASE s.idr /\ s.marks = "long" -> [NoPictures EXCEPT !.lt[0] = s.id]
      [] s.idr /\ s.marks = "short" -> [NoPictures EXCEPT !.st = <<[id |-> s.id, fn |-> 0]>>]
      [] ~ s.idr /\ s.marks = "long" -> [d EXCEPT !.lt[s.as] = s.id, !.prev = s.fn]
      [] ~ s.idr /\ s.marks = "short" -> [Push(d, [id |-> s.id, fn |-> s.fn], cap) EXCEPT !.prev = s.fn]
      [] s.marks = "none" -> d

-----------------------------------------------------------------------------
(* The host.  A shape says, of each view, how its inter slices refer       *)
(* ("long" to a chain, "relative" to the last short-term picture,          *)
(* "default" to one of the first active places), how they are marked, and  *)
(* how many reference frames there are.                                    *)

Habit(shape, view) == IF view = 0 THEN shape.main ELSE shape.aux

\* What a slice of this view may say: its references, all of them there.
Says(h, view) ==
    LET a == Habit(h.shape, view)
        d == h.dpb
        chain == IF d.lt[a.chain] # 0 THEN a.chain ELSE 0
        names == CASE a.read = "long" -> {chain}
                   [] a.read = "relative" -> {d.st[1].fn}
                   [] a.read = "default" -> 1..a.active
    IN  {[id |-> h.made + 1, view |-> view, idr |-> FALSE, fn |-> d.prev + 1, read |-> a.read, name |-> n,
          ref |-> 0, marks |-> a.marks, as |-> a.chain, active |-> a.active] : n \in names}

\* Keyframes refer to nothing; they are long-term where the chains are.
Keyframe(h, view) ==
    [id |-> h.made + 1, view |-> view, idr |-> TRUE, fn |-> 0, read |-> "none", name |-> 0,
     ref |-> 0, marks |-> IF h.shape.main.read = "long" THEN "long" ELSE "short", as |-> 0, active |-> 0]

Readable(h, view) == Habit(h.shape, view).read = "relative" => h.dpb.st # <<>>

\* The slice carries, unseen, the picture that it is predicted from.
Encode(h, s) ==
    [host |-> [h EXCEPT !.made = s.id, !.dpb = Mark(h.dpb, s, h.shape.sps.frames)],
     slice |-> [s EXCEPT !.ref = IF s.idr THEN 0 ELSE Reference(h.dpb, s)]]

\* The nth unit of an instruction; the first has its length at the head, and
\* the last its terminator.  The others may hold a semicolon in their data.
Part(i, nth, of, semi) == [in |-> i, nth |-> nth, of |-> of, last |-> nth = of, semi |-> semi \/ nth = of]
Whole(i) == Part(i, 1, 1, FALSE)

\* h264, blob and end.  Bound: every stream has the same index, so that it is
\* used again at once.
Send(s, paired) ==
    LET h264 == [op |-> "h264", view |-> s.view, key |-> s.idr, paired |-> paired, surface |-> 0]
        blob == [op |-> "blob", slice |-> s, sps |-> IF s.idr THEN host.shape.sps ELSE None,
                 enough |-> s.idr \/ host.shape.enough]
    IN  <<Whole(h264), Part(blob, 1, 2, FALSE), Part(blob, 2, 2, FALSE), Whole([op |-> "end"])>>

\* Off if the session asks for full colour, or the site switched it off.  blind
\* is history: it dropped before the headers showed all that bears on it.
for_session == [state : {"deciding", "off"}, open : {FALSE}, first : {None}, announced : {FALSE}, blind : {FALSE}]

\* The probe of a new session: counts and sets of what slice headers said, the
\* last main frame_num, max_num_ref_frames, and the picture that is coming.
NoEvidence ==
    [main |-> 0, aux |-> 0, anyAux |-> FALSE, auxRef |-> FALSE, jump |-> FALSE, last |-> None,
     mods |-> [v \in {0, 1} |-> {}], claims |-> {}, unmarked |-> FALSE,
     active |-> 1, frames |-> None, open |-> None]

StreamInit ==
    /\ host \in [shape : Shapes, dpb : {NoPictures}, made : {0}, others : {0}]
    /\ wire = <<>> /\ carry = <<>>
    /\ probe = NoEvidence
    /\ drop \in for_session
    /\ sps = [state |-> "undecided", bound |-> FALSE, gaps |-> FALSE, open |-> FALSE]
    /\ split = FALSE
    /\ browser = [open |-> None, data |-> <<>>, dpb |-> NoPictures, sps |-> None,
                  told |-> FALSE, torn |-> FALSE, wrongform |-> FALSE, lost |-> {}]
    /\ parser = [due |-> 0, spliced |-> FALSE, forced |-> FALSE]

Pump == <<carry, probe, drop, sps, split, browser, parser>>

\* One view on its own.
SendView(view, idr) ==
    /\ Len(wire) <= WireCap /\ host.made < MaxPictures
    /\ host.made = 0 => view = 0 /\ idr
    /\ \E s \in (IF idr THEN {Keyframe(host, view)} ELSE Says(host, view)) :
           LET e == Encode(host, s) IN
           /\ host' = e.host
           /\ wire' = wire \o Send(e.slice, FALSE)
    /\ UNCHANGED Pump

\* A main view, and the auxiliary view that completes it.
SendPair(idr) ==
    /\ Len(wire) <= WireCap /\ host.made + 1 < MaxPictures
    /\ host.made = 0 => idr
    /\ \E s \in (IF idr THEN {Keyframe(host, 0)} ELSE Says(host, 0)) :
           LET e == Encode(host, s) IN
           \E t \in Says(e.host, 1) :
               LET f == Encode(e.host, t) IN
               /\ host' = f.host
               /\ wire' = wire \o Send(e.slice, TRUE) \o Send(f.slice, FALSE)
    /\ UNCHANGED Pump

\* The first picture of a second monitor, of a sequence of its own; a picture
\* that is not video; a clipboard with a semicolon in it, or one that is longer
\* than the carry may be.
Other(what) ==
    LET clipboard == [op |-> "clipboard"]
        h264 == [op |-> "h264", view |-> 0, key |-> TRUE, paired |-> FALSE, surface |-> 1]
        blob == [op |-> "blob", slice |-> None, sps |-> IF what = "surface" THEN host.shape.sps ELSE None]
        size == IF what = "paste" THEN MaxCarry + 2 ELSE 2
    IN  IF what \in {"clipboard", "paste"} THEN [k \in 1..size |-> Part(clipboard, k, size, TRUE)]
        ELSE <<Whole(IF what = "surface" THEN h264 ELSE [op |-> "img"]), Whole(blob), Whole([op |-> "end"])>>
SendOther(what) ==
    /\ Len(wire) <= WireCap /\ host.others < MaxOthers /\ host.made > 0
    /\ host' = [host EXCEPT !.others = @ + 1]
    /\ wire' = wire \o Other(what)
    /\ UNCHANGED Pump

-----------------------------------------------------------------------------
(* The probe *)

\* Counts stop where the gate does not tell them apart any more.
UpTo(n, min) == IF n < min THEN n + 1 ELSE n

\* What a slice header says: not which of the active places the picture was
\* predicted from, which is told macroblock by macroblock.
parse_slice(s) ==
    [idr |-> s.idr, view |-> s.view, frame_num |-> s.fn, reference |-> s.marks # "none", active |-> s.active,
     list_mods |-> CASE s.read = "long" -> {<<"long", s.name>>}
                     [] s.read = "relative" -> {<<"relative", s.fn - s.name>>}
                     [] OTHER -> {},
     mmco |-> IF ~ s.idr /\ s.marks = "long" THEN {s.as} ELSE {}]

\* Of a parameter set, only the reference frames count for the verdict.
parse_sps(x) == x.frames

\* frame_num wraps, and a keyframe's is 0.
Delta(fn, last) == (fn + MaxFrameNum - last) % MaxFrameNum

\* An access unit's parameter sets and first slice header.
absorb(p, blob) ==
    LET s == parse_slice(blob.slice)
        main == s.view = 0
        inter == ~ s.idr
    IN  [p EXCEPT !.main = IF main /\ inter THEN UpTo(@, MinMain) ELSE @,
                  !.aux = IF ~ main /\ inter THEN UpTo(@, MinAux) ELSE @,
                  !.anyAux = @ \/ ~ main,
                  !.auxRef = @ \/ (~ main /\ s.reference),
                  !.jump = @ \/ (main /\ p.last # None /\ Delta(s.frame_num, p.last) > 1),
                  !.last = IF main THEN s.frame_num ELSE @,
                  !.mods[s.view] = @ \cup s.list_mods,
                  !.claims = IF main THEN @ ELSE @ \cup s.mmco,
                  !.unmarked = @ \/ (~ main /\ inter /\ s.mmco = {}),
                  !.active = IF main /\ inter /\ s.active > @ THEN s.active ELSE @,
                  !.frames = IF blob.sps # None THEN parse_sps(blob.sps) ELSE @]

\* Without an SPS no slice header can be read, which is only counted.
analyse(p, blob) == IF blob.sps = None /\ p.frames = None THEN p ELSE absorb(p, blob)

\* A picture is analysed when enough of it has come, or at its end.
observe(p, i) ==
    CASE i.op = "h264" -> [p EXCEPT !.open = <<>>]
      [] i.op = "blob" /\ p.open = <<>> /\ i.slice # None ->
             IF i.enough THEN [analyse(p, i) EXCEPT !.open = None] ELSE [p EXCEPT !.open = <<i>>]
      [] i.op = "end" /\ p.open # None ->
             [(IF p.open = <<>> THEN p ELSE analyse(p, p.open[1])) EXCEPT !.open = None]
      [] OTHER -> p

LongTerm(mods) == {n \in {0, 1} : <<"long", n>> \in mods}
Relative(mods) == \E m \in mods : m[1] = "relative"

\* Mutant: disjoint chains are taken to be enough.
RoomTakenForGranted(p) == FALSE

no_room_for_inferred_frames(p) ==
    p.jump /\ p.frames # None /\ p.frames <= Cardinality(LongTerm(p.mods[0] \cup p.mods[1]))

\* Main names chains that no auxiliary view claims, and none by counting back.
chains_are_separate(p) ==
    LET main == LongTerm(p.mods[0]) IN main # {} /\ main \cap p.claims = {} /\ ~ Relative(p.mods[0])

\* Main takes the default list: it keeps the views apart if every auxiliary
\* picture is long-term and only its first place is active.
default_list(p) ==
    IF p.unmarked THEN "unsafe" ELSE IF p.active > 1 THEN "unproven" ELSE "safe"

\* Whether what survives can be decoded.
verdict(p) ==
    CASE ~ p.auxRef -> IF p.jump THEN "unsafe" ELSE "safe"
      [] p.auxRef /\ chains_are_separate(p) -> IF no_room_for_inferred_frames(p) THEN "unsafe" ELSE "safe"
      [] p.auxRef /\ p.mods[0] = {} -> default_list(p)
      [] OTHER -> "unsafe"

safety(p) ==
    IF \/ ~ p.anyAux \/ p.main < MinMain \/ p.aux < MinAux
       \/ p.mods[0] # {} /\ p.claims = {}
    THEN "undecided" ELSE verdict(p)

-----------------------------------------------------------------------------
(* The dropper, on a chunk of complete instructions *)

\* H.264 of another surface than the first.
Surfaces(ins) == {ins[k].surface : k \in {k \in 1..Len(ins) : ins[k].op = "h264"}}
other_surface(d, ins) == \E a, b \in Surfaces(ins) \cup ({d.first} \ {None}) : a # b

FirstSurface(d, ins) ==
    IF d.first # None \/ Surfaces(ins) = {} THEN d.first
    ELSE ins[CHOOSE k \in 1..Len(ins) : ins[k].op = "h264" /\ \A j \in 1..(k - 1) : ins[j].op # "h264"].surface

\* Mutant: the end of a dropped stream is dropped, and the stream is still
\* taken for one.
EndForgotten(f, i) ==
    CASE i.op = "h264" /\ i.view # 0 /\ ~ i.key -> [f EXCEPT !.open = TRUE]
      [] i.op = "h264" /\ ~ (i.view # 0 /\ ~ i.key) -> [f EXCEPT !.out = Append(@, [i EXCEPT !.paired = FALSE])]
      [] i.op \in {"blob", "end"} /\ f.open -> f
      [] OTHER -> [f EXCEPT !.out = Append(@, i)]

\* Auxiliary views other than keyframes go, with their blobs and their end,
\* and main views no longer promise one.
classify(f, i) ==
    CASE i.op = "h264" /\ i.view # 0 /\ ~ i.key -> [f EXCEPT !.open = TRUE]
      [] i.op = "h264" /\ ~ (i.view # 0 /\ ~ i.key) -> [f EXCEPT !.out = Append(@, [i EXCEPT !.paired = FALSE])]
      [] i.op = "blob" /\ f.open -> f
      [] i.op = "end" /\ f.open -> [f EXCEPT !.open = FALSE]
      [] OTHER -> [f EXCEPT !.out = Append(@, i)]

\* A chunk, instruction by instruction: what is kept of it, in its order, and
\* whether it ends in a stream that is dropped.
filter(open, ins) == FoldLeft(classify, [open |-> open, out |-> <<>>], ins)

\* The state after the probe, given its verdict.
Decided(state, verdict_) ==
    CASE state = "dropping" -> IF verdict_ = "unsafe" THEN "off" ELSE "dropping"
      [] state = "deciding" ->
             IF verdict_ = "undecided" THEN "deciding"
             ELSE IF verdict_ = "safe" \/ (verdict_ = "unproven" /\ AllowUnproven) THEN "dropping" ELSE "off"
      [] state = "off" -> "off"

\* The long-term chains of a host, and whether the probe has seen all of them
\* named, a gap in the main views' frame_num, and the number of frames.
Chains(x) == {x.main.chain} \cup (IF x.aux.marks = "long" THEN {x.aux.chain} ELSE {})
Seen(p, x) == p.jump /\ p.frames # None /\ Chains(x) \subseteq LongTerm(p.mods[0] \cup p.mods[1])

\* What becomes of the probe, the dropper and the chunk.
process(ins) ==
    LET second == drop.state # "off" /\ other_surface(drop, ins)
        p == IF second THEN probe ELSE FoldLeft(observe, probe, ins)
        state == IF second THEN "off" ELSE Decided(drop.state, safety(p))
        f == IF state = "dropping" THEN filter(drop.open, ins)
             ELSE [open |-> drop.open, out |-> ins]
    IN  [probe |-> p, out |-> f.out,
         drop |-> [state |-> state, open |-> f.open, announced |-> state = "dropping",
                   blind |-> drop.blind \/ (state = "dropping" /\ ~ Seen(p, host.shape)),
                   first |-> IF drop.state = "off" THEN drop.first ELSE FirstSurface(drop, ins)]]

wants_frame_num_gaps(d) == d.state # "off"

-----------------------------------------------------------------------------
(* The SPS *)

(* colour is "described", "bare" (a range and no description), or "none" (no *)
(* VUI, or values that the host left unspecified); reorder is "bounded", or  *)
(* "open" where the POC type allows the bound to be declared.                *)

needs_description(x) == x.colour = "bare"
reordering_unbounded(x) == x.reorder = "open"
complete_colour_signalling(x) == IF x.colour = "bare" THEN [x EXCEPT !.colour = "described"] ELSE x
declare_no_reordering(x) == [x EXCEPT !.reorder = "bounded"]
allow_frame_num_gaps(x) == [x EXCEPT !.gaps = TRUE]

\* The first SPS decides what every later one is given; gaps are up to the
\* dropper.
rewritten_payload(r, i) ==
    LET first == r.state = "undecided"
        now == [r EXCEPT !.state = IF first THEN (IF needs_description(i.sps) THEN "rewriting" ELSE "pass") ELSE @,
                         !.bound = IF first THEN reordering_unbounded(i.sps) ELSE @]
        a == IF now.state = "rewriting" THEN complete_colour_signalling(i.sps) ELSE i.sps
        b == IF now.bound THEN declare_no_reordering(a) ELSE a
    IN  [sps |-> now, blob |-> [i EXCEPT !.sps = IF now.gaps THEN allow_frame_num_gaps(b) ELSE b]]

RewriteOne(r, i) ==
    LET w == rewritten_payload(r.sps, i) IN
    CASE i.op = "h264" -> [r EXCEPT !.sps.open = TRUE, !.out = Append(@, i)]
      [] i.op = "end" -> [r EXCEPT !.sps.open = FALSE, !.out = Append(@, i)]
      [] i.op = "blob" /\ r.sps.open /\ i.sps # None -> [sps |-> w.sps, out |-> Append(r.out, w.blob)]
      [] OTHER -> [r EXCEPT !.out = Append(@, i)]

rewrite(x, ins) ==
    IF x.state = "pass" /\ ~ x.bound /\ ~ x.gaps THEN [sps |-> x, out |-> ins]
    ELSE FoldLeft(RewriteOne, [sps |-> x, out |-> <<>>], ins)

-----------------------------------------------------------------------------
(* Binary frames *)

split_one(x, i) ==
    [open |-> i.op = "h264" \/ (x.open /\ i.op # "end"),
     out |-> Append(x.out, [in |-> i, binary |-> i.op = "blob" /\ x.open])]

-----------------------------------------------------------------------------
(* The browser *)

\* Decodes a picture.  It is lost if there is no room for a frame that has to
\* be inferred, if a gap was not permitted, or if it refers to another picture
\* than the host's encoder did.
decode(b, s) ==
    LET cap == b.sps.frames
        d == Infer(b.dpb, s, cap)
        gap == Gap(b.dpb, s) # <<>>
        fine == s.idr \/ (Reference(d, s) = s.ref /\ ~ (gap /\ (~ b.sps.gaps \/ Full(b.dpb, cap))))
    IN  [b EXCEPT !.dpb = Mark(d, s, cap),
                  !.lost = IF fine THEN @ ELSE @ \cup {s.view}]

\* A stream is opened, at whatever was its index before; gets data, in a text
\* or a binary frame; and ends, when what came is decoded.
onopen(b, i) == [b EXCEPT !.open = i, !.data = <<>>, !.torn = @ \/ b.open # None]
onblob(b, x) ==
    [b EXCEPT !.data = Append(@, x.in.slice),
              !.sps = IF x.in.slice # None /\ x.in.sps # None THEN x.in.sps ELSE @,
              !.wrongform = @ \/ (x.binary /\ b.open.op # "h264")]
onend(b) ==
    [(IF b.data # <<>> /\ b.data[1] # None THEN decode(b, b.data[1]) ELSE b)
        EXCEPT !.open = None, !.data = <<>>, !.torn = @ \/ b.data = <<>>]

\* What is for no stream is taken for nothing.
receive(b, x) ==
    CASE x.in.op \in {"h264", "img"} -> onopen(b, x.in)
      [] x.in.op = "blob" /\ b.open # None -> onblob(b, x)
      [] x.in.op = "end" /\ b.open # None -> onend(b)
      [] OTHER -> b

-----------------------------------------------------------------------------
(* The pump *)

\* Mutant: the last semicolon ends an instruction.
LastSemicolon(units) == SelectLastInSeq(units, LAMBDA u : u.semi)

\* The end of the last complete instruction, 0 if there is none: the length at
\* the head of an instruction says where the next one is.  Where no length is
\* to be found the scan stops.
scan(x, u) ==
    LET due == IF x.due = 0 THEN u.of - 1 ELSE x.due - 1 IN
    IF x.stop \/ (x.due = 0 /\ u.nth # 1) THEN [x EXCEPT !.stop = TRUE]
    ELSE [stop |-> FALSE, due |-> due, at |-> x.at + 1, end |-> IF due = 0 THEN x.at + 1 ELSE x.end]
last_instruction_boundary(units) ==
    FoldLeft(scan, [stop |-> FALSE, due |-> 0, at |-> 0, end |-> 0], units).end

\* The instructions that end in these units.
element(ins, u) == IF u.last THEN Append(ins, u.in) ELSE ins
Instructions(units) == FoldLeft(element, <<>>, units)

\* The browser's parser waits for what is due of an instruction.
Received(due, u) == IF due = 0 THEN u.of - 1 ELSE due - 1

\* A chunk goes through the dropper, the rewriter and the splitter, and then
\* to the browser under the lock of its socket, behind the notice of a drop
\* that begins or ends.  What the recording gets is the chunk itself.
Forward(sent) ==
    LET a == process(Instructions(sent))
        r == rewrite([sps EXCEPT !.gaps = wants_frame_num_gaps(a.drop)], a.out)
        x == FoldLeft(split_one, [open |-> split, out |-> <<>>], r.out)
    IN
    /\ probe' = a.probe /\ drop' = a.drop /\ sps' = r.sps /\ split' = x.open
    /\ browser' = FoldLeft(receive, [browser EXCEPT !.told = a.drop.announced], x.out)
    /\ parser' = [parser EXCEPT !.due = FoldLeft(Received, @, sent)]

\* A full carry that holds no complete instruction is sent as it is: neither
\* the dropper nor the others find an instruction in it.  The browser does, of
\* the ones that end there.
FlushFull(sent) ==
    LET ins == Instructions(sent)
        text == [k \in 1..Len(ins) |-> [in |-> ins[k], binary |-> FALSE]]
    IN
    /\ browser' = FoldLeft(receive, browser, text)
    /\ parser' = [parser EXCEPT !.due = FoldLeft(Received, @, sent), !.forced = TRUE]
    /\ UNCHANGED <<probe, drop, sps, split>>

\* A read, which ends anywhere.  A browser whose parser failed has closed the
\* tunnel.
guacd_to_ws(n) ==
    LET units == carry \o SubSeq(wire, 1, n)
        boundary == last_instruction_boundary(units)
        flushed == boundary = 0 /\ Len(units) > MaxCarry
        end == IF flushed THEN Len(units) ELSE boundary
        sent == SubSeq(units, 1, end)
    IN
    /\ ~ parser.spliced
    /\ wire' = SubSeq(wire, n + 1, Len(wire))
    /\ carry' = SubSeq(units, end + 1, Len(units))
    /\ \/ end = 0 /\ UNCHANGED <<probe, drop, sps, split, browser, parser>>
       \/ boundary # 0 /\ Forward(sent)
       \/ flushed /\ FlushFull(sent)
    /\ UNCHANGED host

\* A ping of the browser is echoed at once, on the same socket.
ws_to_guacd ==
    /\ parser' = [parser EXCEPT !.spliced = @ \/ parser.due # 0]
    /\ UNCHANGED <<host, wire, carry, probe, drop, sps, split, browser>>

-----------------------------------------------------------------------------
StreamNext ==
    \/ \E view \in {0, 1}, idr \in BOOLEAN : Readable(host, view) /\ SendView(view, idr)
    \/ \E idr \in BOOLEAN : Readable(host, 0) /\ SendPair(idr)
    \/ \E what \in {"surface", "img", "clipboard", "paste"} : SendOther(what)
    \/ \E n \in 1..Len(wire) : guacd_to_ws(n)
    \/ ws_to_guacd

StreamSpec == StreamInit /\ [][StreamNext]_streamVars

-----------------------------------------------------------------------------
(* The hosts.  Chain 0 is the one that a keyframe begins.                  *)

Habits == [read : {"long", "relative", "default"}, chain : {0, 1}, marks : {"long", "short", "none"}, active : Nat]
Parameters == [frames : Nat, colour : {"described", "bare", "none"}, reorder : {"bounded", "open"}, gaps : BOOLEAN]

\* Bound: where the main views are a chain and the auxiliary ones short-term
\* references, there is room for one.
Described(x) ==
    /\ x \in [main : Habits, aux : Habits, sps : Parameters, enough : BOOLEAN]
    /\ x.main.chain = 0
    /\ x.main.read = "long" /\ x.aux.marks = "short" => x.sps.frames >= 3

\* The views are two chains, which take up all the frames.
NoRoom(x) == x.main.read = "long" /\ x.aux.marks = "long" /\ x.aux.chain # 0 /\ x.sps.frames <= 2

\* The main views take the default list and the auxiliary ones are long-term:
\* the frame that is inferred for a dropped one is short-term, and comes first.
InferredFirst(x) ==
    x.main.read = "default" /\ x.aux.marks = "long" /\ (x.main.active <= 1 \/ AllowUnproven)

-----------------------------------------------------------------------------
(* Properties *)

\* The probe's counts, the states of the dropper and the rewriter, and the
\* notice in the browser, which follows the dropper.
StreamTypeOK ==
    /\ probe.main \in 0..MinMain /\ probe.aux \in 0..MinAux
    /\ drop.state \in {"deciding", "dropping", "off"}
    /\ drop.announced = (drop.state = "dropping")
    /\ sps.state \in {"undecided", "rewriting", "pass"}
    /\ browser.told = drop.announced

\* The echo of a ping lands inside an instruction, in the stream that the
\* browser's parser joins from all text messages, only after the pump flushed
\* a full carry: wherever a read parts guacd's stream, and whatever semicolons
\* are in its data, any other message ends where an instruction ends.
NeverSpliced == parser.spliced => parser.forced

\* A stream that the browser is told of gets its data and its end, whatever
\* had the same index before, and no blob comes in a binary frame but to a
\* reader that takes one.  (A full carry passes by the dropper, the rewriter and
\* the splitter, which then take later instructions for another stream's.)
WholeStreams == parser.forced \/ (~ browser.torn /\ ~ browser.wrongform)

\* Every main view is predicted from the picture that the host predicted it
\* from, and the decoder always has room for the frames it has to infer,
\* whatever is dropped and wherever the reads part the stream; but for two
\* kinds of host.  Of one without room, views may be lost if the gate opened
\* before the headers had shown both chains and a gap, and not otherwise; of
\* one whose default list an inferred frame heads, at any time.
MainViewsIntact ==
    0 \in browser.lost =>
        \/ parser.forced
        \/ NoRoom(host.shape) /\ drop.blind
        \/ InferredFirst(host.shape)
=============================================================================
