-------------------------------- MODULE Mosaic --------------------------------
(***************************************************************************)
(* service/mosaic.py: how the protected objects of one frame are covered.     *)
(* The frame is not blurred as a whole: polygons that are near each other are  *)
(* grouped, each group gets a mask in a crop of its own, and the blur is       *)
(* computed for each mask or for all of them, from the pixels it can reach.    *)
(* The docstrings promise that none of this shows (mosaic.py:128, 230).        *)
(*                                                                         *)
(* A pixel is <<x, y>>, a polygon the box of its corners.  Opacity is the      *)
(* squared distance it is a falling function of, 0 for opaque.  A blurred      *)
(* pixel is the cells of the reduced image it is mixed from, for each axis.    *)
(***************************************************************************)
EXTENDS Integers, Sequences, SequencesExt

CONSTANTS
    Width, Height,      \* of the frame
    Scenes,             \* bound: the objects of a frame, sequences of [outline,
                        \* whitelisted, plate]; an outline is <<x1, y1, x2, y2>>
                        \* and may reach outside the frame
    Settings,           \* bound: [margin, pad, radius, pixel] that clients send
    DefaultMargin,      \* DEFAULT_MASK_MARGIN, also the width of the taper
    MaxMargin, MaxPad,  \* MAX_MASK_MARGIN, MAX_MASK_PAD
    MaxRadius, MaxPixel,\* MAX_BLUR_RADIUS, MAX_PIXEL_SIZE
    MaxSigma            \* MAX_REDUCED_SIGMA

ASSUME MosaicAssumption ==
    /\ {Width, Height, DefaultMargin, MaxRadius, MaxPixel, MaxSigma} \subseteq Nat \ {0}
    /\ {MaxMargin, MaxPad} \subseteq Nat
    /\ \A s \in Scenes : s \in Seq([outline : Int \X Int \X Int \X Int,
                                  whitelisted : BOOLEAN, plate : BOOLEAN])
    /\ Settings \subseteq [margin : Int, pad : Int, radius : Int, pixel : Int]

VARIABLES
    step,        \* the next stage, "refused" for a ValueError
    setting,     \* the parameters of the frame
    format,      \* whose entry point was called
    items,       \* the frame's objects
    listed,      \* how many of them were looked at
    polygons,    \* protected polygons that are in no group yet
    group,       \* the one that is growing: its crop and members, or NoGroup
    groups,      \* those that are complete
    painted       \* what the pixels that changed are made of

mosaicVars == <<step, setting, format, items, listed, polygons, group, groups, painted>>

Area == (0..(Width - 1)) \X (0..(Height - 1))
Full == [left |-> 0, top |-> 0, right |-> Width, bottom |-> Height]
NoGroup == [crop |-> Full, members |-> {}]
Formats == {"jpeg", "raw", "bgr"}

Within(low, n, high) == Max({low, Min({n, high})})
CeilDiv(n, d) == (n + d - 1) \div d
Apart(a, b) == Max({a - b, b - a})
Sq(n) == n * n

MosaicInit ==
    /\ step = "called"
    /\ setting \in Settings
    /\ format \in Formats
    /\ items \in Scenes
    /\ listed = 0 /\ polygons = <<>> /\ group = NoGroup /\ groups = <<>>
    /\ painted = <<>>

Refuse == step' = "refused" /\ UNCHANGED <<setting, format, items, listed, polygons, group, groups, painted>>

-----------------------------------------------------------------------------
(* The entry points and what they refuse.                                      *)

ValidParams(s) == s.radius \in 1..MaxRadius /\ s.pixel \in 1..MaxPixel
ValidMargin(s) == s.margin \in 0..MaxMargin
ValidPad(s) == s.pad \in 0..MaxPad

\* An outline is clipped to the frame; on its edge it may be left without area.
Polygon(o) ==
    <<Within(0, o[1], Width - 1), Within(0, o[2], Height - 1),
      Within(0, o[3], Width - 1), Within(0, o[4], Height - 1)>>
HasArea(p) == p[1] < p[3] /\ p[2] < p[4]

\* Whitelisted faces are skipped, plates never are.
Protected(item) == ~item.whitelisted \/ item.plate
ProtectedPolygons ==
    {Polygon(items[i].outline) : i \in {j \in DOMAIN items : Protected(items[j])}}

\* _compose_protected up to its polygons.
Composes ==
    IF ValidParams(setting) /\ ValidMargin(setting) /\ ValidPad(setting)
    THEN /\ step' = IF items = <<>> THEN "grouping" ELSE "listing"
         /\ UNCHANGED <<setting, format, items, listed, polygons, group, groups, painted>>
    ELSE Refuse

NextObject ==
    LET item == items[listed + 1]
        outline == Polygon(item.outline)
    IN /\ step = "listing"
       /\ \/ Protected(item) /\ ~HasArea(outline) /\ Refuse
          \/ /\ \/ ~Protected(item) /\ UNCHANGED polygons
                \/ Protected(item) /\ HasArea(outline) /\ polygons' = Append(polygons, outline)
             /\ listed' = listed + 1
             /\ step' = IF listed' = Len(items) THEN "grouping" ELSE "listing"
             /\ UNCHANGED <<setting, format, items, group, groups, painted>>

MosaicJpeg == step = "called" /\ format = "jpeg" /\ Composes

MosaicYuv420p ==
    /\ step = "called" /\ format = "raw"
    /\ IF Width % 2 = 0 /\ Height % 2 = 0 THEN Composes ELSE Refuse

MosaicBgr == step = "called" /\ format = "bgr" /\ Composes

-----------------------------------------------------------------------------
(* _group_polygons                                                             *)

\* Mutant of Reach: the empty row that the taper needs is left out.
ReachShort == setting.pad + setting.margin

\* The pad, the taper, and the row beyond it that the taper is measured from.
Reach == setting.pad + setting.margin + 1

Widened(p) ==
    [left |-> Max({0, p[1] - Reach}), top |-> Max({0, p[2] - Reach}),
     right |-> Min({Width, p[3] + 1 + Reach}), bottom |-> Min({Height, p[4] + 1 + Reach})]

Overlap(a, b) == a.left < b.right /\ b.left < a.right /\ a.top < b.bottom /\ b.top < a.bottom

Hull(a, b) ==
    [left |-> Min({a.left, b.left}), top |-> Min({a.top, b.top}),
     right |-> Max({a.right, b.right}), bottom |-> Max({a.bottom, b.bottom})]

NextPolygon ==
    /\ step = "grouping" /\ group = NoGroup /\ polygons # <<>>
    /\ group' = [crop |-> Widened(Head(polygons)), members |-> {Head(polygons)}]
    /\ polygons' = Tail(polygons)
    /\ UNCHANGED <<step, setting, format, items, listed, groups, painted>>

Touched == {i \in DOMAIN groups : Overlap(group.crop, groups[i].crop)}

\* What has grown may overlap a group that it did not before.
Absorb ==
    /\ step = "grouping" /\ group # NoGroup /\ Touched # {}
    /\ LET i == Min(Touched)
       IN /\ group' = [crop |-> Hull(group.crop, groups[i].crop),
                       members |-> group.members \cup groups[i].members]
          /\ groups' = RemoveAt(groups, i)
    /\ UNCHANGED <<step, setting, format, items, listed, polygons, painted>>

Complete ==
    /\ step = "grouping" /\ group # NoGroup /\ Touched = {}
    /\ groups' = Append(groups, group)
    /\ group' = NoGroup
    /\ UNCHANGED <<step, setting, format, items, listed, polygons, painted>>

-----------------------------------------------------------------------------
(* The mask of a crop, and its opacity.                                        *)

In(crop) == (crop.left..(crop.right - 1)) \X (crop.top..(crop.bottom - 1))

\* MORPH_ELLIPSE: a row reaches as far as the root of r^2 - dy^2, rounded.
Ellipse(r) ==
    {d \in (-r..r) \X (-r..r) :
        d[1] = 0 \/ Sq(2 * Apart(d[1], 0) - 1) <= 4 * (Sq(r) - Sq(d[2]))}

Dilated(mask, r, crop) ==
    {p \in In(crop) : \E d \in Ellipse(r) : <<p[1] + d[1], p[2] + d[2]>> \in mask}

FillPolygons(members, crop) ==
    Dilated({p \in In(crop) : \E m \in members : p[1] \in m[1]..m[3] /\ p[2] \in m[2]..m[4]},
            setting.pad, crop)

\* distanceTransform, squared; 0 stands for "there is none".
Distance(p, set) ==
    IF set = {} THEN 0 ELSE Min({Sq(p[1] - q[1]) + Sq(p[2] - q[2]) : q \in set})

\* cv2.boundingRect
Bounds(pixels) ==
    LET xs == {p[1] : p \in pixels}
        ys == {p[2] : p \in pixels}
    IN [left |-> Min(xs), top |-> Min(ys), right |-> Max(xs) + 1, bottom |-> Max(ys) + 1]

\* What the two branches compute on: a mask's bounds, and d around them.
Around(mask, d, crop) ==
    LET box == Bounds(mask)
    IN In([left |-> Max({crop.left, box.left - d}), top |-> Max({crop.top, box.top - d}),
           right |-> Min({crop.right, box.right + d}), bottom |-> Min({crop.bottom, box.bottom + d})])

\* A custom margin: the taper, as wide as the default at most, ends at the margin.
Tapered(mask, crop) ==
    LET m == setting.margin
        opaque == m + 1 - Min({m, DefaultMargin})
        near == {p \in Around(mask, m, crop) : Distance(p, mask) <= Sq(m)}
    IN [p \in near |-> LET d == Distance(p, mask) IN IF d <= Sq(opaque) THEN 0 ELSE d]

\* The default margin: opaque in the mask, and in what it is dilated to from
\* a margin's distance to the first empty pixel on.
Feathered(mask, crop) ==
    LET m == DefaultMargin
        region == Around(mask, m + 1, crop)
        expanded == Dilated(mask, m, crop)
        inward(p) == Distance(p, region \ expanded)
    IN [p \in expanded |->
           IF p \in mask \/ inward(p) = 0 \/ inward(p) >= Sq(m) THEN 0
           ELSE Sq(m) - inward(p)]

\* _feathered_mask; pixels that are not in its domain stay as they are.
FeatheredMask(mask, crop) ==
    IF setting.margin = 0 THEN [p \in mask |-> 0]
    ELSE IF setting.margin # DefaultMargin THEN Tapered(mask, crop)
    ELSE Feathered(mask, crop)

Layer(g) == FeatheredMask(FillPolygons(g.members, g.crop), g.crop)

-----------------------------------------------------------------------------
(* The blur.                                                                   *)

ReductionCell == Max({setting.pixel, CeilDiv(setting.radius, MaxSigma)})
Kernel == CeilDiv(3 * setting.radius, ReductionCell)
BlurSupport == ReductionCell * (Kernel + 3)

\* BORDER_REFLECT_101 on n cells.
Reflected(k, n) ==
    IF n = 1 THEN 0
    ELSE LET period == 2 * (n - 1)
             r == k % period
         IN IF r < n THEN r ELSE period - r

\* Along one axis of a crop from low to high: the cells, each known by its first
\* pixel, whose Gaussian mixture (d[2]) the interpolation of pixel p takes (d[1]).
Reads(p, low, high) ==
    LET n == CeilDiv(high - low, ReductionCell)
        cell == (p - low) \div ReductionCell
    IN [d \in (-1..1) \X (-Kernel..Kernel) |->
           low + ReductionCell * Reflected(Within(0, cell + d[1], n - 1) + d[2], n)]

\* The crop around a box: the grid is the frame's.
Aligned(n) == (n \div ReductionCell) * ReductionCell
BlurCrop(box) ==
    [left |-> Aligned(Max({0, box.left - BlurSupport})),
     top |-> Aligned(Max({0, box.top - BlurSupport})),
     right |-> Min({Width, ReductionCell * CeilDiv(box.right + BlurSupport, ReductionCell)}),
     bottom |-> Min({Height, ReductionCell * CeilDiv(box.bottom + BlurSupport, ReductionCell)})]

FrameBlur(p, crop) ==
    <<Reads(p[1], crop.left, crop.right), Reads(p[2], crop.top, crop.bottom)>>

BlurArea(box) ==
    (Min({Width, box.right + BlurSupport}) - Max({0, box.left - BlurSupport}))
  * (Min({Height, box.bottom + BlurSupport}) - Max({0, box.top - BlurSupport}))

\* One blur for all layers when they are dense, else one each.
Joint(boxes) ==
    [left |-> Min({boxes[i].left : i \in DOMAIN boxes}), top |-> Min({boxes[i].top : i \in DOMAIN boxes}),
     right |-> Max({boxes[i].right : i \in DOMAIN boxes}),
     bottom |-> Max({boxes[i].bottom : i \in DOMAIN boxes})]
BlurAreas(boxes) == FoldLeft(LAMBDA sum, box : sum + BlurArea(box), 0, boxes)
LayerCrop(box, joint, areas) == BlurCrop(IF areas >= BlurArea(joint) THEN joint ELSE box)

\* A layer is written to all of its box, over what an earlier one wrote there:
\* where it has no weight, the frame comes back.
Writer(boxes, p) == Max({i \in DOMAIN boxes : p \in In(boxes[i])})

BlendLayers(layers) ==
    LET boxes == [i \in DOMAIN layers |-> Bounds(DOMAIN layers[i])]
        joint == Joint(boxes)
        areas == BlurAreas(boxes)
        weighed == {p \in UNION {DOMAIN layers[i] : i \in DOMAIN layers} :
                        p \in DOMAIN layers[Writer(boxes, p)]}
    IN [p \in weighed |->
           LET i == Writer(boxes, p)
           IN <<layers[i][p], FrameBlur(p, LayerCrop(boxes[i], joint, areas))>>]

Blend ==
    /\ step = "grouping" /\ group = NoGroup /\ polygons = <<>>
    /\ painted' = IF groups = <<>> THEN <<>>
                 ELSE BlendLayers([i \in DOMAIN groups |-> Layer(groups[i])])
    /\ step' = IF format = "bgr" THEN "answered" ELSE "encoding"
    /\ UNCHANGED <<setting, format, items, listed, polygons, group, groups>>

\* The encoder fails, or its JPEG is larger than the frame's limit.
Encode ==
    /\ step = "encoding"
    /\ step' \in {"answered", "refused"}
    /\ UNCHANGED <<setting, format, items, listed, polygons, group, groups, painted>>

MosaicNext ==
    \/ MosaicJpeg \/ MosaicYuv420p \/ MosaicBgr \/ NextObject
    \/ NextPolygon \/ Absorb \/ Complete \/ Blend \/ Encode

MosaicSpec == MosaicInit /\ [][MosaicNext]_mosaicVars

-----------------------------------------------------------------------------
(* Properties                                                                  *)

\* One mask and one blur of the whole frame.
WholeFrame ==
    LET layer == Layer([crop |-> Full, members |-> ProtectedPolygons])
    IN IF ProtectedPolygons = {} THEN <<>> ELSE [p \in DOMAIN layer |-> <<layer[p], FrameBlur(p, Full)>>]

\* Whoever is not whitelisted, and every plate, is opaque in an answer
\* (mosaic.py:370).
ProtectedAreOpaque ==
    step = "answered" =>
        \A i \in DOMAIN items : items[i].plate \/ ~items[i].whitelisted =>
            LET m == Polygon(items[i].outline)
            IN \A p \in (m[1]..m[3]) \X (m[2]..m[4]) : p \in DOMAIN painted /\ painted[p][1] = 0

(* An answer hides what it has to, and is what one mask and one blur of the whole    *)
(* frame would have drawn, pixel by pixel, however its polygons were grouped,      *)
(* cropped and blurred (mosaic.py:128, 230).                                      *)
AnswersShowTheWhole ==
    /\ ProtectedAreOpaque
    /\ step = "answered" => painted = WholeFrame
=============================================================================
