-------------------------------- MODULE Sizing --------------------------------
(****************************************************************************)
(* The size the store advises: which chart a product takes, what the        *)
(* shopper has to tell for it, and the row the told measures lead to.       *)
(* The charts are written to the millimetre and to 0.1 kg. What is told is  *)
(* a number of any precision, so measures count halves of these: the odd    *)
(* ones lie between two values of a chart, and 57.95 kg, between two of its *)
(* rows, is one of them. The code only compares measures with the ends of   *)
(* rows and with each other's distance to a row, so whatever lies between   *)
(* two values of a chart fares like the half.                               *)
(*                                                                          *)
(* A behaviour is a shopper with one product who tells measures, corrects   *)
(* one, or comes back with a larger one; the advice is a function of what   *)
(* is told.                                                                 *)
(****************************************************************************)
EXTENDS Integers, Sequences, FiniteSets, FiniteSetsExt

CONSTANTS
    Items,        \* bound: products, [department, category, hint, fit]
    Measures,     \* bound: measures a shopper may tell
    NoSize

ASSUME SizeAssumption ==
    /\ {"height", "weight", "foot", "waist", "head"} \subseteq Measures
    /\ NoSize \notin 1..14    \* NoSize is no row of a chart

VARIABLES
    item,      \* the product
    measured   \* the measures told, 0 for one that is not

sizeVars == <<item, measured>>
-----------------------------------------------------------------------------
(* The charts.                                                               *)

\* From the charts' units to halves of them.
Band(h, hh, w, ww) == [height |-> <<2 * h, 2 * hh>>, weight |-> <<2 * w, 2 * ww>>]

MenTops == << Band(1500, 1679, 450, 579), Band(1680, 1739, 580, 679),
              Band(1740, 1799, 680, 779), Band(1800, 1859, 780, 879),
              Band(1860, 2000, 880, 1200) >>

\* The women's tops and bottoms and the dresses have the same rows.
WomenRows == << Band(1500, 1579, 420, 499), Band(1580, 1649, 500, 579),
                Band(1650, 1719, 580, 679), Band(1720, 1799, 680, 799),
                Band(1800, 1950, 800, 1100) >>

MenBottoms == << Band(1600, 1679, 500, 599), Band(1680, 1739, 600, 699),
                 Band(1740, 1799, 700, 799), Band(1800, 1859, 800, 899),
                 Band(1860, 2000, 900, 1200) >>

Bands(kind, gender) ==
    IF kind = "dress" \/ gender = "women" THEN WomenRows
    ELSE IF kind = "tops" THEN MenTops ELSE MenBottoms

FootRows(gender) == IF gender = "men" THEN [i \in 1..14 |-> 470 + 10 * i]
                                      ELSE [i \in 1..12 |-> 430 + 10 * i]

WaistRows == <<1320, 1422, 1524, 1626, 1728, 1828, 1930, 2032>>

HeadRows == << <<1080, 1100>>, <<1120, 1140>>, <<1160, 1180>>, <<1200, 1220>> >>
-----------------------------------------------------------------------------
(* Which chart.                                                              *)

\* A part of the store's map: its kinds, an adult category that means two
\* things, one that means none, and children's clothes.
KindMap == {
    [department |-> "men",   category |-> "shirts",      kind |-> "tops"],
    [department |-> "women", category |-> "blouses",     kind |-> "tops"],
    [department |-> "men",   category |-> "jeans",       kind |-> "bottoms"],
    [department |-> "women", category |-> "jeans",       kind |-> "bottoms"],
    [department |-> "girls", category |-> "jeans",       kind |-> "unsupported"],
    [department |-> "men",   category |-> "casual",      kind |-> "bottoms"],
    [department |-> "women", category |-> "casual",      kind |-> "dress"],
    [department |-> "men",   category |-> "boots",       kind |-> "footwear"],
    [department |-> "women", category |-> "boots",       kind |-> "footwear"],
    [department |-> "men",   category |-> "belts",       kind |-> "belt"],
    [department |-> "men",   category |-> "hats",        kind |-> "headwear"],
    [department |-> "men",   category |-> "necklaces",   kind |-> "one_size"],
    [department |-> "other", category |-> "luggage",     kind |-> "dimensions"],
    [department |-> "men",   category |-> "accessories", kind |-> "unsupported"]}

Kids == {"baby", "boys", "girls"}

KindsFor(i) == {e.kind : e \in {x \in KindMap :
    /\ x.category = i.category
    /\ IF i.department # "" THEN x.department = i.department
                            ELSE x.department \notin Kids}}

\* A bare category counts when the adults' entries agree; a title tells only
\* what the map leaves open, and nothing of children's clothes.
SizeKind(i) ==
    LET base == IF Cardinality(KindsFor(i)) = 1 THEN CHOOSE k \in KindsFor(i) : TRUE
                ELSE "unsupported"
    IN  IF i.department \in Kids THEN "unsupported"
        ELSE IF base = "unsupported" /\ i.hint # "" THEN i.hint
        ELSE base

Gender(i) == IF i.department = "women" THEN "women" ELSE "men"

Required(kind) ==
    CASE kind \in {"tops", "bottoms", "dress"} -> {"height", "weight"}
      [] kind = "footwear" -> {"foot"}
      [] kind = "belt"     -> {"waist"}
      [] kind = "headwear" -> {"head"}
      [] OTHER             -> {}
-----------------------------------------------------------------------------
(* Which row.                                                                *)

In(v, range) == range[1] <= v /\ v <= range[2]
Gap(a, b) == IF a < b THEN b - a ELSE a - b

\* The first row that has the value, or 0: past the ends and between two rows.
RowOf(rows, v) ==
    LET hit == {i \in DOMAIN rows : In(v, rows[i])}
    IN  IF hit = {} THEN 0 ELSE Min(hit)

\* The first of the nearest rows.
Nearest(rows, v) ==
    Min({i \in DOMAIN rows : \A j \in DOMAIN rows : Gap(rows[i], v) <= Gap(rows[j], v)})

Ends(rows) == <<rows[1], rows[Len(rows)]>>

\* Mutant: a weight off the chart leaves the height to decide.
ByHeightAtLast(kind, gender, m) ==
    LET rows == Bands(kind, gender)
        tall == RowOf([i \in DOMAIN rows |-> rows[i].height], m["height"])
        row  == RowOf([i \in DOMAIN rows |-> rows[i].weight], m["weight"])
    IN  IF tall = 0 THEN NoSize ELSE IF row = 0 THEN tall ELSE row

\* The weight decides; the height has to be on the chart.
ByBody(kind, gender, m) ==
    LET rows == Bands(kind, gender)
        tall == RowOf([i \in DOMAIN rows |-> rows[i].height], m["height"])
        row  == RowOf([i \in DOMAIN rows |-> rows[i].weight], m["weight"])
    IN  IF tall = 0 \/ row = 0 THEN NoSize ELSE row

\* Bottoms with a told waist are sized by it, whatever its value, in the labels
\* of the waist table.
BottomsSize(gender, m) ==
    IF ByBody("bottoms", gender, m) = NoSize THEN NoSize
    ELSE IF m["waist"] = 0 THEN ByBody("bottoms", gender, m)
    ELSE Nearest(WaistRows, m["waist"])

ByLength(rows, v) == IF In(v, Ends(rows)) THEN Nearest(rows, v) ELSE NoSize

HeadSize(v) ==
    IF ~In(v, <<HeadRows[1][1], HeadRows[4][2]>>) THEN NoSize
    ELSE IF RowOf(HeadRows, v) # 0 THEN RowOf(HeadRows, v)
    ELSE Nearest([i \in DOMAIN HeadRows |-> HeadRows[i][1]], v)

\* One size up for a brand that runs small, one down for one that runs large,
\* within S..XXL.
Shifted(size, fit) ==
    IF size = NoSize THEN size
    ELSE Max({1, Min({5, size + (CASE fit = "small" -> 1 [] fit = "large" -> -1
                                   [] OTHER -> 0)})})

\* recommend_size_core: the row of the kind's chart, or that the store does not
\* say.
Advice(i, m) ==
    LET kind == SizeKind(i)
        ready == \A r \in Required(kind) : m[r] # 0
    IN  IF ~ready THEN NoSize
        ELSE CASE kind = "tops"     -> Shifted(ByBody(kind, Gender(i), m), i.fit)
               [] kind = "bottoms"  -> BottomsSize(Gender(i), m)
               [] kind = "dress"    -> ByBody(kind, Gender(i), m)
               [] kind = "footwear" -> ByLength(FootRows(Gender(i)), m["foot"])
               [] kind = "belt"     -> ByLength(WaistRows, m["waist"])
               [] kind = "headwear" -> HeadSize(m["head"])
               [] kind = "one_size" -> 1
               [] OTHER             -> NoSize
-----------------------------------------------------------------------------
\* What a measure may be: the ends of the rows, what lies between two rows, either
\* side of the middle between two rows (in the middle itself the rounding of the
\* floats decides), and past each end of the chart.
Around(s) == s \cup {Min(s) - 1, Max(s) + 1}

Steps(rows) ==
    {rows[n] : n \in DOMAIN rows}
    \cup {(rows[n] + rows[n + 1]) \div 2 + d : n \in 1..Len(rows) - 1, d \in {-1, 1}}

HeadMarks == {HeadRows[n][1] : n \in 1..4} \cup {HeadRows[4][2]}
             \cup {HeadRows[n][2] + d : n \in 1..3, d \in {0, 1, 10, 19}}

BandMarks(rows, m) == {rows[n][m][e] : n \in 1..5, e \in 1..2}
                      \cup {rows[n][m][2] + 1 : n \in 1..4}

MarksOf(i, m) ==
    Around(CASE m = "foot"  -> Steps(FootRows(Gender(i)))
             [] m = "waist" -> Steps(WaistRows)
             [] m = "head"  -> HeadMarks
             [] OTHER       -> BandMarks(Bands(SizeKind(i), Gender(i)), m))

InitSize ==
    /\ item \in Items
    /\ measured = [m \in Measures |-> 0]

\* Only what the product's chart reads is worth telling.
Reads(i) == Required(SizeKind(i)) \cup (IF SizeKind(i) = "bottoms" THEN {"waist"} ELSE {})

TellMeasure(m) ==
    /\ m \in Reads(item) /\ measured[m] = 0
    /\ \E v \in MarksOf(item, m) : measured' = [measured EXCEPT ![m] = v]
    /\ UNCHANGED item

Grow(m) ==
    /\ measured[m] # 0
    /\ \E v \in MarksOf(item, m) :
          v > measured[m] /\ measured' = [measured EXCEPT ![m] = v]
    /\ UNCHANGED item

NextSize == \E m \in Measures : TellMeasure(m) \/ Grow(m)

SpecSize == InitSize /\ [][NextSize]_sizeVars
-----------------------------------------------------------------------------
(* Properties.                                                               *)

\* Type invariant.
SizeTypeOK ==
    /\ item \in Items /\ measured \in [Measures -> Nat]
    /\ Advice(item, measured) \in 1..14 \cup {NoSize}

\* The largest value of the measure on any chart of the kind.
Largest(kind, gender, m) ==
    CASE m = "foot"  -> Ends(FootRows(gender))[2]
      [] m = "waist" -> Ends(WaistRows)[2]
      [] m = "head"  -> 1220
      [] OTHER       -> Bands(kind, gender)[5][m][2]

\* A height or a weight that no row of the chart has, although rows on either side
\* of it do.
BetweenRows(kind, gender, m, v) ==
    LET rows == Bands(kind, gender)
    IN  /\ m \in {"height", "weight"}
        /\ \E n \in 1..4 : rows[n][m][2] < v /\ v < rows[n + 1][m][1]

\* Who measures more never gets a smaller size, and loses an advice only past the
\* end of the chart or between two of its rows: over the ranges, their gaps, the
\* nearest rows, a waist that replaces the body's row and the brands' shifts; and
\* children's clothes get no size whatever is told.
SizesFollowBody == [][
    LET old == Advice(item, measured)
        new == Advice(item', measured')
    IN  /\ (\A m \in Measures : measured[m] # 0 <=> measured'[m] # 0) =>
              \/ old = NoSize
              \/ new # NoSize /\ new >= old
              \/ new = NoSize /\ \E m \in Measures :
                     \/ measured'[m] > Largest(SizeKind(item), Gender(item), m)
                     \/ BetweenRows(SizeKind(item), Gender(item), m, measured'[m])
        /\ item'.department \in Kids => new = NoSize]_sizeVars
=============================================================================
