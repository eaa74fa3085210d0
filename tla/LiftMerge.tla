------------------------------ MODULE LiftMerge -----------------------------
(***************************************************************************)
(* The three-way merge of a LIFT file (azt_collabd/lift_merge.py) between  *)
(* two devices that edit it, meet, and merge, one for both or each for     *)
(* itself (_merge_diverged).                                               *)
(*                                                                         *)
(* An element has a tag, the attribute that tells it from its siblings     *)
(* (_child_key), its other attributes and its text as pairs of a name and  *)
(* a value, and its children in document order.  Conflict annotations are  *)
(* children like any other, as they are in the code.  The list of fields   *)
(* in the annotation of an entry is left out.                              *)
(*                                                                         *)
(* A function that recurses over the elements is a constant here, beside   *)
(* the definition that is its value: Clean(e) is Cleaned(e), and Cleaned   *)
(* calls Clean on the children.  A configuration says so (Clean <-         *)
(* Cleaned), and the theorems suppose it of the elements.                  *)
(***************************************************************************)
EXTENDS Naturals, FiniteSets, Sequences, Functions

CONSTANTS
    Devices,      \* the two devices
    Initial,      \* the file that both start from
    Values(_),    \* what an edit may set the pairs of an element to
    Addable(_),   \* the children that an edit may add to an element
    NewEntries,   \* the entries that an edit may add
    Recency(_),   \* audio_recency: when the recording of a text was made
    Theirs(_),    \* the guid of the other copy of an entry
    MaxEdits      \* bound on the edits

CONSTANTS
    Clean(_), MergePair(_, _, _, _), Normalize(_), HasMark(_), Changes(_), Nodes(_, _),
    Unordered(_)

Elem(tag, key, val, kids) == [tag |-> tag, key |-> key, val |-> val, kids |-> kids]

None == Elem("", "", {}, <<>>)

(* A file that was cut short when it was written does not parse.           *)
CutShort == <<None>>

VARIABLES
    file,      \* file[d]: the LIFT file on the branch of a device
    mergeBase, \* the file at the merge base of the two branches
    edits      \* the number of edits made

mergeVars == <<file, mergeBase, edits>>

MergeInit ==
    /\ file = [d \in Devices |-> Initial]
    /\ mergeBase = Initial
    /\ edits = 0

-----------------------------------------------------------------------------
(* Sequences, without recursion.  TLC computes the elements of one that is *)
(* Eager once.                                                             *)

Eager(s) == s \o <<>>

Places(seqs) == UNION {{i} \X DOMAIN seqs[i] : i \in DOMAIN seqs}

PlacesBefore(places, p) == {q \in places : q[1] < p[1] \/ (q[1] = p[1] /\ q[2] < p[2])}

(* The sequences one after the other.                                      *)
Flat(seqs) ==
    LET places == Places(seqs)
        nth(n) == CHOOSE p \in places : Cardinality(PlacesBefore(places, p)) = n - 1
    IN  Eager([n \in 1..Cardinality(places) |-> LET p == nth(n) IN seqs[p[1]][p[2]]])

PositionsBefore(positions, i) == {j \in positions : j < i}

(* The elements at some of the positions of a sequence.                    *)
At(s, positions) ==
    LET nth(n) == CHOOSE i \in positions : Cardinality(PositionsBefore(positions, i)) = n - 1
    IN  IF positions = DOMAIN s THEN s
        ELSE Eager([n \in 1..Cardinality(positions) |-> s[nth(n)]])

(* The elements that are in a set.                                         *)
Among(s, S) == At(s, {i \in DOMAIN s : s[i] \in S})

Without(s, i) == At(s, DOMAIN s \ {i})

-----------------------------------------------------------------------------
(* Elements.                                                               *)

Key(e) == <<e.tag, e.key>>

(* _MULTI: whether a parent may have two of a child.                       *)
Multi(parent, child) ==
    <<parent, child>> \notin
        {<<"entry", "lexical-unit">>, <<"entry", "citation">>, <<"form", "text">>,
         <<"gloss", "text">>, <<"sense", "grammatical-info">>, <<"relation", "usage">>}

Mark(side) == Elem("annotation", "azt-lift-conflict", {<<"value", side>>}, <<>>)
Marks == {Mark(side) : side \in {"ours", "theirs", "conflict"}}

IsMark(e) == Key(e) = Key(Mark("ours"))

(* _annotated_clone                                                        *)
Annotated(e, side) == [e EXCEPT !.kids = Append(e.kids, Mark(side))]

(* An element without the annotations inside it: _canon_clean, to compare, *)
(* and _strip_conflict_annotations.                                        *)
Cleaned(e) ==
    LET kept == At(e.kids, {i \in DOMAIN e.kids : ~ IsMark(e.kids[i])})
    IN  [e EXCEPT !.kids = Eager([i \in DOMAIN kept |-> Clean(kept[i])])]

(* _conflict_side: the first annotation says it.                           *)
Side(e) ==
    LET marks == At(e.kids, {i \in DOMAIN e.kids : IsMark(e.kids[i])})
    IN  IF marks = <<>> THEN "" ELSE (CHOOSE v \in marks[1].val : TRUE)[2]

OfKey(elems, key) == At(elems, {i \in DOMAIN elems : Key(elems[i]) = key})

(* Keys in the order of their first element.                               *)
KeysOf(elems) ==
    LET firsts == At(elems, {i \in DOMAIN elems :
                               \A j \in 1..(i - 1) : Key(elems[j]) # Key(elems[i])})
    IN  [n \in DOMAIN firsts |-> Key(firsts[n])]

-----------------------------------------------------------------------------
(* _pair_same_key: which elements of base, ours and theirs belong together.*)

Least(a, b) == IF a <= b THEN a ELSE b
Most(a, b) == IF a <= b THEN b ELSE a

(* A variant with a fault: elements are paired by position alone.          *)
ByPosition(elems) == [i \in DOMAIN elems |-> <<elems[i], i>>]

(* The content of each element, and which of that content it is.           *)
Contents(elems) ==
    LET clean == Eager([i \in DOMAIN elems |-> Clean(elems[i])])
    IN  Eager([i \in DOMAIN elems |->
            <<clean[i], Cardinality({j \in 1..i : clean[j] = clean[i]})>>])

(* The element of a content, if there is one, and those of no content of   *)
(* others.                                                                 *)
OfContent(elems, contents, content) ==
    IF content \in Range(contents)
    THEN elems[CHOOSE i \in DOMAIN contents : contents[i] = content]
    ELSE None

Unlike(elems, contents, others) == At(elems, {i \in DOMAIN elems : contents[i] \notin others})

OrNone(elems, i) == IF i <= Len(elems) THEN elems[i] ELSE None

PairSameKey(bs, os, ts) ==
    LET b == Contents(bs)  o == Contents(os)  t == Contents(ts)
        Triples(found) ==
            [n \in DOMAIN found |->
                <<OfContent(bs, b, found[n]), OfContent(os, o, found[n]), OfContent(ts, t, found[n])>>]
        bLeft == Unlike(bs, b, Range(o) \cup Range(t))
        oLeft == Unlike(os, o, Range(b) \cup Range(t))
        tLeft == Unlike(ts, t, Range(b) \cup Range(o))
    IN  Triples(Among(o, Range(t)))
        \o Triples(Among(o, Range(b) \ Range(t)))
        \o Triples(Among(t, Range(b) \ Range(o)))
        \o [i \in 1..Most(Len(oLeft), Len(tLeft)) |->
               <<OrNone(bLeft, i), OrNone(oLeft, i), OrNone(tLeft, i)>>]

-----------------------------------------------------------------------------
(* _merge_pair and _walk_children: the elements that stand for a pair, or  *)
(* up: two are needed where only one may be.                               *)

Result(elems) == [up |-> FALSE, elems |-> elems]
Escalate == [up |-> TRUE, elems |-> <<>>]

(* Variants with a fault: a delete on the other side always wins; it never *)
(* does.                                                                   *)
DeleteWins(b, present) == IF b # None THEN <<>> ELSE <<present>>
DeleteLoses(b, present) == <<present>>

(* Gone from one side: a delete, if the other has left it as it was.       *)
OneSided(b, present) ==
    IF b # None /\ Clean(b) = Clean(present) THEN <<>> ELSE <<present>>

ChildPairs(b, o, t) ==
    LET keys == KeysOf(o.kids \o t.kids)
    IN  Flat([n \in DOMAIN keys |->
            PairSameKey(OfKey(b.kids, keys[n]), OfKey(o.kids, keys[n]), OfKey(t.kids, keys[n]))])

PairTag(pair) == IF pair[2] # None THEN pair[2].tag ELSE pair[3].tag

MergedPairs(o, pairs) ==
    [n \in DOMAIN pairs |->
        MergePair(pairs[n][1], pairs[n][2], pairs[n][3], Multi(o.tag, PairTag(pairs[n])))]

Joined(results) ==
    IF \E n \in DOMAIN results : results[n].up
    THEN Escalate
    ELSE Result(Flat([n \in DOMAIN results |-> results[n].elems]))

WalkChildren(b, o, t) == Joined(MergedPairs(o, ChildPairs(b, o, t)))

MergedPair(b, o, t, multi) ==
    LET apart == IF multi THEN Result(<<Annotated(o, "ours"), Annotated(t, "theirs")>>)
                          ELSE Escalate
        inside == WalkChildren(b, o, t)
    IN  CASE o = None -> Result(OneSided(b, t))
          [] t = None -> Result(OneSided(b, o))
          [] OTHER ->
                IF Clean(o) = Clean(t) THEN Result(<<Clean(o)>>)
                ELSE IF b # None /\ Clean(o) = Clean(b) THEN Result(<<t>>)
                ELSE IF b # None /\ Clean(t) = Clean(b) THEN Result(<<o>>)
                ELSE IF o.kids = <<>> /\ t.kids = <<>> THEN apart
                ELSE IF inside.up THEN apart
                ELSE Result(<<[o EXCEPT !.kids = inside.elems]>>)

-----------------------------------------------------------------------------
(* _normalize_entry: at most one form of a language, and one of each gloss.*)

IsVerification(e) == e.tag = "field" /\ e.key = "verification"
IsAudio(e) == e.tag = "form" /\ e.key = "audio"

Text(e) == UNION {k.val : k \in {k \in Range(e.kids) : k.tag = "text"}}

(* A variant with a fault: the take that comes first in the document.      *)
FirstTake(takes, kids) == CHOOSE i \in takes : \A j \in takes : i <= j

(* Audio: the last take wins, the first in the document among the last.    *)
BestTake(takes, kids) ==
    CHOOSE i \in takes : \A j \in takes :
        LET a == Recency(Text(kids[i]))  c == Recency(Text(kids[j]))
        IN  a > c \/ (a = c /\ i <= j)

(* _union_verification_texts: a check with two values is in none.          *)
UnionOf(texts) ==
    {code \in UNION texts : \A other \in UNION texts : other[1] = code[1] => other = code}

WithText(e, val) ==
    [e EXCEPT !.kids = [i \in DOMAIN e.kids |->
        IF e.kids[i].tag = "text" THEN [e.kids[i] EXCEPT !.val = val] ELSE e.kids[i]]]

(* A variant with a fault: copies that differ are left unmarked.           *)
LeftAsIs(kids, copies, i) == kids[i]

(* Copies that differ are marked: the first that is not, as ours if none is.*)
Marked(kids, copies, i) ==
    IF Side(kids[i]) # "" THEN kids[i]
    ELSE IF \E j \in copies : \/ Side(kids[j]) = "ours"
                              \/ Side(kids[j]) = "" /\ j < i
         THEN Annotated(kids[i], "theirs")
         ELSE Annotated(kids[i], "ours")

(* The children of a key, and those of them unlike any before.             *)
Group(kids, i) == {j \in DOMAIN kids : Key(kids[j]) = Key(kids[i])}
Copies(kids, i) ==
    {j \in Group(kids, i) : \A n \in Group(kids, i) : n < j => Clean(kids[n]) # Clean(kids[j])}

First(positions) == CHOOSE i \in positions : \A j \in positions : i <= j

(* What becomes of a form or a gloss: nothing, or one element.             *)
SettledCopy(parent, kids, i) ==
    LET copies == Copies(kids, i)
        If(kept, e) == IF kept THEN <<e>> ELSE <<>>
    IN  IF Group(kids, i) = {i} THEN <<kids[i]>>
        ELSE IF i \notin copies THEN <<>>
        ELSE IF copies = {i} THEN <<Clean(kids[i])>>
        ELSE IF kids[i].tag = "gloss"
             THEN <<IF Side(kids[i]) # "" THEN Clean(kids[i]) ELSE kids[i]>>
        ELSE IF IsAudio(kids[i])
             THEN If(i = BestTake(copies, kids), Clean(kids[i]))
        ELSE IF IsVerification(parent)
             THEN If(i = First(copies), WithText(Clean(kids[i]), UnionOf({Text(kids[j]) : j \in copies})))
        ELSE <<Marked(kids, copies, i)>>

Settled(parent, kids, i) ==
    IF kids[i].tag = "form" \/ (kids[i].tag = "gloss" /\ parent.tag = "sense")
    THEN SettledCopy(parent, kids, i)
    ELSE <<kids[i]>>

Normalized(e) ==
    LET kids == Flat([i \in DOMAIN e.kids |-> Settled(e, e.kids, i)])
    IN  [e EXCEPT !.kids = Eager([i \in DOMAIN kids |-> Normalize(kids[i])])]

(* Some annotation of a side is left inside (_collect_conflict_paths).     *)
MarkInside(e) ==
    LET sides == {Mark("ours"), Mark("theirs")}
    IN  \E k \in Range(e.kids) : k \in sides \/ HasMark(k)

(* _reconcile_entry_marker                                                 *)
Reconcile(e) ==
    IF HasMark(e) THEN e
    ELSE [e EXCEPT !.kids = At(e.kids, {i \in DOMAIN e.kids : e.kids[i] # Mark("conflict")})]

-----------------------------------------------------------------------------
(* three_way_merge                                                         *)

MIN_LARGER_SIDE == 50
TRUNCATION_RATIO == 50
CATASTROPHIC_OUTPUT_RATIO == 4

(* _looks_truncated                                                        *)
LooksTruncated(b, o, t) ==
    /\ b > 0
    /\ \/ o = 0 /\ t > 0
       \/ t = 0 /\ o > 0
       \/ Most(o, t) >= MIN_LARGER_SIDE /\ Least(o, t) * TRUNCATION_RATIO < Most(o, t)

(* _looks_catastrophic_output                                              *)
LooksCatastrophic(b, o, t, m) ==
    /\ b >= MIN_LARGER_SIDE
    /\ o * 2 >= b /\ t * 2 >= b
    /\ m * CATASTROPHIC_OUTPUT_RATIO < Least(o, t)

EntryOf(f, guid) ==
    IF \E e \in Range(f) : e.key = guid THEN CHOOSE e \in Range(f) : e.key = guid ELSE None

(* An entry that one side has not: an add, a delete, or a delete against a *)
(* change, which is marked.                                                *)
EntryOneSided(b, present, side) ==
    IF b = None THEN <<present>>
    ELSE IF b = present THEN <<>>
    ELSE <<Annotated(present, side)>>

Renamed(elems) ==
    [n \in DOMAIN elems |->
        IF n = 2 THEN [elems[n] EXCEPT !.key = Theirs(elems[n].key)] ELSE elems[n]]

NormalizeAll(elems) == [n \in DOMAIN elems |-> Normalize(elems[n])]

(* The mark of an entry, where the sides differ and something is marked.   *)
ShowConflict(differ, elems) ==
    IF /\ differ
       /\ \E e \in Range(elems) : HasMark(e) \/ Mark("conflict") \in Range(e.kids)
       /\ Mark("conflict") \notin Range(elems[1].kids)
    THEN [elems EXCEPT ![1] = Annotated(elems[1], "conflict")]
    ELSE elems

EntryInBoth(b, o, t) ==
    ShowConflict(Clean(o) # Clean(t), NormalizeAll(Renamed(MergePair(b, o, t, TRUE).elems)))

MergeEntry(b, o, t) ==
    CASE t = None -> EntryOneSided(b, o, "ours")
      [] o = None -> EntryOneSided(b, t, "theirs")
      [] OTHER -> EntryInBoth(b, o, t)

Parsed(f) == IF f = CutShort THEN <<>> ELSE f

MergedEntries(b, o, t) ==
    LET keys == KeysOf(o \o t)
    IN  Flat([n \in DOMAIN keys |->
            MergeEntry(EntryOf(b, keys[n][2]), EntryOf(o, keys[n][2]), EntryOf(t, keys[n][2]))])

(* What is written in the end, but for the guards.                         *)
Guarded(b, o, t, merged) ==
    IF \/ LooksTruncated(Len(b), Len(o), Len(t))
       \/ LooksCatastrophic(Len(b), Len(o), Len(t), Len(merged))
    THEN IF Len(o) >= Len(t) THEN o ELSE t
    ELSE [n \in DOMAIN merged |-> Reconcile(Normalize(merged[n]))]

ThreeWayMerge(b, o, t) == Guarded(b, o, t, MergedEntries(b, o, t))

(* _merge_diverged for the LIFT file: only what both have changed is       *)
(* parsed, and a side that does not parse is not merged.                   *)
Merge(b, o, t) ==
    CASE o = t \/ t = b -> o
      [] o = b /\ o # t -> t
      [] OTHER -> IF o = CutShort THEN t
                  ELSE IF t = CutShort THEN o
                  ELSE ThreeWayMerge(Parsed(b), o, t)

-----------------------------------------------------------------------------
(* What the apps do to the file.                                           *)

Removable(e) == e.tag \in {"form", "gloss", "sense"}

(* The elements that one edit makes of an element.                         *)
ChangesOf(e) ==
    LET With(kids) == [e EXCEPT !.kids = kids]
        removable == {i \in DOMAIN e.kids : Removable(e.kids[i])}
        addable == {k \in Addable(e) : Key(k) \notin {Key(s) : s \in Range(e.kids)}}
    IN  {[e EXCEPT !.val = val] : val \in Values(e) \ {e.val}}
        \cup {With(Without(e.kids, i)) : i \in removable}
        \cup {With(Append(e.kids, k)) : k \in addable}
        \cup UNION {{With([e.kids EXCEPT ![i] = c]) : c \in Changes(e.kids[i])} : i \in DOMAIN e.kids}

Edited(f) ==
    {Without(f, i) : i \in DOMAIN f}
    \cup {Append(f, e) : e \in {e \in NewEntries : EntryOf(f, e.key) = None}}
    \cup UNION {{[f EXCEPT ![i] = c] : c \in Changes(f[i])} : i \in DOMAIN f}

EditFile(d) ==
    /\ edits < MaxEdits /\ edits' = edits + 1
    /\ file[d] # CutShort
    /\ \E f \in Edited(file[d]) : file' = [file EXCEPT ![d] = f]
    /\ UNCHANGED mergeBase

(* A write that is cut short, and committed so.                            *)
Tear(d) ==
    /\ edits < MaxEdits /\ edits' = edits + 1
    /\ file[d] # CutShort
    /\ \E f \in {CutShort, <<>>} : file' = [file EXCEPT ![d] = f]
    /\ UNCHANGED mergeBase

(* One device merges, and the other takes over its merge.                  *)
Meet(d, p) ==
    /\ file[d] # file[p]
    /\ LET merge == Merge(mergeBase, file[d], file[p])
       IN  file' = [x \in Devices |-> merge] /\ mergeBase' = merge
    /\ UNCHANGED edits

(* Both merge the same heads at the same time.  Each of these is then a    *)
(* merge base of the two merges (_find_merge_base takes the first).        *)
Cross(d, p) ==
    /\ file[d] # file[p]
    /\ mergeBase \notin {file[d], file[p]}
    /\ file' = [x \in Devices |-> IF x = d THEN Merge(mergeBase, file[d], file[p])
                                           ELSE Merge(mergeBase, file[p], file[d])]
    /\ mergeBase' = file[d]
    /\ UNCHANGED edits

MergeNext ==
    \/ \E d \in Devices : EditFile(d) \/ Tear(d)
    \/ \E d \in Devices : \E p \in Devices \ {d} : Meet(d, p) \/ Cross(d, p)

MergeSpec == MergeInit /\ [][MergeNext]_mergeVars

-----------------------------------------------------------------------------
(* What a file says: at each path, the pairs of the elements there.        *)

NodesIn(e, path) ==
    LET here == Append(path, Key(e))
    IN  {<<here, e>>} \cup UNION {Nodes(k, here) : k \in {k \in Range(e.kids) : ~ IsMark(k)}}

NodesOf(f) == UNION {Nodes(e, <<>>) : e \in Range(Parsed(f))}

Says(f) == UNION {{<<n[1], pair>> : pair \in n[2].val} : n \in NodesOf(f)}

ContentsAt(f, path) == {Clean(n[2]) : n \in {n \in NodesOf(f) : n[1] = path}}

InVerification(path) == <<"field", "verification">> \in Range(path)
InAudio(path) == <<"form", "audio">> \in Range(path)

(* An attribute of an element with children.  Where both have changed the  *)
(* element, its attributes are those of ours: what theirs has changed of   *)
(* them is dropped, with no conflict to show it.                           *)
Changed(b, f, path) == ContentsAt(f, path) # ContentsAt(b, path)

Dropped(b, o, t, s) ==
    /\ \E n \in NodesOf(o) \cup NodesOf(t) :
          n[1] = s[1] /\ s[2] \in n[2].val /\ n[2].kids # <<>>
    /\ Changed(b, o, s[1]) /\ Changed(b, t, s[1])

(* The same elements, in whatever order and whoever merged; attributes of  *)
(* elements with children aside.                                           *)
UnorderedOf(e) ==
    LET kids == At(e.kids, {i \in DOMAIN e.kids : ~ IsMark(e.kids[i])})
        bags == Eager([i \in DOMAIN kids |-> Unordered(kids[i])])
    IN  <<e.tag, e.key, IF kids = <<>> THEN e.val ELSE {},
          [u \in Range(bags) |-> Cardinality({i \in DOMAIN bags : bags[i] = u})]>>

Content(f) == Unordered(Elem("lift", "", {}, f))

IsMerge == edits' = edits

-----------------------------------------------------------------------------
(* What one side has said since the base is in the merge, attributes of an *)
(* element with children aside that both have changed; a take of a         *)
(* recording may give way to a later one, and a check to the same check    *)
(* with another value (it "must re-verify").                               *)
Kept(b, o, t, m) ==
    LET said == Says(o) \cup Says(t)
    IN  \A s \in said \ (Says(b) \cup Says(m)) :
            \/ Dropped(b, o, t, s)
            \/ /\ InAudio(s[1])
               /\ \E r \in said : r[1] = s[1] /\ Recency({r[2]}) > Recency({s[2]})
            \/ /\ InVerification(s[1])
               /\ \E r \in said : r[1] = s[1] /\ r[2][1] = s[2][1] /\ r[2] # s[2]

NothingIsLost ==
    [][IsMerge => \A d, p \in Devices : d # p => Kept(mergeBase, file[d], file[p], file'[d])]_mergeVars

(* What one side has taken out and the other has left alone stays out,     *)
(* unless it went with something that the other has changed, or came back  *)
(* with a copy of something that both have changed.                        *)
Out(b, had, del, m) ==
    \A s \in (Says(b) \cap Says(had) \cap Says(m)) \ Says(del) :
        \/ Parsed(del) = <<>>
        \/ InVerification(s[1])
        \/ Dropped(b, had, del, s)
        \/ EntryOf(del, s[1][1][2]) = None /\ EntryOf(had, s[1][1][2]) # EntryOf(b, s[1][1][2])
        \/ \E n \in 2..Len(s[1]) :
              LET path == SubSeq(s[1], 1, n)
              IN  \/ /\ ContentsAt(del, path) = {}
                     /\ Changed(b, had, path)
                  \/ Cardinality(ContentsAt(m, path)) > 1

DeletesHold ==
    [][IsMerge => \A d, p \in Devices : d # p => Out(mergeBase, file[d], file[p], file'[d])]_mergeVars

(* An entry that one side has deleted and whose content the other has not  *)
(* changed is not in the merge.  It is when only its annotations differ:   *)
(* entries are compared with _canon, everything inside them with           *)
(* _canon_clean, "the version of `_canon` to use for conflict detection"   *)
(* (lift_merge.py:261).                                                    *)
EntryDeletesHold ==
    [][IsMerge => \A d, p \in Devices : \A e \in Range(Parsed(file[d])) :
          LET was == EntryOf(mergeBase, e.key)
          IN  /\ d # p /\ Parsed(file[p]) # <<>>
              /\ EntryOf(file[p], e.key) = None
              /\ was # None /\ Clean(was) = Clean(e)
              => EntryOf(file'[d], e.key) = None]_mergeVars

(* Whoever merges, the merge has the same elements.                        *)
SidesAgree ==
    [][IsMerge => Cardinality({Content(file'[d]) : d \in Devices}) = 1]_mergeVars

(* A merge of two files that say the same says the same: merges do not     *)
(* multiply what they merge.                                               *)
MergesSettle ==
    [][IsMerge => \A d, p \in Devices :
          d # p /\ Content(file[d]) = Content(file[p]) => Content(file'[d]) = Content(file[d])]_mergeVars

(* Forms of one language that differ are marked as a conflict, in every    *)
(* file, for as long as they differ.                                       *)
ConflictsShow ==
    \A d \in Devices : \A n \in NodesOf(file[d]) :
        \A k, s \in {k \in Range(n[2].kids) : k.tag = "form"} :
            Key(k) = Key(s) /\ Clean(k) # Clean(s) => Side(k) # "" /\ Side(s) # ""

(* "Add the entry-level conflict marker + trait so peers can detect `this  *)
(* entry needs attention' without scanning the whole tree"                 *)
(* (lift_merge.py:1707).  The next merge of the file that leaves the entry *)
(* alone takes the marker away and keeps the conflict.                     *)
EntriesShow ==
    \A d \in Devices : \A e \in Range(Parsed(file[d])) :
        HasMark(e) => Range(e.kids) \cap Marks # {}
=============================================================================
