--------------------------- MODULE MindMapWorkspace ---------------------------
(* The mind map (components/mindmap/MindMapWorkspace.tsx): a category is chosen,   *)
(* then one of its tags, then a page of the documents that carry it. What is       *)
(* chosen is sent with every load, and none is cancelled; a tag that the answer no  *)
(* longer has is given up, which sends a load of its own. The map draws as many     *)
(* nodes as its options allow. Where the nodes are drawn (the rings, angles and       *)
(* collisions of the layout) and the zoom are left out.                               *)
EXTENDS Page, SequencesExt

CONSTANTS
    Categories,     \* numbers, in the order of their names
    Tags,           \* numbers, in the order of their names; Untagged is one
    Untagged,       \* the label of the documents that have no tag
    MapPageSize,    \* documents of a page
    TagRows,        \* tags that the server returns at most (tag_limit)
    MinNodes, MaxNodes, DefaultNodes    \* of the options of the page

\* A map draws at least one node of each kind.
ASSUME MapAssumption ==
    /\ Categories \subseteq Int /\ IsFiniteSet(Categories)
    /\ Tags \subseteq Int /\ IsFiniteSet(Tags) /\ Untagged \in Tags
    /\ MapPageSize \in Nat \ {0} /\ TagRows \in Nat \ {0}
    /\ MinNodes \in Nat \ {0} /\ MaxNodes \in Nat /\ DefaultNodes \in MinNodes .. MaxNodes

\* A document of a category, with its tags; hit: the search word is in its text.
Doc(id, category, tags, hit) == [id |-> id, category |-> category, tags |-> tags, hit |-> hit]

\* _apply_keyword_filter
Matching(docs, query) == {d \in docs : query => d.hit}
TagsOf(d) == IF d.tags = {} THEN {Untagged} ELSE d.tags
InCategory(docs, c) == {d \in docs : d.category = c}
Tagged(docs, t) == {d \in docs : t \in TagsOf(d)}

\* The rows of a column: those with most documents first, then by name.
ByCount(count) ==
    CHOOSE s \in [1 .. Cardinality(DOMAIN count) -> DOMAIN count] :
        \A i, j \in DOMAIN s :
            i < j => \/ count[s[i]] > count[s[j]]
                     \/ count[s[i]] = count[s[j]] /\ s[i] < s[j]
\* The documents of a column: the greatest number first.
LatestFirst(S) ==
    CHOOSE s \in [1 .. Cardinality(S) -> S] : \A i, j \in DOMAIN s : i < j => s[i] > s[j]
First(s, n) == SubSeq(s, 1, IF Len(s) < n THEN Len(s) ELSE n)

\* What a load asks for, and what the server answers (get_mindmap_tree): the
\* categories; the tags of the chosen one; a page of the documents of the chosen
\* tag, or of the first tag.
Asked(category, tag, page, query) ==
    [category |-> category, tag |-> tag, page |-> page, query |-> query]
TreeOf(docs, a) ==
    LET found == Matching(docs, a.query)
        mine == InCategory(found, a.category)
        categories == ByCount([c \in {d.category : d \in found} |->
                                  Cardinality(InCategory(found, c))])
        tags == First(ByCount([t \in UNION {TagsOf(d) : d \in mine} |->
                                  Cardinality(Tagged(mine, t))]), TagRows)
        tag == IF a.tag = None /\ tags # <<>> THEN tags[1] ELSE a.tag
        ids == LatestFirst({d.id : d \in Tagged(mine, tag)})
    IN  [asked |-> a, categories |-> categories, tags |-> tags,
         documents |-> First(SubSeq(ids, (a.page - 1) * MapPageSize + 1, Len(ids)), MapPageSize),
         total |-> Len(ids)]
EmptyData == [asked |-> None, categories |-> <<>>, tags |-> <<>>, documents |-> <<>>,
              total |-> 0]

\* A tag without a category is refused.
TreeFound(op, arg) == arg.tag # None => arg.category # None
TreeBody(op, arg) == TreeOf(db.docs, arg)
TreeAfter(op, arg) == db

-----------------------------------------------------------------------------
\* loadMindMapOptionPrefs: a stored number is brought into its range; what is no
\* number is the default.
LoadedLimit(raw) ==
    CASE raw = None -> DefaultNodes
      [] raw # None /\ raw < MinNodes -> MinNodes
      [] raw # None /\ raw > MaxNodes -> MaxNodes
      [] OTHER -> raw

\* Fault: the first rows are drawn, the selected one is not looked for.
PrioritizeSelected_First(rows, selected, max) == First(rows, max)

\* The first rows, among which the selected one takes a place if it has none.
PrioritizeSelected(rows, selected, max) ==
    IF Len(rows) <= max \/ selected \notin ToSet(First(rows, Len(rows)))
       \/ selected \in ToSet(First(rows, max))
    THEN First(rows, max)
    ELSE <<selected>> \o First(Keeping(rows, ToSet(rows) \ {selected}), max - 1)

\* The nodes of the map: a tag has one only where its category has one, a document
\* only where a tag is selected.
MapCategories(u) == PrioritizeSelected(u.data.categories, u.category, u.limit)
MapTags(u) ==
    IF u.category \in ToSet(MapCategories(u))
    THEN PrioritizeSelected(u.data.tags, u.tag, u.limit) ELSE <<>>
MapDocuments(u) ==
    IF u.tag \in ToSet(MapTags(u)) THEN First(u.data.documents, u.limit) ELSE <<>>

TotalPages(u) ==
    IF u.data.total = 0 THEN 1 ELSE (u.data.total + MapPageSize - 1) \div MapPageSize

-----------------------------------------------------------------------------
KeyOf(u) == Asked(u.category, u.tag, u.pageNo, u.query)

MountMindMap(docs, raw) ==
    /\ ui = [page |-> "mindmap", category |-> None, tag |-> None, pageNo |-> 1,
             query |-> FALSE, data |-> EmptyData, loading |-> TRUE, error |-> FALSE,
             limit |-> LoadedLimit(raw)]
    /\ db = [docs |-> docs, stored |-> LoadedLimit(raw)]
    /\ net = Send(NoCalls, "tree", Asked(None, None, 1, FALSE))

\* Fault: a tag stays selected that the answer does not have.
DeselectTag_Never(u) == u

\* The effect on the tags of the answer.
DeselectTag(u) ==
    IF u.tag # None /\ u.tag \notin ToSet(u.data.tags)
    THEN [u EXCEPT !.tag = None, !.pageNo = 1] ELSE u

\* The page is rendered with state u: the effects run, and what is asked for is
\* loaded if it has changed.
Rerendered(n, u) ==
    LET v == DeselectTag(u)
        asks == KeyOf(v) # KeyOf(ui)
    IN  /\ ui' = IF asks THEN [v EXCEPT !.loading = TRUE, !.error = FALSE] ELSE v
        /\ net' = IF asks THEN Send(n, "tree", KeyOf(v)) ELSE n

OnMap(u) ==
    /\ ui.page = "mindmap" /\ Acts(1) /\ u # ui
    /\ Rerendered(net, u)
    /\ left' = Spent

\* The user submits a search.
SearchMap(q) == OnMap([ui EXCEPT !.query = q, !.pageNo = 1]) /\ UNCHANGED db

\* A category, on the map or among the buttons below it.
ClickCategory(c) ==
    /\ c \in ToSet(ui.data.categories)
    /\ OnMap([ui EXCEPT !.category = c, !.tag = None, !.pageNo = 1])
    /\ UNCHANGED db

\* A tag of the answer that is shown, which may be that of another category.
ClickTag(t) ==
    /\ ui.category # None /\ t \in ToSet(ui.data.tags)
    /\ OnMap([ui EXCEPT !.tag = t, !.pageNo = 1])
    /\ UNCHANGED db

TurnPage(p) ==
    /\ ~ui.loading
    /\ p \in {ui.pageNo - 1, ui.pageNo + 1} /\ p \in 1 .. TotalPages(ui)
    /\ OnMap([ui EXCEPT !.pageNo = p])
    /\ UNCHANGED db

\* An option is changed, and stored in the browser.
SetLimit(n) ==
    /\ n \in MinNodes .. MaxNodes
    /\ OnMap([ui EXCEPT !.limit = n])
    /\ db' = [db EXCEPT !.stored = n]

ResetMap ==
    /\ OnMap([ui EXCEPT !.category = None, !.tag = None, !.pageNo = 1, !.query = FALSE,
                        !.limit = DefaultNodes])
    /\ db' = [db EXCEPT !.stored = DefaultNodes]

\* Whichever load comes back is shown; one that fails empties the map.
OnTree(i) ==
    /\ Back(i, "tree")
    /\ Rerendered(Settle(net, i),
                  [ui EXCEPT !.data = IF net[i].out.ok THEN net[i].out.body ELSE EmptyData,
                             !.error = @ \/ ~net[i].out.ok,
                             !.loading = FALSE])
    /\ UNCHANGED <<db, left>>

\* A document is deleted, or gets another tag, elsewhere.
MapElsewhere ==
    /\ ui.page = "mindmap" /\ left.others > 0
    /\ \E d \in db.docs :
          \/ db' = [db EXCEPT !.docs = @ \ {d}]
          \/ \E t \in Tags \ {Untagged} :
                db' = [db EXCEPT !.docs = (@ \ {d}) \cup {[d EXCEPT !.tags = {t}]}]
    /\ left' = [left EXCEPT !.others = @ - 1]
    /\ UNCHANGED <<net, ui>>

-----------------------------------------------------------------------------
MapUser ==
    \/ \E q \in BOOLEAN : SearchMap(q)
    \/ \E c \in Categories : ClickCategory(c)
    \/ \E t \in Tags : ClickTag(t)
    \/ \E p \in 1 .. 3 : TurnPage(p)
    \/ \E n \in MinNodes .. MaxNodes : SetLimit(n)
    \/ ResetMap

TreeServed(i) ==
    LET op == net[i].op
        arg == net[i].arg
    IN  Serve(i, TreeFound(op, arg), TreeBody(op, arg), TreeAfter(op, arg))

MapNext ==
    /\ ui.page = "mindmap"
    /\ \/ MapUser \/ MapElsewhere
       \/ \E i \in Slots : TreeServed(i) \/ Refuse(i) \/ OnTree(i)

-----------------------------------------------------------------------------
(* Properties *)

\* For a user who waits, the map that is shown when all is loaded is the answer to
\* what is selected, and what is selected is drawn on it: however many rows there
\* are, and whatever was deleted or tagged otherwise meanwhile, the selected tag is
\* a node of the map, within the number of nodes that the options allow. (One who
\* does not wait may see the answer to an earlier selection.)
SelectionIsShown ==
    ui.page = "mindmap" /\ left.patient /\ Quiet /\ ~ui.error =>
        /\ ui.data.asked = KeyOf(ui)
        /\ ui.category \in ToSet(ui.data.categories) => ui.category \in ToSet(MapCategories(ui))
        /\ ui.tag # None => ui.tag \in ToSet(MapTags(ui))
        /\ \A rows \in {MapCategories(ui), MapTags(ui), MapDocuments(ui)} :
              Len(rows) <= ui.limit
=============================================================================
