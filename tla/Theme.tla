------------------------------- MODULE Theme -------------------------------
(***************************************************************************)
(* The theme (theme.c): a tree of properties that files, media blocks,     *)
(* -theme-str and scripts merge into, links to properties of the root,     *)
(* inheritance along the tree of widgets, and the getters, which convert   *)
(* some types.  A place in the tree is the sequence of names below the     *)
(* root; a property is a type and a number, a link also has the name it    *)
(* refers to, a default, and what it was resolved to.                      *)
(***************************************************************************)
EXTENDS Integers, Sequences

CONSTANTS
  Places,      \* the places of the tree
  Props,       \* the names of properties
  Writes,      \* what files and scripts write: [place, prop, value]
  MediaWrites, \* what media blocks write
  Widgets,     \* the widgets: sequences of [name, state], parents first
  Monitor,     \* the width of the monitor
  MaxMerges    \* bound: properties that are merged

VARIABLES
  stage,      \* "load", "run"
  tree,       \* place -> property name -> value
  media,      \* the media blocks: what they write, with their width and min
  written,    \* the number of times that each property of the root was written
  scripted,   \* the properties of the root that a script wrote
  merges      \* properties merged so far

themevars == <<stage, tree, media, written, scripted, merges>>

(* A link has the name it refers to, and a default; one that was resolved  *)
(* has what it was resolved to, the property of the root that this is a    *)
(* part of, and how often that one had been written then.                  *)
Unset == [type |-> "unset", n |-> 0, to |-> "", def |-> 0, ref |-> "none", from |-> "", at |-> 0]
Value(type, n) == [Unset EXCEPT !.type = type, !.n = n]

(* Two levels below the root: a widget and its state.                      *)
ParentOf(place) == SubSeq(place, 1, Len(place) - 1)

ThemeInit ==
  /\ stage = "load" /\ tree = [p \in Places |-> [q \in Props |-> Unset]]
  /\ media = <<>> /\ written = [q \in Props |-> 0] /\ scripted = {} /\ merges = 0

(* rofi_theme_property_copy: a link is copied unresolved.                  *)
Copy(v) == [v EXCEPT !.ref = "none", !.from = "", !.at = 0]

(* rofi_theme_widget_add_properties replaces, as rofi_theme_parse_merge_   *)
(* widgets does below; "*" is the root.                                    *)
Merge(t, m) == [t EXCEPT ![m.place][m.prop] = Copy(m.value)]
Write(m) == IF m.place = <<>> THEN [written EXCEPT ![m.prop] = @ + 1] ELSE written

(* A file or -theme-str while it loads, a script's theme while it runs.    *)
Parse(m) ==
  /\ merges < MaxMerges /\ merges' = merges + 1
  /\ tree' = Merge(tree, m) /\ written' = Write(m)
  /\ scripted' = IF stage = "run" /\ m.place = <<>> THEN scripted \cup {m.prop} ELSE scripted
  /\ UNCHANGED <<stage, media>>

ParseMedia(m) ==
  /\ stage = "load" /\ merges < MaxMerges /\ merges' = merges + 1
  /\ \E width \in {Monitor, Monitor + 1}, min \in BOOLEAN :
       media' = Append(media, [width |-> width, min |-> min, write |-> m])
  /\ UNCHANGED <<stage, tree, written, scripted>>

Applies(m) == IF m.min THEN Monitor >= m.width ELSE Monitor < m.width

(***************************************************************************)
(* Links: a name stands for the property of the root, following links,     *)
(* else for the default, else for the link itself.  The tree afterwards:   *)
(* the links of the root on the way are resolved with it.                  *)
(***************************************************************************)
RECURSIVE ResolveIn(_, _, _, _, _)
ResolveIn(t, w, place, prop, depth) ==
  LET v == t[place][prop]
      first == t[<<>>][v.to]
      deep == IF depth <= 20 /\ first.type = "link" /\ first.ref = "none"
              THEN ResolveIn(t, w, <<>>, v.to, depth + 1) ELSE t
      pr == deep[<<>>][v.to]
      own == IF v.def > 0 THEN [v EXCEPT !.ref = "default", !.n = v.def]
             ELSE [v EXCEPT !.ref = "self"]
      found == CASE depth > 20 -> [v EXCEPT !.ref = "self"]
                 [] pr.type = "unset" \/ pr.ref = "self" -> own
                 [] pr.type = "link" /\ pr.from # "" ->
                      [v EXCEPT !.ref = pr.ref, !.n = pr.n, !.from = pr.from, !.at = pr.at]
                 [] pr.type = "link" ->
                      [v EXCEPT !.ref = pr.ref, !.n = pr.n, !.from = v.to, !.at = w[v.to]]
                 [] OTHER -> [v EXCEPT !.ref = v.to, !.from = v.to, !.at = w[v.to]]
  IN  [deep EXCEPT ![place][prop] = found]

Unresolved(t, p, q) == t[p][q].type = "link" /\ t[p][q].ref = "none"
(* rofi_theme_parse_process_links: every place but the root itself.        *)
RECURSIVE ResolveAll(_, _)
ResolveAll(t, w) ==
  LET open == {pq \in (Places \ {<<>>}) \X Props : Unresolved(t, pq[1], pq[2])}
      next == CHOOSE pq \in open : TRUE
  IN  IF open = {} THEN t ELSE ResolveAll(ResolveIn(t, w, next[1], next[2], 0), w)

(* rofi_theme_parse_process_conditionals, then the links.                  *)
RECURSIVE MergeMedia(_, _)
MergeMedia(t, blocks) ==
  IF blocks = <<>> THEN t
  ELSE MergeMedia(IF Applies(Head(blocks)) THEN Merge(t, Head(blocks).write) ELSE t, Tail(blocks))
Process ==
  LET hit(q) == {i \in 1 .. Len(media) :
                   Applies(media[i]) /\ media[i].write.place = <<>> /\ media[i].write.prop = q}
  IN  /\ stage = "load" /\ stage' = "run"
      /\ written' = [q \in Props |-> written[q] + IF hit(q) = {} THEN 0 ELSE 1]
      /\ tree' = ResolveAll(MergeMedia(tree, media), written')
      /\ media' = <<>> /\ UNCHANGED <<scripted, merges>>

(* A getter resolves the links that it passes: those of the root, and      *)
(* those that a script wrote.                                              *)
Use(p, q) ==
  /\ stage = "run" /\ Unresolved(tree, p, q) /\ tree' = ResolveIn(tree, written, p, q, 0)
  /\ UNCHANGED <<stage, media, written, scripted, merges>>

ThemeNext ==
  \/ (\E m \in Writes : Parse(m)) \/ (\E m \in MediaWrites : ParseMedia(m))
  \/ Process \/ (\E p \in Places, q \in Props : Use(p, q))

(***************************************************************************)
(* Looking up.                                                             *)
(***************************************************************************)
(* rofi_theme_find_widget, not exact: a name that is not there is passed.  *)
FindSingle(place, name) == IF Append(place, name) \in Places THEN Append(place, name) ELSE place
FindWidget(w) == FindSingle(FindSingle(<<>>, w.name), w.state)

(* What a resolved link refers to.  Of one that dangles this is what took  *)
(* the place of what it refers to: the code reads memory that was freed.   *)
Target(v) ==
  CASE v.ref = "default" -> Value("integer", v.n) [] v.ref = "self" -> v
    [] OTHER -> tree[<<>>][v.ref]

(* rofi_theme_find_property *)
RECURSIVE FindProperty(_, _, _)
FindProperty(place, type, prop) ==
  LET p == tree[place][prop]
      link == IF Unresolved(tree, place, prop)
              THEN ResolveIn(tree, written, place, prop, 0)[place][prop] ELSE p
  IN  CASE p.type = "inherit" -> p
        [] p.type = "link" /\ Target(link).type = type -> Target(link)
        [] p.type = type -> p
        [] p.type = "integer" /\ type = "padding" -> p
        [] place = <<>> -> Unset
        [] OTHER -> FindProperty(ParentOf(place), type, prop)

(* The getters: an inherited property is looked up at the parent, with the *)
(* state of the child; line is the widget with the parents before it.      *)
(* What is found, "inherit" when there is no parent left, and the widget   *)
(* where the search ended.                                                 *)
Self(line) == line[Len(line)]
Up(line) == SubSeq(line, 1, Len(line) - 1)
AtParent(line) == FindWidget([name |-> Self(Up(line)).name, state |-> Self(line).state])
RECURSIVE Inside(_, _, _, _)
Inside(p, line, type, prop) ==
  IF p.type # "inherit" \/ Up(line) = <<>> THEN [p |-> p, line |-> line]
  ELSE Inside(FindProperty(AtParent(line), type, prop), Up(line), type, prop)
Search(line, type, prop) == Inside(FindProperty(FindWidget(Self(line)), type, prop), line, type, prop)
(* The default of the getter when a widget without parent inherits.        *)
OrDefault(p) == IF p.type = "inherit" THEN Unset ELSE p
Get(line, type, prop) == OrDefault(Search(line, type, prop).p)
GetString(line, prop) == Get(line, "string", prop)
(* Mutant: a number without a unit stays a number. *)
GetPaddingAsIs(line, prop) == Get(line, "padding", prop)

(* A number without a unit is a distance in pixels.                        *)
GetPadding(line, prop) == LET p == Get(line, "padding", prop)
                          IN  IF p.type = "integer" THEN Value("padding", p.n) ELSE p
GetDistance(line, prop) == GetPadding(line, prop)
(* An integer is taken when there is no double: the search for it begins   *)
(* at the widget itself, in the state of the one where the first search    *)
(* ended, and inherits from the parents of that one.                       *)
GetDouble(line, prop) ==
  LET d == Search(line, "double", prop)
      at == FindWidget([name |-> Self(line).name, state |-> Self(d.line).state])
  IN  IF d.p.type # "unset" THEN OrDefault(d.p)
      ELSE OrDefault(Inside(FindProperty(at, "integer", prop), d.line, "integer", prop).p)
(* A colour is taken when there is no highlight, at each of the parents.   *)
RECURSIVE HighlightInside(_, _, _)
HighlightInside(p, line, prop) ==
  LET color == FindProperty(FindWidget(Self(line)), "color", prop)
  IN  CASE p.type = "inherit" /\ Up(line) = <<>> -> Unset
        [] p.type = "inherit" ->
             HighlightInside(FindProperty(AtParent(line), "highlight", prop), Up(line), prop)
        [] p.type = "unset" /\ color.type # "unset" -> HighlightInside(color, line, prop)
        [] OTHER -> p
GetHighlight(line, prop) ==
  HighlightInside(FindProperty(FindWidget(Self(line)), "highlight", prop), line, prop)
GetColor(line, prop) == Get(line, "color", prop)
GetImage(line, prop) == Get(line, "image", prop)
GetList(line, prop) == Get(line, "list", prop)
(* What is inherited counts when it is a string, whatever was asked for.   *)
Has(line, type, prop) ==
  Inside(FindProperty(FindWidget(Self(line)), type, prop), line, "string", prop).p.type
    \notin {"unset", "inherit"}

(***************************************************************************)
(* Properties.                                                             *)
(***************************************************************************)
ThemeTypeOK ==
  /\ stage \in {"load", "run"} /\ merges \in 0 .. MaxMerges
  /\ \A p \in Places : tree[p][CHOOSE q \in Props : TRUE].ref \in Props \cup {"none", "self", "default"}

(* What the getters return: for each type, the value or "unset".           *)
Getters(line, prop) ==
  [padding |-> GetPadding(line, prop), double |-> GetDouble(line, prop),
   highlight |-> GetHighlight(line, prop), string |-> GetString(line, prop),
   color |-> GetColor(line, prop), image |-> GetImage(line, prop), list |-> GetList(line, prop)]

(* A widget's own value is what the getter of its type returns, a number   *)
(* counts as a distance, and as a double when there is no double, a colour *)
(* as a highlight when there is no highlight.  A link counts as what it    *)
(* refers to.  A widget that inherits gets what its parent gets in the     *)
(* same state, for each type, but for a double that the parent has as an   *)
(* integer: that one is passed over (theme.c:1040-1044).                   *)
Converts(line, prop) ==
  LET place == FindWidget(Self(line))
      here == tree[place][prop]
      gets == Getters(line, prop)
      parent == Getters(Up(line), prop)
      lacks(type) == FindProperty(place, type, prop).type = "unset"
  IN  /\ gets.padding.type \in {"padding", "unset"}
      /\ here.type \in DOMAIN gets => gets[here.type] = here /\ Get(line, here.type, prop) = here
      /\ here.type = "integer" => gets.padding.n = here.n
      /\ here.type = "integer" /\ lacks("double") => gets.double = here
      /\ here.type = "color" /\ lacks("highlight") => gets.highlight = here
      /\ here.type = "link" /\ here.ref \in Props /\ Target(here).type \in DOMAIN gets =>
           gets[Target(here).type] = Target(here)
      /\ here.type = "inherit" /\ Up(line) # <<>> /\ Self(Up(line)).state = Self(line).state =>
           \A type \in DOMAIN gets :
             gets[type] = parent[type] \/ (type = "double" /\ parent.double.type = "integer")
GettersConvert ==
  stage = "run" => \A line \in Widgets, prop \in Props : Converts(line, prop)

(* What does not hold (TLC refutes both, theme.c:1040, 1637): each widget  *)
(* that inherits gets what its parent gets, and has what that one has.     *)
DoublesAreInherited ==
  stage = "run" => \A line \in Widgets, prop \in Props :
    /\ Up(line) # <<>> /\ Self(Up(line)).state = Self(line).state
    /\ tree[FindWidget(Self(line))][prop].type = "inherit"
    => GetDouble(line, prop) = GetDouble(Up(line), prop)
ColorsAreSeen ==
  stage = "run" => \A line \in Widgets, prop \in Props :
    /\ Up(line) # <<>> /\ Self(Up(line)).state = Self(line).state
    /\ tree[FindWidget(Self(line))][prop].type = "inherit"
    => Has(line, "color", prop) = Has(Up(line), "color", prop)

(* What a link was resolved to (theme.c:723 keeps the pointer) was written *)
(* last of what has its name, and is a property that is no link, or the    *)
(* default of one; the default and the link itself are used only when      *)
(* there is no such property.  A media block or -theme-str changes none of *)
(* it, in whichever order they come.  What a script writes to the root     *)
(* does: it frees the property that it replaces, and a link that was       *)
(* resolved to it dangles, as do the links that are resolved through it.   *)
Dangles(v) == v.from # "" /\ written[v.from] # v.at
LinksHold ==
  stage = "run" => \A p \in Places, q \in Props :
    LET v == tree[p][q]
    IN  v.type = "link" /\ v.ref # "none" =>
          /\ Dangles(v) => v.from \in scripted
          /\ v.ref \in Props => tree[<<>>][v.ref].type \notin {"unset", "link"} \/ v.ref \in scripted
          /\ v.ref \in {"self", "default"} =>
               tree[<<>>][v.to].type \in {"unset", "link"} \/ v.to \in scripted
=============================================================================
