----------------------------- MODULE MCInterface -----------------------------
(***************************************************************************)
(* The parts of the interface side by side for TLC: in each behaviour one  *)
(* of them runs and the others stand still.  The keys and the wheel of a   *)
(* seat, which share no variable but whether a view is open, are two of    *)
(* them.                                                                   *)
(***************************************************************************)
EXTENDS View, WaylandSeat, WaylandSurface, Options

VARIABLES
  part,                                          \* the part that runs
  ui, screen,                                    \* Widgets
  step, tree, media, written, scripted, merges   \* Theme

(* Widgets: a bar with a prompt, an input and a case indicator above a     *)
(* message and a list.                                                     *)
Node(kind, parent, expand, size) ==
  [kind |-> kind, parent |-> parent, expand |-> expand, size |-> size]
Top == "top"
Tree ==
  [top |-> Node("vertical", "top", FALSE, <<0, 0>>), bar |-> Node("horizontal", "top", FALSE, <<0, 0>>),
   prompt |-> Node("leaf", "bar", FALSE, <<3, 2>>), entry |-> Node("leaf", "bar", TRUE, <<1, 2>>),
   case |-> Node("leaf", "bar", TRUE, <<2, 1>>), mesg |-> Node("container", "top", FALSE, <<0, 0>>),
   text |-> Node("leaf", "mesg", FALSE, <<8, 1>>), list |-> Node("leaf", "top", TRUE, <<1, 1>>)]
Order == <<"bar", "prompt", "entry", "case", "mesg", "text", "list">>
Sizes == {<<9, 13>>, <<7, 8>>}
Toggled == {"bar", "mesg", "entry"}
Pad == 1
Spacing == 1
W == INSTANCE Widgets

(* Options: an option of three names, one of a number, one of a switch and *)
(* two key bindings.                                                       *)
Setting(name, kind, given) == [name |-> name, kind |-> kind, value |-> given]
ArgsGiven ==
  {<<>>, <<Setting("modes", "string", 3), Setting("modi", "string", 4)>>,
   <<Setting("pid", "boolean", 3), Setting("modes", "string", 4)>>,
   <<Setting("dpi", "number", 3), Setting("kbaccept", "string", 2), Setting("sort", "boolean", 1)>>,
   <<Setting("kbcancel", "string", 3), Setting("pid", "string", 3), Setting("kbcancel", "string", 4)>>}
FilesHold ==
  {Setting("modes", "list", 1), Setting("modi", "number", 2), Setting("dpi", "string", 1),
   Setting("dpi", "number", 2), Setting("kbaccept", "string", 2), Setting("kbaccept", "string", 3),
   Setting("kbaccept", "boolean", 2), Setting("merow", "string", 4), Setting("sort", "boolean", 1)}

(* Theme: the root, "box", "row" and "row sel"; x of the root is what the  *)
(* links refer to; a value of each type that has a getter of its own.      *)
Places == {<<>>, <<"box">>, <<"row">>, <<"row", "sel">>}
Props == {"size", "x"}
Part(name, state) == [name |-> name, state |-> state]
Widgets ==
  {<<Part("box", "sel")>>, <<Part("box", ""), Part("row", "")>>,
   <<Part("box", ""), Part("row", "sel")>>, <<Part("box", "sel"), Part("row", "sel")>>}
Monitor == 1
MaxMerges == 3
Written(type, n, to, def) ==
  [type |-> type, n |-> n, to |-> to, def |-> def, ref |-> "none", from |-> "", at |-> 0]
Wrote(places, prop, v) == [place : places, prop : {prop}, value : {v}]
MediaWrites == Wrote({<<"row">>}, "size", Written("integer", 2, "", 0))
               \cup Wrote({<<>>}, "x", Written("double", 2, "", 0))
Writes ==
  UNION {Wrote(Places, "size", Written(type, 1, "", 0)) : type \in {"integer", "double", "inherit"}}
  \cup Wrote(Places, "size", Written("link", 0, "x", 0))
  \cup Wrote({<<"row">>}, "size", Written("link", 0, "x", 5))
  \cup UNION {Wrote({<<>>, <<"box">>, <<"row">>}, "size", Written(type, 1, "", 0)) : type \in {"color", "highlight"}}
  \cup UNION {Wrote({<<>>, <<"row">>}, "size", Written(type, 1, "", 0)) :
               type \in {"padding", "string", "image", "list"}}
  \cup UNION {Wrote({<<>>}, "x", Written(type, 1, "", 0)) : type \in {"integer", "double"}}
  \cup Wrote({<<>>}, "x", Written("link", 0, "size", 0)) \cup Wrote({<<>>}, "x", Written("link", 0, "size", 7))
H == INSTANCE Theme WITH stage <- step

(* WaylandSeat: half a notch up and down; 3.4 pixels up and down, which    *)
(* are nearly 68/120 of a notch, but not quite.                            *)
HalfNotches == {60, -60}
PadDistances == {870, -870}

-----------------------------------------------------------------------------
(* The variables of the parts that do not run.                             *)
ViewOff ==
  /\ backend = "wayland" /\ stack = <<>> /\ alive = {} /\ quit = {} /\ refilter = {}
  /\ reload = {} /\ dirty = {} /\ mode = 0 /\ typed = FALSE /\ stale = {} /\ slow = FALSE
  /\ count = 0 /\ timer = NoTimer /\ reloadTimer = FALSE /\ repaint = FALSE /\ reply = FALSE
  /\ userTimer = FALSE /\ overlayTimer = FALSE /\ loop = "over" /\ corrupt = FALSE
  /\ results = FALSE
WidgetsOff == ui = 0 /\ screen = 0
OptionsOff == OptionsInit /\ argv = <<>>
ThemeOff == step = 0 /\ tree = 0 /\ media = 0 /\ written = 0
            /\ scripted = {} /\ merges = 0
InterfaceInit ==
  /\ part \in {"view", "widgets", "options", "theme", "keys", "wheel", "surface"}
  /\ IF part = "view" THEN Init ELSE ViewOff
  /\ IF part = "widgets" THEN W!WidgetsInit ELSE WidgetsOff
  /\ IF part = "options" THEN OptionsInit ELSE OptionsOff
  /\ IF part = "theme" THEN H!ThemeInit ELSE ThemeOff
  /\ SeatInit /\ SurfaceInit

wvars == <<ui, screen>>
themevars == <<step, tree, media, written, scripted, merges>>
configvars == <<ovars, themevars>>
waylandvars == <<seatvars, wlvars>>
allvars == <<part, vars, wvars, configvars, waylandvars>>

InterfaceNext ==
  \/ part = "view" /\ Next /\ UNCHANGED <<part, wvars, configvars, waylandvars>>
  \/ part = "widgets" /\ W!WidgetsNext
     /\ UNCHANGED <<part, vars, configvars, waylandvars>>
  \/ part = "options" /\ OptionsNext
     /\ UNCHANGED <<part, vars, wvars, themevars, waylandvars>>
  \/ part = "theme" /\ H!ThemeNext
     /\ UNCHANGED <<part, vars, wvars, ovars, waylandvars>>
  \/ part \in {"keys", "wheel"} /\ UNCHANGED <<part, vars, wvars, configvars, wlvars>>
     /\ \/ \E c \in SUBSET {"keyboard", "pointer"} : Capabilities(c)
        \/ part = "keys" /\ KeyNext
        \/ part = "wheel" /\ WheelNext
  \/ part = "surface" /\ SurfaceNext
     /\ UNCHANGED <<part, vars, wvars, configvars, seatvars>>

InterfaceSpec == InterfaceInit /\ [][InterfaceNext]_allvars

-----------------------------------------------------------------------------
(* The variables of the part that runs have their types.                   *)
InterfaceTypeOK ==
  CASE part = "view" -> TypeOK
    [] part = "widgets" -> W!WidgetsTypeOK
    [] part = "options" -> OptionsTypeOK
    [] part = "theme" -> H!ThemeTypeOK
    [] part \in {"keys", "wheel"} -> SeatTypeOK
    [] part = "surface" -> SurfaceTypeOK

(* What is drawn: after every call, however the layout was entered again   *)
(* on the way, the children of a box that has room fill it without a gap   *)
(* and without overlap, none of them is hidden under another one, and a    *)
(* click reaches the widget that is drawn under the pointer.  When the     *)
(* main window is not marked for redrawing, what was drawn last is where   *)
(* the widgets are: no change of a widget fails to mark all the boxes      *)
(* around it.  A link of the theme leads to the property that it led to    *)
(* when it was resolved, and each getter returns what the value stands for *)
(* or the default, for every type the theme may have written.              *)
DrawingSound ==
  /\ part = "widgets" => W!LayoutSound /\ W!ClicksArrive /\ W!ScreenIsCurrent
  /\ part = "theme" => H!LinksHold /\ H!GettersConvert
=============================================================================
