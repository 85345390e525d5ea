------------------------------ MODULE Desktop -------------------------------
(***************************************************************************)
(* The desktop shell (kernel/desktop.c) over the window manager: the mouse *)
(* and keyboard events it takes for itself - the taskbar, the start menu,  *)
(* the menus and the switcher - before the manager sees them, and the      *)
(* frame it composes after them.                                           *)
(*                                                                         *)
(* desktop_pump handles what is queued and then composes; a program that   *)
(* damages or polls its window pumps too, in the middle of the terminal's  *)
(* key handler.  Nothing that waits on the stack is used afterwards, so    *)
(* every event, every call of a program and every frame is a step of its   *)
(* own.                                                                    *)
(***************************************************************************)
EXTENDS Wm

CONSTANTS Inputs,       \* the events that happen
          MaxEntries,   \* START_MAX_ENTRIES
          QueryMax      \* the length of start_query

VARIABLE shell

\* A button of the taskbar.
Item == [kind: {"start", "search", "show desktop", "pinned", "window"},
         win: Window \cup {NoWindow}, app: Apps \cup {""}]

DesktopTypeOK ==
  /\ WmTypeOK
  /\ shell \in [on: BOOLEAN, start: BOOLEAN, typed: 0..QueryMax, count: 0..MaxEntries,
                selected: -1..MaxEntries, switcher: BOOLEAN, list: Seq(Window), index: Nat,
                task: Seq(Item), pressed: Nat]

-----------------------------------------------------------------------------
(* The taskbar.                                                            *)

Button(kind) == [kind |-> kind, win |-> NoWindow, app |-> ""]
Pinned == SelectSeq(<<"terminal", "files", "monitor", "about">>, LAMBDA a : a \in Apps)
WindowButtons(g, Which(_)) ==
  LET shown == SelectSeq(g.z, LAMBDA w : Which(g.win[w].app))
  IN [i \in DOMAIN shown |->
        [kind |-> "window", win |-> shown[i], app |-> g.win[shown[i]].app]]

\* taskbar_layout: the buttons in the order of the stack, the pinned
\* applications first.
Layout(g) ==
  <<Button("start"), Button("search"), Button("show desktop")>>
  \o FlattenSeq([i \in DOMAIN Pinned |->
       IF WindowsOf(g, Pinned[i]) = {} THEN <<[Button("pinned") EXCEPT !.app = Pinned[i]]>>
       ELSE WindowButtons(g, LAMBDA a : a = Pinned[i])])
  \o WindowButtons(g, LAMBDA a : a \notin Range(Pinned))

\* What a menu, a button or an icon does; an application, to start it.
RunAction(g, a, w) ==
  CASE a \in Apps -> Launch(g, a)
    [] a = "show desktop" -> {ToggleShowDesktop(g)}
    [] a = "restore" -> IF g.win[w].min THEN {Unminimize(g, w)}
                        ELSE {Restore(g, w, ok) : ok \in Memory}
    [] a = "minimize" -> {Minimize(g, w)}
    [] a = "maximize" -> {Maximize(g, w, ok) : ok \in Memory}
    [] a = "close" -> {Close(g, w)}

\* handle_taskbar_click, for the buttons that leave the start menu alone.
TaskbarClick(g, item) ==
  CASE item.kind = "show desktop" -> {ToggleShowDesktop(g)}
    [] item.kind = "pinned" -> Launch(g, item.app)
    [] item.kind = "window" ->
         {IF g.win[item.win].min THEN Unminimize(g, item.win)
          ELSE IF item.win = g.focused THEN Minimize(g, item.win) ELSE Focus(g, item.win)}
    [] OTHER -> {g}

ShowTaskbarMenu(g, item) ==
  CASE item.kind = "window" ->
         LET s == g.win[item.win]
         IN ShowMenu(g, item.win, {"close"}
              \cup (IF s.min \/ s.mode # "float" THEN {"restore"} ELSE {})
              \cup (IF s.min THEN {} ELSE {"minimize"})
              \cup (IF FixedSize(g, item.win) \/ s.mode = Full THEN {} ELSE {"maximize"}))
    [] item.kind = "pinned" -> ShowMenu(g, NoWindow, {item.app})
    [] OTHER -> ShowMenu(g, NoWindow, {"show desktop"} \cup (Apps \cap {"monitor"}))

CloseMenu(g) == [g EXCEPT !.menu = NoMenu]

-----------------------------------------------------------------------------
(* The start menu: n entries match what is typed.                          *)

StartLayout(sh, n) ==
  [sh EXCEPT !.count = n, !.selected = IF n = 0 THEN -1 ELSE IF @ >= n THEN 0 ELSE @]

StartShow(sh, n) ==
  IF sh.start THEN sh
  ELSE StartLayout([sh EXCEPT !.start = TRUE, !.typed = 0, !.selected = -1], n)

StartHide(sh) == [sh EXCEPT !.start = FALSE]

OpenStart == /\ \E n \in 0..MaxEntries : shell' = StartShow(shell, n)
             /\ wm' = IF shell.start THEN wm ELSE CloseMenu(wm)
ToggleStart == IF shell.start THEN shell' = StartHide(shell) /\ wm' = wm ELSE OpenStart

\* An entry starts an application or opens a file in one; the last two turn
\* the machine off.
StartActivate ==
  /\ shell.count > 0
  /\ \/ /\ shell' = StartHide(shell)
        /\ \E a \in Apps \ {"wine"} : wm' \in Launch(wm, a)
     \/ shell' = [StartHide(shell) EXCEPT !.on = FALSE] /\ UNCHANGED wm

-----------------------------------------------------------------------------
(* handle_mouse                                                            *)

\* An open menu takes every event.
MenuMouse ==
  /\ wm.menu.open
  /\ \/ wm' = CloseMenu(wm) /\ UNCHANGED shell
     \/ \E a \in wm.menu.items \ {"power"} :
          /\ wm' \in RunAction(CloseMenu(wm), a, wm.menu.target)
          /\ UNCHANGED shell
     \/ /\ "power" \in wm.menu.items
        /\ wm' = CloseMenu(wm) /\ shell' = [shell EXCEPT !.on = FALSE]

StartMouse ==
  /\ ~wm.menu.open /\ shell.start
  /\ \/ wm' = ShowMenu(wm, NoWindow, {"power"}) /\ UNCHANGED shell
     \/ StartActivate
     \/ \E i \in DOMAIN shell.task :
          /\ shell.task[i].kind # "start"
          /\ IF shell.task[i].kind = "search"
             THEN \E n \in 0..MaxEntries : shell' = StartShow(StartHide(shell), n) /\ wm' = wm
             ELSE shell' = StartHide(shell) /\ wm' \in TaskbarClick(wm, shell.task[i])
     \/ shell' = StartHide(shell) /\ UNCHANGED wm

RightPress ==
  /\ "menu" \in Inputs /\ ~wm.menu.open
  /\ \/ \E i \in DOMAIN shell.task : wm' = ShowTaskbarMenu(wm, shell.task[i])
     \/ wm' = ShowMenu(wm, NoWindow, {"show desktop"} \cup (Apps \cap {"monitor"}))
     \/ wm' \in HandleRight(wm)
     \/ /\ ~Dragging(wm)
        /\ wm' = ShowMenu(wm, NoWindow, {"show desktop"}
                            \cup (Apps \cap {"terminal", "files", "monitor", "about"}))
  /\ UNCHANGED shell

\* A press on the taskbar, on a window or - twice - on an icon of the desktop.
LeftPress ==
  /\ ~wm.menu.open /\ ~shell.start
  /\ \/ /\ "taskbar" \in Inputs
        /\ \E i \in DOMAIN shell.task : shell' = [shell EXCEPT !.pressed = i]
        /\ UNCHANGED wm
     \/ /\ "windows" \in Inputs
        /\ \/ wm' \in HandleLeft(wm)
           \/ ~Dragging(wm) /\ \E a \in Apps \ {"wine", "textview"} : wm' \in Launch(wm, a)
        /\ UNCHANGED shell

\* A button of the taskbar acts when it is let go over the same place, on what
\* is there by then.
LeftRelease ==
  /\ ~wm.menu.open /\ ~shell.start
  /\ IF shell.pressed # 0
     THEN \/ shell' = [shell EXCEPT !.pressed = 0] /\ UNCHANGED wm
          \/ /\ shell.pressed \in DOMAIN shell.task
             /\ LET item == shell.task[shell.pressed]
                    sh == [shell EXCEPT !.pressed = 0]
                IN IF item.kind \in {"start", "search"}
                   THEN \E n \in 0..MaxEntries : shell' = StartShow(sh, n) /\ wm' = wm
                   ELSE shell' = sh /\ wm' \in TaskbarClick(wm, item)
     ELSE "windows" \in Inputs /\ wm' \in HandleRelease(wm) /\ UNCHANGED shell

MouseMove == "windows" \in Inputs /\ ~wm.menu.open /\ wm' \in HandleMove(wm) /\ UNCHANGED shell

-----------------------------------------------------------------------------
(* handle_key                                                              *)

\* switcher_show: the windows from the top of the stack down, the second one
\* marked.
SwitcherShow ==
  /\ "switcher" \in Inputs /\ ~shell.switcher /\ Len(wm.z) > 1
  /\ shell' = [shell EXCEPT !.switcher = TRUE, !.list = Reverse(wm.z), !.index = 1]
  /\ UNCHANGED wm

SwitcherStep(i, delta, n) == (i + delta + n) % n

\* Alt is let go: the marked window comes to the front, if it is still open.
SwitcherKey ==
  /\ shell.switcher
  /\ \/ \E delta \in {-1, 1} :
          /\ shell' = [shell EXCEPT !.index = SwitcherStep(@, delta, Len(shell.list))]
          /\ UNCHANGED wm
     \/ /\ shell' = [shell EXCEPT !.switcher = FALSE, !.list = <<>>, !.index = 0]
        /\ wm' \in {wm, Focus(wm, shell.list[shell.index + 1])}

\* The keys the shell takes whatever is in front.
ShellKey ==
  \/ "start" \in Inputs /\ ToggleStart
  \/ /\ ~shell.switcher
     /\ \/ "start" \in Inputs /\ OpenStart
        \/ /\ \/ "show desktop" \in Inputs /\ wm' = ToggleShowDesktop(wm)
              \/ \E a \in Apps \cap {"files", "monitor"} : wm' \in Launch(wm, a)
              \/ wm.menu.open /\ wm' = CloseMenu(wm)
           /\ UNCHANGED shell

\* handle_start_key
StartKey ==
  /\ ~shell.switcher /\ shell.start
  /\ \/ shell' = StartHide(shell) /\ UNCHANGED wm
     \/ StartActivate
     \/ \E step \in {-1, 1} :
          /\ shell.count > 0
          /\ shell' = [shell EXCEPT !.selected = IF @ + step < 0 THEN shell.count - 1
                                                 ELSE IF @ + step >= shell.count THEN 0
                                                 ELSE @ + step]
          /\ UNCHANGED wm
     \/ \E n \in 0..MaxEntries, len \in {shell.typed - 1, shell.typed + 1} \cap (0..QueryMax) :
          /\ shell' = StartLayout([shell EXCEPT !.typed = len,
                                                !.selected = IF len = 0 THEN -1 ELSE 0], n)
          /\ UNCHANGED wm

WindowKey ==
  /\ ~shell.switcher /\ ~shell.start
  /\ wm' \in HandleKey(wm, Inputs) /\ UNCHANGED shell

-----------------------------------------------------------------------------
Program ==
  /\ "wine" \in Apps
  /\ \/ wm' \in DevOpen(wm)
     \/ \E d \in DOMAIN wm.dev :
          /\ wm.dev[d].used
          /\ wm' \in {DevCreate(wm, d, s, ok) : s \in Sizes, ok \in Memory}
                     \cup {DevPoll(wm, d), DevRelease(wm, d)}
  /\ UNCHANGED shell

\* A frame: the taskbar and the start menu are laid out again, and a program's
\* window of another size is noticed when it is painted.
Compose ==
  /\ wm' = [FoldLeft(WmdevPaint, wm, Visible(wm)) EXCEPT !.changed = FALSE]
  /\ LET sh == [shell EXCEPT !.task = Layout(wm)]
     IN IF shell.start THEN \E n \in 0..MaxEntries : shell' = StartLayout(sh, n) ELSE shell' = sh

DesktopInit ==
  /\ wm \in IF "terminal" \in Apps THEN Launch(WmStart, "terminal") ELSE {WmStart}
  /\ shell = [on |-> TRUE, start |-> FALSE, typed |-> 0, count |-> 0, selected |-> -1,
              switcher |-> FALSE, list |-> <<>>, index |-> 0, task |-> Layout(WmStart), pressed |-> 0]

DesktopNext ==
  /\ shell.on
  /\ \/ MenuMouse \/ StartMouse \/ RightPress \/ LeftPress \/ LeftRelease \/ MouseMove
     \/ SwitcherShow \/ SwitcherKey \/ ShellKey \/ StartKey \/ WindowKey
     \/ Program \/ Compose

DesktopSpec == DesktopInit /\ [][DesktopNext]_<<wm, shell>>

-----------------------------------------------------------------------------
\* What the taskbar shows after a frame is the windows there are, in order: no
\* operation of the manager that changes them forgets to say so
\* (wm_generation).
TaskbarFresh == ~wm.changed => shell.task = Layout(wm)

\* The mark of the start menu is on an entry that is there and the mark of the
\* switcher on one of its windows, whatever is typed, found, opened and closed
\* meanwhile (start_layout, handle_start_key, switcher_step).
MarksInRange ==
  /\ shell.start => shell.selected < shell.count
  /\ shell.switcher => shell.index \in 0..(Len(shell.list) - 1) /\ IsInjective(shell.list)
=============================================================================
