-------------------------------- MODULE Boot ---------------------------------
(***************************************************************************)
(* The way from app_main_task's first line to its event loop               *)
(* (system/main.c), with the tasks it starts on the way.                   *)
(*                                                                         *)
(* app_main runs a script: one micro-operation for each thing the          *)
(* functions it calls do to the locks, the panel, the tasks and the widget *)
(* tree.  task_create does not give the processor away, so a task that is  *)
(* started above app_main runs from the next tick or the next unlock on.   *)
(* The render task is modelled in full; of the others, the locks and buses *)
(* they have used by the time a task below them runs.  The tick is taken   *)
(* to be periodic (see Scheduler), and the touch controller to be a Goodix *)
(* (see Detection, where no other lets the boot go on).                    *)
(***************************************************************************)
EXTENDS Gui

CONSTANTS
  Boards,            (* [panel, audio]: the chip behind the SPI bus, and    *)
                     (* whether an audio output is in the device tree       *)
  FramePeriod,       (* FRAME_MS, in ticks of the model                     *)
  FrameCosts,        (* ticks a frame may take to draw and to send          *)
  MaxSleep,          (* bound: ticks one task_sleep_ms of app_main lasts    *)
  MaxLag             (* bound: ticks the render task is seen to be late     *)

ASSUME BootAssumption ==
  /\ FramePeriod \in Nat \ {0} /\ FrameCosts \subseteq Nat \ {0}
  /\ MaxSleep \in Nat \ {0} /\ MaxLag \in Nat
  /\ \A b \in Boards : b.panel \in Chips \cup {NULL} /\ b.audio \in BOOLEAN

VARIABLES
  board, panel,
  todo,              (* the micro-operations app_main has yet to do         *)
  left,              (* ticks app_main still sleeps                         *)
  cur,               (* "app", "render" or "idle": who has the processor    *)
  obj,               (* locks, semaphores, queues, buses: raw, ready, used; *)
                     (* a bus is clocked before it is ready                 *)
  started,           (* tasks that exist                                    *)
  tree, linking,     (* the widgets; where app_main is in add_child         *)
  phase,             (* where the render task is                            *)
  due,               (* nxt - now of the render task                        *)
  work,              (* ticks its frame still takes                         *)
  fb, draw, dirty,   (* s_fb, s_draw, the bits set in s_dirty               *)
  frames,            (* s_frame_cnt, up to 2                                *)
  halted             (* the exception handler has stopped the machine       *)

appVars    == <<todo, left, started, tree, linking>>
renderVars == <<phase, due, work, fb, draw, frames>>
vars       == <<board, panel, cur, obj, dirty, halted, appVars, renderVars>>

driver == DriverOf(board.panel)
caps   == Caps[driver]

-----------------------------------------------------------------------------
(* The script.                                                             *)

Clock(o)    == <<"clock", o>>      (* a bus gets its clock                  *)
Ready(o)    == <<"init", o>>       (* k_mutex_init, k_sem_init, k_msgq_init *)
Use(o)      == <<"use", o>>        (* a lock taken and released, a transfer *)
Start(t)    == <<"start", t>>      (* task_create                           *)
Sleep       == <<"sleep">>
Command(c)  == <<"command", c>>    (* to the panel                          *)
Fill(y, h)  == <<"fill", y, h>>    (* a window of the splash picture        *)
Link(p, w)  == <<"link", p, w>>    (* gui_widget_create, gui_widget_add_child *)

Priority == [audio |-> 7, render |-> 6, touch |-> 5, usb_host |-> 5, aap_rx |-> 5,
             aap_conn |-> 4, aap_tx |-> 4, app |-> 3, dbg_shell |-> 1, sysinfo |-> 1,
             idle |-> 0]

\* What the other tasks take before the first Android Auto connection.
Uses == [audio |-> {"audio_lk", "audio_rdy"}, touch |-> {"i2c0"},
         usb_host |-> {"usb_conn", "usb_lk"}, aap_rx |-> {"psram"}, aap_conn |-> {"usb_lk"},
         aap_tx |-> {}, dbg_shell |-> {}, sysinfo |-> {}]

\* The clocks, and the back light, whose duty is 0 from here on.  The registers of
\* a bus are for its driver to set.
HalInit == <<Clock("spi2"), Clock("i2c0")>>

InitPanel(chip) ==
  LET sequence == InitSequence[chip]
  IN  [i \in DOMAIN sequence |-> IF sequence[i] = Wait THEN Sleep ELSE Command(sequence[i])]

\* It sets the bus timing and leaves the controller without its master bit, which
\* i2c0_init sets, a function that only touch_driver_init calls and nobody calls that.
ScanI2c == <<Use("i2c0"), Sleep>>

\* probe_panel with spi_init_probe, the sequence of the chip, devtree_register.
ProbeLcd(chip) ==
  <<Sleep, Command(Reset), Sleep, Ready("spi2"), Use("spi2")>>
  \o InitPanel(chip) \o <<Use("devtree")>>

\* The task is started when the touch controller is registered.
ProbeTouch == <<Use("i2c0"), Sleep, Use("i2c0"), Use("devtree"), Start("touch")>>

\* The codec, some of which need a pause, and the other peripherals.
ProbeOthers == <<Use("i2c0"), Sleep, Use("devtree"), Use("i2c0"), Use("devtree")>>

Autodetect(chip) == <<Ready("devtree")>> \o ScanI2c \o ProbeLcd(chip) \o ProbeTouch \o ProbeOthers

\* The whole picture, then the bar of 10 rows five times.
ShowSplashScreen ==
  LET bar == <<Sleep, Fill(LCD_H \div 2 + 60, 10)>>
  IN  <<Use("psram"), Fill(0, LCD_H)>> \o bar \o bar \o bar \o bar \o bar \o <<Use("psram")>>

\* A slip: the task is started before what it waits for is there.
AudioInitLate == <<Start("audio"), Ready("audio_rdy"), Ready("audio_lk")>>

AudioInit == <<Ready("audio_rdy"), Ready("audio_lk"), Start("audio")>>

UsbStackInit == <<Ready("usb_lk"), Ready("usb_conn"), Sleep, Start("usb_host")>>

GuiInit == <<Use("psram"), Use("psram"), Ready("gui"), <<"root">>, Start("render")>>

\* A slip: the rows are put into the card before it is in the tree, and it is never added.
BuildMainUiLoose(rows) ==
  <<Link("root", "bar"), Link("bar", "dev_info"), Link("main_card", "prompt")>>
  \o [i \in DOMAIN rows |-> Link("main_card", rows[i])]
  \o <<Link("root", "bot"), Link("bot", "ver")>>

BuildMainUi(rows) ==
  <<Link("root", "bar"), Link("bar", "dev_info"), Link("root", "main_card"),
    Link("main_card", "prompt")>>
  \o [i \in DOMAIN rows |-> Link("main_card", rows[i])]
  \o <<Link("root", "bot"), Link("bot", "ver")>>

NfsMount == <<Ready("nfs"), Use("psram"), Use("psram"), Use("flash")>>

AssetManagerInit == <<Ready("asset"), Use("flash")>>

EventLoopInit == <<Ready("evtlp")>>

AapTransportInit ==
  <<Ready("aap"), Ready("aap_txq"), Start("aap_conn"), Start("aap_rx"), Start("aap_tx")>>

EventLoopTick == <<Use("evtlp"), Sleep>>

\* app_main_task() up to its loop.
Boot(b) ==
  HalInit \o Autodetect(DriverOf(b.panel)) \o ShowSplashScreen
    \o AudioInit \o UsbStackInit \o GuiInit
    \o BuildMainUi(IF b.audio THEN <<"row1", "row2", "row3">> ELSE <<"row1", "row2">>)
    \o NfsMount \o AssetManagerInit \o EventLoopInit \o AapTransportInit
    \o <<Start("dbg_shell"), Start("sysinfo")>>

op == Head(todo)

Booted == Len(todo) <= Len(EventLoopTick)

Buses == {"spi2", "i2c0"}

Objects == Buses \cup {"devtree", "psram", "audio_rdy", "audio_lk", "usb_lk", "usb_conn",
            "gui", "nfs", "flash", "asset", "evtlp", "aap", "aap_txq"}

-----------------------------------------------------------------------------
(* The processor.                                                          *)

RenderReady == phase \notin {"none", "asleep"}

\* sched_yield(), for an app_main that can run or cannot.
Highest(appReady) ==
  IF RenderReady THEN "render" ELSE IF appReady THEN "app" ELSE "idle"

Used(objects) == obj' = [o \in Objects |-> IF o \in objects THEN "used" ELSE obj[o]]

\* `who' goes on, after `objects' were used and every other task above it has run.
Switch(who, objects) ==
  /\ cur' = who
  /\ Used(objects \cup UNION {Uses[t] : t \in {u \in started \cap DOMAIN Uses :
                                              Priority[u] > Priority[who]}})

Advance == todo' = IF Len(todo) = 1 THEN EventLoopTick ELSE Tail(todo)

-----------------------------------------------------------------------------
(* app_main.                                                               *)

AppRuns(name) == ~halted /\ cur = "app" /\ op[1] = name

AppClock ==
  /\ AppRuns("clock")
  /\ obj' = [obj EXCEPT ![op[2]] = "clocked"]
  /\ Advance
  /\ UNCHANGED <<board, panel, cur, dirty, halted, left, started, tree, linking, renderVars>>

\* Without its clock a bus keeps none of the registers it is set up with.
AppInit ==
  /\ AppRuns("init")
  /\ obj' = [obj EXCEPT ![op[2]] = IF op[2] \in Buses /\ @ = "raw" THEN "raw" ELSE "ready"]
  /\ Advance
  /\ UNCHANGED <<board, panel, cur, dirty, halted, left, started, tree, linking, renderVars>>

\* An unlock gives the processor away, a bus does not.
AppUse ==
  /\ AppRuns("use")
  /\ IF op[2] \in Buses THEN Used({op[2]}) /\ UNCHANGED cur ELSE Switch(Highest(TRUE), {op[2]})
  /\ Advance
  /\ UNCHANGED <<board, panel, dirty, halted, left, started, tree, linking, renderVars>>

AppStart ==
  /\ AppRuns("start")
  /\ started' = started \cup {op[2]}
  /\ IF op[2] = "render" THEN phase' = "top" /\ due' = 0 ELSE UNCHANGED <<phase, due>>
  /\ Advance
  /\ UNCHANGED <<board, panel, cur, obj, dirty, halted, left, tree, linking,
                 work, fb, draw, frames>>

AppSleep ==
  /\ AppRuns("sleep")
  /\ \E n \in 1 .. MaxSleep : left' = n
  /\ Switch(Highest(FALSE), {})
  /\ Advance
  /\ UNCHANGED <<board, panel, dirty, halted, started, tree, linking, renderVars>>

AppCommand ==
  /\ AppRuns("command")
  /\ panel' = Obey(panel, board.panel, op[2])
  /\ Used(IF op[2] = Reset THEN {} ELSE {"spi2"})
  /\ Advance
  /\ UNCHANGED <<board, cur, dirty, halted, left, started, tree, linking, renderVars>>

AppFill ==
  /\ AppRuns("fill")
  /\ panel' = Show(panel, board.panel, Touched(op[2], op[3]), [b \in Bands |-> {"splash"}])
  /\ Used({"spi2"})
  /\ Advance
  /\ UNCHANGED <<board, cur, dirty, halted, left, started, tree, linking, renderVars>>

\* memset(s_dirty, 0xFF) sets one entry more than there are bands.
AppRoot ==
  /\ AppRuns("root")
  /\ dirty' = 0 .. NBands
  /\ Advance
  /\ UNCHANGED <<board, panel, cur, obj, halted, left, started, tree, linking, renderVars>>

\* p->children[p->nch++] = c; c->parent = p.  The language leaves open which of
\* the first two stores comes first.
AddChild ==
  LET p == op[2]  w == op[3]
  IN  \/ /\ linking = "no"
         /\ linking' = "counted"
         /\ tree' = [tree EXCEPT !.kids[p] = Append(@, NULL)]
         /\ UNCHANGED todo
      \/ /\ linking = "counted"
         /\ linking' = "linked"
         /\ tree' = [tree EXCEPT !.kids[p][Len(tree.kids[p])] = w]
         /\ UNCHANGED todo
      \/ /\ linking = "no"
         /\ linking' = "stored"
         /\ UNCHANGED <<tree, todo>>
      \/ /\ linking = "stored"
         /\ linking' = "linked"
         /\ tree' = [tree EXCEPT !.kids[p] = Append(@, w)]
         /\ UNCHANGED todo
      \/ /\ linking = "linked"
         /\ linking' = "no"
         /\ tree' = [tree EXCEPT !.parent[w] = p]
         /\ Advance

AppLink ==
  /\ AppRuns("link")
  /\ AddChild
  /\ UNCHANGED <<board, panel, cur, obj, dirty, halted, left, started, renderVars>>

AppStep == AppClock \/ AppInit \/ AppUse \/ AppStart \/ AppSleep \/ AppCommand \/ AppFill \/ AppRoot
           \/ AppLink

-----------------------------------------------------------------------------
(* The render task.                                                        *)

RenderRuns(p) == ~halted /\ cur = "render" /\ phase = p

\* The time of the next frame has not come: task_sleep_ms.
RenderSleep ==
  /\ RenderRuns("top")
  /\ due > 0
  /\ phase' = "asleep"
  /\ Switch(IF left = 0 THEN "app" ELSE "idle", {})
  /\ UNCHANGED <<board, panel, dirty, halted, appVars, due, work, fb, draw, frames>>

NextFrame == due + FramePeriod

RenderLock ==
  /\ RenderRuns("top")
  /\ due <= 0
  /\ due' = NextFrame
  /\ Used({"gui"})
  /\ phase' = "draw"
  /\ UNCHANGED <<board, panel, cur, dirty, halted, appVars, work, fb, draw, frames>>

\* A parent is in the tree before it gets children: the walk comes to every entry.
MissingChild == \E w \in Widgets : Contains(tree.kids[w], NULL)

RenderDraw ==
  /\ RenderRuns("draw")
  /\ ~MissingChild
  /\ \E rects \in {Rectangles(tree, caps)} :
       /\ fb' = [fb EXCEPT ![draw] = Painted(rects, @)]
       /\ dirty' = Marked(rects, dirty)
  /\ phase' = "flush"
  /\ UNCHANGED <<board, panel, cur, obj, halted, appVars, due, work, draw, frames>>

\* The loop over s_dirty; its last index is a window of no rows.
RenderFlush ==
  /\ RenderRuns("flush")
  /\ panel' = Show(panel, board.panel, dirty, fb[draw])
  /\ Used({"spi2"})
  /\ phase' = "sent"
  /\ work' \in FrameCosts
  /\ UNCHANGED <<board, cur, dirty, halted, appVars, due, fb, draw, frames>>

\* widget_render(NULL): the load from address 0 ends in the exception handler.
RenderFault ==
  /\ RenderRuns("draw")
  /\ MissingChild
  /\ halted' = TRUE
  /\ UNCHANGED <<board, panel, cur, obj, dirty, appVars, renderVars>>

\* The buffers change places and the lock is released: the task yields to itself.
RenderSwap ==
  /\ RenderRuns("sent")
  /\ work = 0
  /\ draw' = 1 - draw
  /\ dirty' = {}
  /\ frames' = IF frames < 2 THEN frames + 1 ELSE frames
  /\ phase' = "top"
  /\ UNCHANGED <<board, panel, cur, obj, halted, appVars, due, work, fb>>

RenderStep == RenderSleep \/ RenderLock \/ RenderDraw \/ RenderFault \/ RenderFlush \/ RenderSwap

-----------------------------------------------------------------------------
(* The rest of the machine.                                                *)

\* The timer interrupt: sleepers wake up, and the highest ready task goes on.  All
\* the time a frame takes is the ticks of work behind its pixels.
Tick ==
  LET wakes == phase = "asleep" /\ due <= 1
  IN  /\ ~halted
      /\ cur = "render" => phase = "sent" /\ work > 0
      /\ left' = IF left > 0 THEN left - 1 ELSE 0
      /\ due' = IF phase = "none" \/ due = -MaxLag THEN due ELSE due - 1
      /\ work' = IF cur = "render" THEN work - 1 ELSE work
      /\ phase' = IF wakes THEN "top" ELSE phase
      /\ Switch(IF RenderReady \/ wakes THEN "render" ELSE IF left <= 1 THEN "app" ELSE "idle", {})
      /\ UNCHANGED <<board, panel, dirty, halted, todo, started, tree, linking,
                     fb, draw, frames>>

-----------------------------------------------------------------------------
\* kernel_init has made the allocators ready, and bus clocks are off.
Init ==
  /\ board \in Boards
  /\ panel = PowerUp
  /\ todo = Boot(board) \o EventLoopTick /\ left = 0 /\ cur = "app"
  /\ obj = [o \in Objects |-> IF o = "psram" THEN "ready" ELSE "raw"]
  /\ started = {}
  /\ tree = NoTree /\ linking = "no"
  /\ phase = "none" /\ due = 0 /\ work = 0
  /\ fb = [i \in {0, 1} |-> Blank] /\ draw = 0 /\ dirty = {}
  /\ frames = 0
  /\ halted = FALSE

Next == AppStep \/ RenderStep \/ Tick

Spec == Init /\ [][Next]_vars

\* The timer keeps ticking, and a task that has the processor again and again
\* gets instructions done between two ticks.
FairSpec == Spec /\ WF_vars(Tick) /\ SF_vars(AppStep) /\ WF_vars(RenderStep)

-----------------------------------------------------------------------------
(* Properties.                                                             *)

InitFirst(o) ==
  /\ obj[o] \in {"raw", "clocked"} => obj'[o] # "used"
  /\ obj[o] = "used" => obj'[o] = "used"

\* No task uses a lock, a queue or the display's bus before app_main has made it
\* ready, however early the tick hands over to a task that has just been started,
\* and nothing is made ready a second time once it is in use.  The two whose drivers
\* are never initialised are left to BusIsInitialised (I2C0) and the README (flash).
InitBeforeUse == [][\A o \in Objects \ {"i2c0", "flash"} : InitFirst(o)]_vars

\* What the comment of devtree_scan_i2c says, and is not so: I2C0 has been
\* initialised when the bus is scanned.
BusIsInitialised == [][InitFirst("i2c0")]_vars

ShowsScene == \E rects \in {Rectangles(tree, caps)} : panel.gram = Scene(rects)

\* When a frame has been sent, every band of the glass was last sent what the tree
\* shows there: although only dirty bands are sent, and alternately from two buffers
\* of which each is a frame behind, no band keeps what an earlier frame or the splash
\* screen left.  The ST7701S of the README's board gets every pixel when it is awake,
\* on and set to its format.  The index behind the last band is sent as a window of
\* no rows in the first frame and never again.
ScreenShowsScene ==
  phase = "sent" =>
    /\ board.panel \in Chips => ShowsScene
    /\ board.panel = "ST7701S" => ~panel.missed /\ ~panel.garbled
    /\ NBands \in dirty <=> frames = 0

\* What the README's list of detected displays says, and is not so: each of them is
\* sent pixels in its own size, format and command set, and when it is on.
PanelsGetTheirPixels ==
  board.panel \in Chips => ~panel.missed /\ ~panel.garbled

\* What the README's boot sequence says, and is not so for a store order the language
\* allows: app_main gets through with the render task drawing the tree it builds.
NoMissingChildDrawn == ~halted

\* What the README says, and is not so ("Boot <800ms", from reset to interactive):
\* app_main reaches its event loop, and the widgets it has built reach the glass,
\* unless a child was drawn that is not yet stored.  A render task that needs FRAME_MS
\* or more for a frame never sleeps, and app_main, which is below it, never goes on.
\* The version label has been given a place below the glass; without an audio output
\* there is no third row.
BootCompletes ==
  <>(\/ halted /\ linking = "counted"
     \/ /\ Booted
        /\ board.panel \in Chips =>
             \A w \in Widgets \ {"ver", "row3"} : \E b \in Bands : w \in panel.gram[b])

\* What keeps app_main from its event loop is the time that frames take, and nothing else:
\* if the render task again and again finds its next frame in the future and sleeps, then
\* all waits of the start-up end, no task above keeps the processor, and the widgets
\* reach the glass.  (Frames that always last longer than FRAME_MS, as they do in the
\* program, are what BootCompletes comes to grief on.)
BootCompletesIfFramesFit == []<>(phase = "asleep") => BootCompletes

==============================================================================
