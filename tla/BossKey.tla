-------------------------------- MODULE BossKey --------------------------------
(***************************************************************************)
(* The boss key (bosskey.c): a thread reads the key combination from the   *)
(* file, waits for the main window of its process, registers the hot key   *)
(* and then, for each time it is pressed, goes through all windows and     *)
(* turns those of the browser over, the visible ones hidden and the hidden *)
(* ones shown, while the program itself shows and hides windows.           *)
(***************************************************************************)
EXTENDS Integers, Sequences, FiniteSets

CONSTANTS
  Window,      \* windows
  Mozilla,     \* those of this process with the class MozillaWindowClass or MozillaDialogClass
  Main,        \* those with MozillaWindowClass, of this process or another one
  Hotkeys,     \* the values of Hotkey in the file: sequences of numbers, <<>> for none
  Presses      \* bound: how often the hot key is pressed

ASSUME BossKeyAssumption ==
  /\ Mozilla \subseteq Window /\ Main \subseteq Window
  /\ Presses \in Nat /\ \A k \in Hotkeys : k \in Seq(Nat) /\ Len(k) <= 3

VARIABLES
  boss,      \* where the thread is
  hotkey,    \* the value of Hotkey in the file
  key,       \* key_mod and key_vk
  there,     \* the windows there are
  visible,   \* those that are visible
  queue,     \* the hot keys in the message queue
  left,      \* the windows EnumWindows has still to come to
  pressed,   \* (history) how often the hot key was pressed
  atFirst,   \* (history) the windows that were visible when the key was registered
  touched    \* (history) those the program has changed since

bossVars == <<boss, hotkey, key, there, visible, queue, left, pressed, atFirst, touched>>

BossInit ==
  /\ boss = "off" /\ hotkey \in Hotkeys /\ key = [mod |-> 0, vk |-> 0]
  /\ there \in SUBSET Window /\ visible \in SUBSET there
  /\ queue = 0 /\ left = {} /\ pressed = 0 /\ atFirst = {} /\ touched = {}

-------------------------------------------------------------------------------
(* set_hotkey *)

MOD_ALT == 1
MOD_CONTROL == 2
MOD_SHIFT == 4
MOD_WIN == 8

Modkey == {MOD_ALT, MOD_CONTROL, MOD_SHIFT, MOD_WIN}

(* Two modifiers or one, and a key; else CONTROL+SHIFT and the key left of 1.  The order *)
(* of the modifiers does not matter and a modifier named twice counts once. *)
SetHotkey(k) ==
  IF Len(k) = 3 /\ k[1] \in Modkey /\ k[2] \in Modkey /\ k[3] \notin Modkey
  THEN [mod |-> IF k[1] = k[2] THEN k[1] ELSE k[1] + k[2], vk |-> k[3]]
  ELSE IF Len(k) = 2 /\ k[1] \in Modkey /\ k[2] > 47
  THEN [mod |-> k[1], vk |-> k[2]]
  ELSE [mod |-> MOD_CONTROL + MOD_SHIFT, vk |-> 192]

-------------------------------------------------------------------------------
(* bosskey_thread *)

StartBossKey ==
  /\ boss = "off"
  /\ boss' = "waiting" /\ key' = SetHotkey(hotkey)
  /\ UNCHANGED <<hotkey, there, visible, queue, left, pressed, atFirst, touched>>

(* init_bosskey finds a window of this process and registers the hot key. *)
Register ==
  /\ boss = "waiting" /\ Main \intersect Mozilla \intersect there # {}
  /\ boss' = "ready" /\ atFirst' = visible /\ touched' = {}
  /\ UNCHANGED <<hotkey, key, there, visible, queue, left, pressed>>

(* The program is neither browser nor mail, or the combination is somebody else's. *)
NoHotkey ==
  /\ boss = "waiting"
  /\ boss' = "over"
  /\ UNCHANGED <<hotkey, key, there, visible, queue, left, pressed, atFirst, touched>>

Press ==
  /\ boss \in {"ready", "turning"} /\ pressed < Presses
  /\ queue' = queue + 1 /\ pressed' = pressed + 1
  /\ UNCHANGED <<boss, hotkey, key, there, visible, left, atFirst, touched>>

(* Mutant: one round for all the messages in the queue. *)
GetAllMessages ==
  /\ boss = "ready" /\ queue > 0
  /\ boss' = "turning" /\ queue' = 0 /\ left' = there
  /\ UNCHANGED <<hotkey, key, there, visible, pressed, atFirst, touched>>

(* A message, and EnumWindows begins with the windows there are. *)
GetMessage ==
  /\ boss = "ready" /\ queue > 0
  /\ boss' = "turning" /\ queue' = queue - 1 /\ left' = there
  /\ UNCHANGED <<hotkey, key, there, visible, pressed, atFirst, touched>>

(* find_chwnd *)
FindChwnd ==
  /\ boss = "turning"
  /\ \E w \in left \intersect there :
       /\ left' = left \ {w}
       /\ visible' = CASE w \notin Mozilla -> visible
                       [] w \in Mozilla \intersect visible -> visible \ {w}
                       [] OTHER -> visible \union {w}
  /\ UNCHANGED <<boss, hotkey, key, there, queue, pressed, atFirst, touched>>

EnumEnds ==
  /\ boss = "turning" /\ left \intersect there = {}
  /\ boss' = "ready" /\ left' = {}
  /\ UNCHANGED <<hotkey, key, there, visible, queue, pressed, atFirst, touched>>

BossStep == Register \/ NoHotkey \/ GetMessage \/ FindChwnd \/ EnumEnds

-------------------------------------------------------------------------------
(* The programs create, show, hide and destroy windows. *)
ChangeWindow ==
  /\ boss \notin {"off", "over"}
  /\ \E w \in Window \ touched :
       /\ touched' = touched \union {w}
       /\ \/ w \notin there /\ there' = there \union {w} /\ visible' \in {visible, visible \union {w}}
          \/ w \in there /\ there' = there \ {w} /\ visible' = visible \ {w}
          \/ w \in there /\ there' = there /\ visible' = (visible \union {w}) \ (visible \intersect {w})
  /\ UNCHANGED <<boss, hotkey, key, queue, left, pressed, atFirst>>

(* undo_it: UnregisterHotKey is called by another thread and GlobalDeleteAtom with the   *)
(* number less 0xC000, so neither has an effect; but the thread is gone, and its hot key   *)
(* and its messages with it. *)
EndBossKey ==
  /\ boss # "over"
  /\ boss' = "over" /\ queue' = 0 /\ left' = {}
  /\ pressed' = 0 /\ atFirst' = {} /\ touched' = {}
  /\ UNCHANGED <<hotkey, key, there, visible>>

BossNext == StartBossKey \/ BossStep \/ Press \/ ChangeWindow \/ EndBossKey

BossSpec == BossInit /\ [][BossNext]_bossVars

-------------------------------------------------------------------------------
BossTypeOK ==
  /\ boss \in {"off", "waiting", "ready", "turning", "over"}
  /\ key \in [mod : 0..15, vk : Nat] /\ hotkey \in Hotkeys
  /\ there \subseteq Window /\ visible \subseteq there
  /\ left \subseteq Window /\ atFirst \subseteq Window /\ touched \subseteq Window
  /\ queue \in 0..pressed /\ pressed \in 0..Presses

(* However the presses come in during the rounds, and whatever the programs do with      *)
(* other windows meanwhile, a window that only the boss key touched is turned over once    *)
(* for each press: a browser's window is as it was at first after an even number of        *)
(* rounds and the other way after an odd one, and all other windows are as they were. *)
TurnedOncePerPress ==
  boss = "ready" =>
    \A w \in there \ touched :
      (w \in visible) = IF w \in Mozilla /\ (pressed - queue) % 2 = 1
                        THEN w \notin atFirst ELSE w \in atFirst
===============================================================================
