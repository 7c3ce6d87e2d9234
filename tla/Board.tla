-------------------------------- MODULE Board --------------------------------
(***************************************************************************)
(* The board the reader works with: the stimulus and its selected areas of *)
(* interest (AOIs), the walls that list AOIs, the menu in which a list is  *)
(* named by voice, and the commands SciVi sends.  Everything here runs on  *)
(* the game thread; what makes it hard is the order in which the player's  *)
(* clicks, the ticks and the queued commands come.                         *)
(*                                                                         *)
(* sv_selected and sv_lists are what a listener reconstructs from nothing  *)
(* but the frames the game broadcasts, however late it reads them: SELECT  *)
(* toggles an AOI, WallLog edits a list, IMG_UP (a gaze on the new image)  *)
(* makes it start afresh.  missed says what it cannot know: an image taken *)
(* while the informant looks elsewhere is announced by no frame, nor are   *)
(* walls cleared by a command that is none.  Until the next IMG_UP it then *)
(* follows nothing.                                                        *)
(***************************************************************************)
EXTENDS Integers, Sequences, FiniteSets, SequencesExt, FiniteSetsExt

CONSTANTS MaxWallsCount,  \* AReadingTrackerGameMode::MaxWallsCount
          Images,         \* the images SciVi sends
          AOINames,       \* per image, the names of its AOIs in order, as FName tells them apart
          Words,          \* what the recogniser may hear
          MaxQueue,       \* commands that wait at most (bound)
          MaxWords,       \* words of a name at most (bound)
          UniqueNames,    \* does the player never reuse the name of a shown list?
          None

ASSUME BoardAssumption ==
  /\ MaxWallsCount \in {3, 5} /\ MaxQueue \in Nat /\ MaxWords \in Nat
  /\ DOMAIN AOINames = Images /\ \A i \in Images : AOINames[i] \in Seq(Range(AOINames[i]))
  /\ UniqueNames \in BOOLEAN /\ None \notin Images

VARIABLES message_queue,  \* commands not yet taken by Tick
          image,          \* the image on the stimulus
          SelectedAOIs,   \* pointers into AOIs, as <<image, index>>
          MC_Right,       \* is the right controller visible?
          walls,          \* per wall: hidden, name, entries
          menu,           \* the recording menu: open, textNewName
          recording,      \* IsRecording(): btnRecord is held down
          sv_selected, sv_lists,
          missed          \* of "selection", "lists"

sceneVars == <<image, SelectedAOIs>>
viewVars  == <<sv_selected, sv_lists, missed>>
vars == <<message_queue, sceneVars, MC_Right, walls, menu, recording, viewVars>>

Wall  == 1 .. MaxWallsCount
AOIs  == IF image = None THEN << >> ELSE AOINames[image]
Names == UNION {Range(AOINames[i]) : i \in Images}
Commands == [to : {"image"}, arg : Images] \cup [to : {"speech"}, arg : Words]
            \cup [to : {"visibility"}, arg : BOOLEAN] \cup [to : {"unknown"}, arg : {None}]

TypeOK ==
  /\ message_queue \in Seq(Commands)
  /\ image \in Images \cup {None}
  /\ SelectedAOIs \in Seq(Images \X Nat) /\ IsInjective(SelectedAOIs)
  /\ MC_Right \in BOOLEAN /\ recording \in BOOLEAN
  /\ walls \in [Wall -> [hidden : BOOLEAN, name : Seq(Words) \cup {None}, entries : Seq(Names)]]
  /\ menu \in [open : BOOLEAN, text : Seq(Words)]
  /\ sv_selected \subseteq Nat /\ missed \subseteq {"selection", "lists"}
  /\ DOMAIN sv_lists \subseteq Seq(Words) /\ \A n \in DOMAIN sv_lists : sv_lists[n] \subseteq Names

NoLists == [n \in {} |-> {}]

\* A wall out of use; nobody reads its name until CreateListOfWords gives it another.
HiddenWall == [hidden |-> TRUE, name |-> None, entries |-> << >>]

\* NotifyInformantSpawned: menu and walls are spawned hidden, the walls with
\* names of their own ("Wall 1", ...) that nobody is told.
Init ==
  /\ message_queue = << >>
  /\ image = None /\ SelectedAOIs = << >>
  /\ MC_Right = FALSE
  /\ walls = [w \in Wall |-> HiddenWall]
  /\ menu = [open |-> FALSE, text |-> << >>]
  /\ recording = FALSE
  /\ sv_selected = {} /\ sv_lists = NoLists /\ missed = {}

--------------------------------------------------------------------------------
(* Where the walls stand: ReplaceWalls, in thousandths of its radius. *)

\* Cosine and sine of i steps of a circle cut in n; i stays in a quarter.
Cos(n, i) == IF i = 0 THEN 1000 ELSE CASE n = 8 -> 707
Sin(n, i) == IF i = 0 THEN 0 ELSE CASE n = 8 -> -707

WallPlace(w) ==
  LET i == (w - 1) \div 2
      n == 2 * MaxWallsCount - 2
  IN IF MaxWallsCount % 2 = 1 /\ w = MaxWallsCount THEN <<0, -500>>
     ELSE <<IF w % 2 = 1 THEN Cos(n, i) ELSE -Cos(n, i), Sin(n, i) + 500>>

\* Square of the distance to the stimulus, which stands at (0, radius).
Remoteness(w) == WallPlace(w)[1] * WallPlace(w)[1] + (WallPlace(w)[2] - 1000) * (WallPlace(w)[2] - 1000)

--------------------------------------------------------------------------------
(* What the listener makes of a frame. *)

Flip(S, a) == IF a \in S THEN S \ {a} ELSE S \cup {a}
FlipEach(S, selection) == FoldSeq(LAMBDA p, T : Flip(T, p[2]), S, selection)

NewWall(n)     == [m \in DOMAIN sv_lists \cup {n} |-> IF m = n THEN {} ELSE sv_lists[m]]
DeleteWall(n)  == [m \in DOMAIN sv_lists \ {n} |-> sv_lists[m]]
AddAOIs(n, S)  == [m \in DOMAIN sv_lists |-> sv_lists[m] \cup (IF m = n THEN S ELSE {})]
RemoveAOI(n, a) == [m \in DOMAIN sv_lists |-> sv_lists[m] \ (IF m = n THEN {a} ELSE {})]

HearsSelection(S) == sv_selected' = (IF "selection" \in missed THEN {} ELSE S)
HearsLists(L)     == sv_lists' = (IF "lists" \in missed THEN NoLists ELSE L)

\* OnImageUpdated sends its frame if the gaze is on the stimulus.
HearsImage(gazed) ==
  /\ sv_selected' = {} /\ sv_lists' = NoLists
  /\ missed' = IF gazed THEN {} ELSE {"selection", "lists"}

--------------------------------------------------------------------------------
(* SciVi and Tick: one command per tick. *)

Heard == Cardinality({i \in DOMAIN message_queue : message_queue[i].to = "speech"})

\* on_message: Enqueue.
SciViSends ==
  /\ Len(message_queue) < MaxQueue
  /\ \E c \in Commands :
       /\ c.to = "speech" => Len(menu.text) + Heard < MaxWords
       /\ message_queue' = Append(message_queue, c)
  /\ UNCHANGED <<sceneVars, MC_Right, walls, menu, recording, viewVars>>

Dequeue(to) ==
  /\ message_queue # << >> /\ Head(message_queue).to = to
  /\ message_queue' = Tail(message_queue)

\* SetVisibility(false) and ClearList() on every wall.
ClearWalls == walls' = [w \in Wall |-> HiddenWall]

\* Mutant: SelectedAOIs keeps its pointers into the array it no longer has.
UpdateDynTex_KeepsSelection(i) == image' = i /\ UNCHANGED SelectedAOIs

\* updateDynTex: AOIs = newAOIs, SelectedAOIs.Empty().
UpdateDynTex(i) == image' = i /\ SelectedAOIs' = << >>

\* Mutant: the walls keep what the last image put on them.
TickImage_KeepsLists(gazed) ==
  /\ Dequeue("image")
  /\ UpdateDynTex(Head(message_queue).arg)
  /\ HearsImage(gazed)
  /\ walls' = [w \in Wall |-> [walls[w] EXCEPT !.hidden = TRUE]]
  /\ UNCHANGED <<MC_Right, menu, recording>>

TickImage(gazed) ==
  /\ Dequeue("image")
  /\ ClearWalls
  /\ UpdateDynTex(Head(message_queue).arg)
  /\ HearsImage(gazed)
  /\ UNCHANGED <<MC_Right, menu, recording>>

\* A command without a decodable image still clears the walls; ParseNewImage
\* then leaves the stimulus alone, and nobody is told.
TickUnknown ==
  /\ Dequeue("unknown")
  /\ ClearWalls
  /\ missed' = missed \cup {"lists"} /\ sv_lists' = NoLists
  /\ UNCHANGED <<sceneVars, sv_selected, MC_Right, menu, recording>>

\* A word is taken only while the player holds the record button.
TickSpeech ==
  /\ Dequeue("speech")
  /\ menu' = IF recording THEN [menu EXCEPT !.text = Append(@, Head(message_queue).arg)] ELSE menu
  /\ UNCHANGED <<sceneVars, MC_Right, walls, recording, viewVars>>

TickVisibility ==
  /\ Dequeue("visibility")
  /\ MC_Right' = Head(message_queue).arg
  /\ UNCHANGED <<sceneVars, walls, menu, recording, viewVars>>

\* ABaseInformant::Tick: shown when it moved, hidden when it rested for long.
InformantTick ==
  /\ MC_Right' = ~MC_Right
  /\ UNCHANGED <<message_queue, sceneVars, walls, menu, recording, viewVars>>

--------------------------------------------------------------------------------
(* The player: one pointer, so nothing else is clicked while recording. *)

\* toggleSelectedAOI: SelectedAOIs without p, which is in it once, or with p at its end.
ToggleSelectedAOI(p) ==
  IF Contains(SelectedAOIs, p) THEN RemoveFirst(SelectedAOIs, p) ELSE Append(SelectedAOIs, p)

\* OnTriggerReleased over AOI i: nothing is selected by a hidden controller.
TriggerReleased(i) ==
  /\ MC_Right /\ ~recording /\ image # None
  /\ SelectedAOIs' = ToggleSelectedAOI(<<image, i>>)
  /\ HearsSelection(Flip(sv_selected, i))
  /\ UNCHANGED <<message_queue, image, MC_Right, walls, menu, recording, sv_lists, missed>>

\* Mutant: the listener is not told.
ClearSelectedAOIs_Quiet == SelectedAOIs' = << >> /\ UNCHANGED sv_selected

\* ClearSelectedAOIs: a SELECT per selected AOI, "this unselect selected in
\* sciVi"; its index is the pointer's distance from the start of AOIs.
ClearSelectedAOIs ==
  /\ SelectedAOIs' = << >>
  /\ HearsSelection(FlipEach(sv_selected, SelectedAOIs))

\* AWordListWall::AddAOI: an entry per name.  (The entry is found by its widget's FName,
\* which a name differing only in case shares: here the two are one name.  Every AOI has
\* its image, and the engine gives each wall a widget of its own for a name.)
AddAOI(entries, name) == IF Contains(entries, name) THEN entries ELSE Append(entries, name)
AddEach(entries, names) == FoldLeft(AddAOI, entries, names)

\* OnClicked_AddEntry: AddAOIsToList, which logs also what the wall had.
ClickAddEntry(w) ==
  LET added == [k \in DOMAIN SelectedAOIs |-> AOINames[SelectedAOIs[k][1]][SelectedAOIs[k][2]]]
  IN /\ ~walls[w].hidden /\ ~recording
     /\ walls' = [walls EXCEPT ![w].entries = AddEach(@, added)]
     /\ HearsLists(AddAOIs(walls[w].name, Range(added)))
     /\ ClearSelectedAOIs
     /\ UNCHANGED <<message_queue, image, MC_Right, menu, recording, missed>>

\* Mutant: the removal is not logged.
ClickRemoveEntry_Quiet(w, k) ==
  /\ ~walls[w].hidden /\ ~recording
  /\ walls' = [walls EXCEPT ![w].entries = RemoveAt(@, k)]
  /\ UNCHANGED <<message_queue, sceneVars, MC_Right, menu, recording, viewVars>>

\* OnClicked_RemoveEntry: the button of an entry, the k-th of the list.
ClickRemoveEntry(w, k) ==
  /\ ~walls[w].hidden /\ ~recording
  /\ walls' = [walls EXCEPT ![w].entries = RemoveAt(@, k)]
  /\ HearsLists(RemoveAOI(walls[w].name, walls[w].entries[k]))
  /\ UNCHANGED <<message_queue, sceneVars, MC_Right, menu, recording, sv_selected, missed>>

\* OnClicked_DeleteList: DeleteList.
ClickDeleteList(w) ==
  /\ ~walls[w].hidden /\ ~recording
  /\ walls' = [walls EXCEPT ![w] = HiddenWall]
  /\ HearsLists(DeleteWall(walls[w].name))
  /\ UNCHANGED <<message_queue, sceneVars, MC_Right, menu, recording, sv_selected, missed>>

\* SetRecordingMenuVisibility: the name is cleared whichever way it goes.
SetRecordingMenuVisibility(b) == menu' = [open |-> b, text |-> << >>]

\* OnClicked_CreateList.
ClickCreateList ==
  /\ ~recording
  /\ SetRecordingMenuVisibility(TRUE)
  /\ UNCHANGED <<message_queue, sceneVars, MC_Right, walls, recording, viewVars>>

\* btnRecord: OnPressed and OnReleased.
PressRecord ==
  /\ menu.open /\ ~recording /\ recording' = TRUE
  /\ UNCHANGED <<message_queue, sceneVars, MC_Right, walls, menu, viewVars>>
ReleaseRecord ==
  /\ recording /\ recording' = FALSE
  /\ UNCHANGED <<message_queue, sceneVars, MC_Right, walls, menu, viewVars>>

\* btnClear: RecordingMenu_ClearNameForWall.
ClickClear ==
  /\ menu.open /\ ~recording
  /\ menu' = [menu EXCEPT !.text = << >>]
  /\ UNCHANGED <<message_queue, sceneVars, MC_Right, walls, recording, viewVars>>

Hidden == {w \in Wall : walls[w].hidden}

\* Mutant: the last hidden wall.
FirstHidden_Last == Max(Hidden)

FirstHidden == Min(Hidden)

\* btnReady: CreateListOfWords.  With every wall in use the name is lost.
ClickReady ==
  /\ menu.open /\ ~recording
  /\ UniqueNames => menu.text \notin {walls[w].name : w \in Wall \ Hidden}
  /\ IF Hidden # {}
     THEN /\ walls' = [walls EXCEPT ![FirstHidden].hidden = FALSE, ![FirstHidden].name = menu.text]
          /\ HearsLists(NewWall(menu.text))
     ELSE UNCHANGED <<walls, sv_lists>>
  /\ SetRecordingMenuVisibility(FALSE)
  /\ UNCHANGED <<message_queue, sceneVars, MC_Right, recording, sv_selected, missed>>

Tick   == (\E gazed \in BOOLEAN : TickImage(gazed)) \/ TickUnknown \/ TickSpeech \/ TickVisibility \/ InformantTick
Player == \/ \E i \in DOMAIN AOIs : TriggerReleased(i)
          \/ \E w \in Wall : ClickAddEntry(w) \/ ClickDeleteList(w)
          \/ \E w \in Wall : \E k \in DOMAIN walls[w].entries : ClickRemoveEntry(w, k)
          \/ ClickCreateList \/ PressRecord \/ ReleaseRecord \/ ClickClear \/ ClickReady

Next == SciViSends \/ Tick \/ Player
Spec == Init /\ [][Next]_vars

--------------------------------------------------------------------------------
(* Properties. *)

\* SelectedAOIs holds pointers into AOIs' storage, which updateDynTex replaces
\* (Stimulus.cpp:132): none may outlive the image it was taken from
\* (with the types, a selection without duplicates among them).
SelectionFresh == TypeOK /\ \A k \in DOMAIN SelectedAOIs :
                    SelectedAOIs[k][1] = image /\ SelectedAOIs[k][2] \in DOMAIN AOIs

\* A listener that only counts SELECT frames since the last IMG_UP knows exactly
\* what is selected on the image it announced, through toggles and through the
\* deselection that follows adding AOIs to a list (Stimulus.cpp:183-187), unless
\* an image came that was not announced: the frames do not name the image.
SelectionMirror ==
  "selection" \notin missed => sv_selected = {SelectedAOIs[k][2] : k \in DOMAIN SelectedAOIs}

\* A listener that only follows the wall log since the last IMG_UP knows every list
\* shown and what is on it, unless walls were cleared without a frame, and as long as
\* no two lists shown share a name: the log names a list by its name only
\* (ReadingTrackerGameMode.cpp:336).
WallMirror == UniqueNames /\ "lists" \notin missed =>
  sv_lists = [n \in {walls[w].name : w \in Wall \ Hidden} |->
                UNION {Range(walls[w].entries) : w \in {v \in Wall \ Hidden : walls[v].name = n}}]

\* A list holds AOIs of the image on show, each once, and a wall that is not
\* in use holds nothing it would show when it is used again.
ListsOfImage == \A w \in Wall :
  /\ IsInjective(walls[w].entries)
  /\ Range(walls[w].entries) \subseteq Range(AOIs)
  /\ walls[w].hidden => walls[w].entries = << >>

\* "Later you can just find first hidden wall(it will be nearest hidden wall to
\* stimulus) and unhide it" (ReadingTrackerGameMode.cpp:318): no step shows a
\* wall while one nearer to the stimulus stays hidden.
NearestFirst ==
  [][\A w \in Wall : walls[w].hidden /\ ~walls'[w].hidden =>
       \A v \in Wall : Remoteness(v) < Remoteness(w) => ~walls[v].hidden]_vars
==============================================================================
