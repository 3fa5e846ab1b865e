------------------------------ MODULE MCDesktop ------------------------------
(* Instances of the layers below the desktop tools for TLC: which layer runs is *)
(* chosen once, and the others rest.                                            *)
EXTENDS DesktopTargets, DesktopVerify, AxAdapter, WindowService, Hud, ScreenTools, ModelFiles, Listings,
        UiaTree, TLC

CONSTANTS Parts, a1, a2, t1, t2, p1, p2, v1

\* Values of the constants.
Appearances == {[pid |-> p1, app |-> a1, title |-> t1], [pid |-> p1, app |-> a1, title |-> t2],
                [pid |-> p2, app |-> a2, title |-> t1]}
Locators == {[app |-> a1, id |-> TRUE, title |-> t1], [app |-> a1, id |-> FALSE, title |-> t1]}
ObservedScopes == {[handle |-> NoWindow, region |-> NoWindow], [handle |-> v1, region |-> NoWindow]}

AllOrSome == {[apps |-> 1 .. LastApp, titles |-> {}], [apps |-> {2}, titles |-> {1}]}

\* A row in a row beside a menu; rows in a pane; a menu in the window and one that has
\* popped up, with the focus in it.
SmallTrees ==
    {[parent |-> <<0, 1, 1, 2, 2, 3>>, what |-> <<"window", "row", "menu", "button", "row", "button">>, focus |-> 0],
     [parent |-> <<0, 1, 1, 2, 3, 3, 5>>, what |-> <<"window", "pane", "row", "row", "button", "button", "button">>,
      focus |-> 0],
     [parent |-> <<0, 1, 1, 2, 0, 5>>, what |-> <<"window", "menu", "row", "button", "menu", "button">>, focus |-> 6]}
Buttons == {[what |-> "button", chain |-> chain] : chain \in {<<>>, <<"row">>, <<"menu">>, <<"row", "row">>}}

VARIABLE part

\* Layers at rest begin in one state.
RestInit ==
    /\ IF part = "targets" THEN screen \in [Handle -> Appearance \cup {Nil}] ELSE screen = [h \in Handle |-> Nil]
    /\ IF part = "verify"
       THEN /\ panes \in [Pane -> Controls \cup {Gone}]
            /\ \A w \in Pane \ {Origin} : panes[w] \in {{"match"}, Gone}
            /\ titled \in SUBSET Pane /\ bearers \in {{}, {Origin}, Pane}
       ELSE panes = [w \in Pane |-> {}] /\ titled = {} /\ bearers = {}
    /\ IF part = "ax" THEN front \in AxWindow ELSE front = v1
    /\ IF part = "screen"
       THEN focused \in Hwnd \cup {NoHwnd} /\ clipboard \in {"old", "image"} /\ monitor \in Edges
       ELSE focused = NoHwnd /\ clipboard = "old" /\ monitor = 0
    /\ part # "tree" => tree = CHOOSE t \in Trees : TRUE

DesktopInit ==
    /\ part \in Parts /\ RestInit
    /\ TargetsInit /\ VerifyInit /\ AxInit /\ ServiceInit /\ HudInit /\ ScreenInit /\ FilesInit
    /\ ListingsInit /\ TreeInit

DesktopNext ==
    /\ UNCHANGED part
    /\ \/ /\ part = "targets" /\ TargetsNext
          /\ UNCHANGED <<verifyVars, axVars, serviceVars, hudVars, screenVars, fileVars,
                       listVars, treeVars>>
       \/ /\ part = "verify" /\ VerifyNext
          /\ UNCHANGED <<targetVars, axVars, serviceVars, hudVars, screenVars, fileVars,
                       listVars, treeVars>>
       \/ /\ part = "ax" /\ AxNext
          /\ UNCHANGED <<targetVars, verifyVars, serviceVars, hudVars, screenVars, fileVars,
                       listVars, treeVars>>
       \/ /\ part = "service" /\ ServiceNext
          /\ UNCHANGED <<targetVars, verifyVars, axVars, hudVars, screenVars, fileVars,
                       listVars, treeVars>>
       \/ /\ part = "hud" /\ HudNext
          /\ UNCHANGED <<targetVars, verifyVars, axVars, serviceVars, screenVars, fileVars,
                       listVars, treeVars>>
       \/ /\ part = "screen" /\ ScreenNext
          /\ UNCHANGED <<targetVars, verifyVars, axVars, serviceVars, hudVars, fileVars,
                       listVars, treeVars>>
       \/ /\ part = "files" /\ FilesNext
          /\ UNCHANGED <<targetVars, verifyVars, axVars, serviceVars, hudVars, screenVars,
                       listVars, treeVars>>
       \/ /\ part = "listings" /\ ListingsNext
          /\ UNCHANGED <<targetVars, verifyVars, axVars, serviceVars, hudVars, screenVars,
                       fileVars, treeVars>>
       \/ /\ part = "tree" /\ TreeNext
          /\ UNCHANGED <<targetVars, verifyVars, axVars, serviceVars, hudVars, screenVars,
                       fileVars, listVars>>

desktopVars == <<targetVars, verifyVars, axVars, serviceVars, hudVars, screenVars,
                 fileVars, listVars, treeVars, part>>

\* The fairness of a layer at rest asks for nothing.
DesktopSpec ==
    /\ DesktopInit /\ [][DesktopNext]_desktopVars
    /\ TargetsFair /\ VerifyFair /\ AxFair /\ HudFair /\ ScreenFair /\ FilesFair
    /\ TreeFair

DesktopTypeOK ==
    /\ part \in Parts
    /\ TargetsTypeOK /\ VerifyTypeOK /\ AxTypeOK /\ ServiceTypeOK /\ HudTypeOK
    /\ ScreenTypeOK /\ FilesTypeOK /\ ListingsTypeOK /\ TreeTypeOK

\* Nothing is done for a caller that has stopped waiting: neither a request to the
\* accessibility adapter, unless it had been looked at for the last time, nor a job
\* of the window service.
NothingLate == NothingAfterGivingUp /\ NoLateStart

\* Nothing is passed off as whole that is not: a model file (ModelsAreWhole), the list of
\* registered applications (RegisteredStays), a listing followed to its end
\* (ListingIsWhole), a window's tree read page by page (PagesTile).
NothingPartial == ModelsAreWhole /\ RegisteredStays /\ ListingIsWhole /\ PagesTile

\* What has been asked for and is not done: listings, bindings and launches;
\* verifications; a request to the adapter; the replay of a locator; input, pointing and perceiving; and
\* downloads, of one server, all of them being alike.
UnderWay ==
    \/ call.op # "none" \/ place # "idle" \/ inbox # NoRequest
    \/ replay # {}
    \/ step # "idle" \/ ~IsAt(CHOOSE p \in Server : TRUE, "idle")

\* Every call ends, of every layer: TargetCallsEnd, VerifyEnds, AxWorkerServes,
\* ScreenCallsEnd, EnsureEnds and ReplayEnds in one, of the layer that runs.
CallsEnd == UnderWay ~> ~UnderWay
=============================================================================
