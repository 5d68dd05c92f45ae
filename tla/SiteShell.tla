----------------------------- MODULE SiteShell -----------------------------
(***************************************************************************)
(* The frame of the site: Sidebar.tsx with its theme switch and, on a      *)
(* phone, its drawer, public/theme-init.js, and of lib/hooks.ts            *)
(* useScrollSpy, which highlights the section being read, and              *)
(* useScrollProgress, the bar below the list.  React runs an effect after  *)
(* the render that caused it and before the next one; the page may be      *)
(* reloaded in between.                                                    *)
(*                                                                         *)
(* The observer of useScrollSpy looks at the page once a frame and its     *)
(* callback runs later.  Sections are intervals of the page in pixels, in  *)
(* the order of nav.ts, which is the order of App.tsx.  The length of the  *)
(* page does not change while it is read.  An overflow of "auto" stands    *)
(* for the empty style.                                                    *)
(***************************************************************************)
EXTENDS Integers, SequencesExt, Orders

CONSTANTS
    Section,      \* the sections, <<first pixel, last pixel + 1>>, in page order
    BandTop, BandLen,  \* the observer's band below the top of the window
    Positions,    \* where a reader may scroll to
    ScrollRange,       \* scrollHeight - innerHeight
    MaxPending    \* bounds the entries on their way to the callback, for TLC

ASSUME ShellAssumption ==
    /\ Section \in Seq(Nat \X Nat) /\ Section # <<>>
    /\ \A i \in DOMAIN Section : Section[i][1] < Section[i][2]
    /\ \A i \in 2..Len(Section) : Section[i - 1][2] <= Section[i][1]
    /\ {BandTop, MaxPending, ScrollRange} \subseteq Nat /\ BandLen \in Nat \ {0} /\ Positions \subseteq Nat /\ 0 \in Positions

VARIABLES
    theme, dataset, stored,  \* Sidebar's theme, <html data-theme>, localStorage
    blocked,                 \* storage is blocked ("private mode")
    drawer,                  \* Sidebar's open
    overflow, listening,     \* document.body.style.overflow, keydown listeners
    due,                     \* effects that have not run yet
    y,                       \* how far the page is scrolled
    index,                   \* the observer's last threshold index of each section
    entries,                 \* entries on their way to the callback: section -> ratio > 0
    visible,                 \* the Map visible: sections whose last ratio is > 0
    spy,                     \* useScrollSpy's active, as a place in the list
    raf,                     \* useScrollProgress has asked for a frame
    progress                 \* its p, in hundredths

themeVars  == <<theme, dataset, stored, blocked>>
drawerVars == <<drawer, overflow, listening>>
spyVars    == <<y, index, entries, visible, spy, raf, progress>>
shellVars  == <<themeVars, drawerVars, due, spyVars>>

-----------------------------------------------------------------------------
(* The theme and the drawer.                                                *)

(* A load of the page: theme-init.js before the first paint, then readTheme.*)
Loaded == IF ~blocked /\ stored \in {"light", "dark"} THEN stored ELSE "dark"

Rendered(effect) == due = {} /\ due' = {effect}

SwitchTheme ==
    /\ Rendered("theme")
    /\ theme' = IF theme = "dark" THEN "light" ELSE "dark"
    /\ UNCHANGED <<dataset, stored, blocked, drawerVars, spyVars>>

ThemeEffect ==
    /\ "theme" \in due
    /\ due' = due \ {"theme"}
    /\ dataset' = theme
    /\ stored' = IF blocked THEN stored ELSE theme
    /\ UNCHANGED <<theme, blocked, drawerVars, spyVars>>

OpenDrawer ==
    /\ ~drawer /\ Rendered("drawer")
    /\ drawer' = TRUE
    /\ UNCHANGED <<overflow, listening, themeVars, spyVars>>

(* The scrim, the cross, a link or the brand; or Escape, if it is heard.    *)
CloseDrawer ==
    /\ drawer /\ Rendered("drawer")
    /\ drawer' = FALSE
    /\ UNCHANGED <<overflow, listening, themeVars, spyVars>>
Escape == listening > 0 /\ CloseDrawer

(* The cleanup of the effect that ran last, then the effect itself.         *)
DrawerEffectUncleaned ==    \* mutant: no cleanup of the listener
    /\ "drawer" \in due
    /\ due' = due \ {"drawer"}
    /\ listening' = IF drawer THEN listening + 1 ELSE listening
    /\ overflow' = IF drawer THEN "hidden" ELSE "auto"
    /\ UNCHANGED <<drawer, themeVars, spyVars>>
DrawerEffect ==
    /\ "drawer" \in due
    /\ due' = due \ {"drawer"}
    /\ listening' = IF drawer THEN listening + 1 ELSE listening - 1
    /\ overflow' = IF drawer THEN "hidden" ELSE "auto"
    /\ UNCHANGED <<drawer, themeVars, spyVars>>

(* The reader reloads, whatever has or has not run.                         *)
Fresh ==
    /\ drawer' = FALSE /\ overflow' = "auto" /\ listening' = 0
    /\ due' = {"theme"}
    /\ y' = 0 /\ spy' = 1 /\ visible' = {}
    /\ raf' = TRUE /\ progress' = 0
    /\ index' = [s \in DOMAIN Section |-> -1] /\ entries' = <<>>
Reload ==
    /\ theme' = Loaded /\ dataset' = Loaded
    /\ Fresh
    /\ UNCHANGED <<stored, blocked>>

-----------------------------------------------------------------------------
(* useScrollSpy.                                                            *)
Overlap(s, top) ==
    LET lo == IF Section[s][1] > top + BandTop THEN Section[s][1] ELSE top + BandTop
        hi == IF Section[s][2] < top + BandTop + BandLen THEN Section[s][2]
              ELSE top + BandTop + BandLen
    IN  hi - lo
Height(s) == Section[s][2] - Section[s][1]
Touches(s, top) == Overlap(s, top) >= 0
OnScreen(s, top) == Overlap(s, top) > 0

(* How many of the thresholds 0, 0.01, 0.25 and 1 its ratio has reached; an *)
(* interval that only touches the band has ratio 0 and does intersect.      *)
ThresholdIndex(s, top) ==
    IF ~Touches(s, top) THEN 0
    ELSE 1 + Cardinality({t \in {1, 25, 100} : 100 * Overlap(s, top) >= t * Height(s)})

(* Scrolling asks for one frame, however often it happens before it comes.  *)
ScrollTo(top) ==
    /\ y' = top
    /\ raf' = TRUE
    /\ UNCHANGED <<index, entries, visible, spy, progress, themeVars, drawerVars, due>>

(* useScrollProgress: the fraction scrolled, within 0 and 1 when the page   *)
(* bounces at its end.                                                      *)
Fraction(top) == IF ScrollRange = 0 THEN 0 ELSE IF top > ScrollRange THEN 100 ELSE (100 * top) \div ScrollRange

(* A frame: the bar, if it was asked for, and an entry for every section    *)
(* whose threshold index has changed.                                       *)
Frame ==
    LET changed == {s \in DOMAIN Section : ThresholdIndex(s, y) # index[s]}
    IN  /\ raf \/ changed # {}
        /\ raf' = FALSE
        /\ progress' = IF raf THEN Fraction(y) ELSE progress
        /\ index' = [s \in DOMAIN Section |-> ThresholdIndex(s, y)]
        /\ entries' = entries \o [k \in 1..Cardinality(changed) |->
                                    LET s == Ascending(changed)[k] IN <<s, OnScreen(s, y)>>]
        /\ Len(entries) < MaxPending
        /\ UNCHANGED <<y, visible, spy, themeVars, drawerVars, due>>

SeenKept(v, e) == IF e[2] THEN v \cup {e[1]} ELSE v    \* mutant: nothing is deleted
Seen(v, e) == IF e[2] THEN v \cup {e[1]} ELSE v \ {e[1]}

(* The callback: the first listed section that is visible wins.             *)
Notify ==
    /\ entries # <<>>
    /\ visible' = FoldLeft(Seen, visible, entries)
    /\ spy' = IF visible' = {} THEN spy
              ELSE CHOOSE s \in visible' : \A t \in visible' : s <= t
    /\ entries' = <<>>
    /\ UNCHANGED <<y, index, raf, progress, themeVars, drawerVars, due>>

-----------------------------------------------------------------------------
ShellInit ==
    /\ stored \in {"none", "dark", "light"} /\ blocked \in BOOLEAN
    /\ theme = Loaded /\ dataset = Loaded
    /\ drawer = FALSE /\ overflow = "auto" /\ listening = 0
    /\ due = {"theme"}
    /\ y = 0 /\ spy = 1 /\ visible = {}
    /\ raf = TRUE /\ progress = 0
    /\ index = [s \in DOMAIN Section |-> -1] /\ entries = <<>>

SidebarStep == SwitchTheme \/ ThemeEffect \/ OpenDrawer \/ CloseDrawer \/ Escape
               \/ DrawerEffect \/ Reload
SpyStep == Frame \/ Notify \/ \E top \in Positions : ScrollTo(top)
ShellNext == SidebarStep \/ SpyStep

ShellSpec == ShellInit /\ [][ShellNext]_shellVars

-----------------------------------------------------------------------------
(* Properties.                                                              *)

(* Sidebar: once the effects have run, the page shows the theme that is     *)
(* chosen and does not scroll exactly while the drawer is open; there is    *)
(* never a second listener; and a reload keeps the theme whose effect has   *)
(* run, unless storage is blocked ("so the chosen theme never flashes").    *)
EffectsFollow ==
    /\ due' = {} => dataset' = theme'
    /\ "drawer" \notin due' => (overflow' = "hidden" <=> drawer') /\ (listening' > 0 <=> drawer')
    /\ listening' \in {0, 1}
    /\ due = {} /\ ~blocked /\ Reload => theme' = theme
EffectsCatchUp == [][EffectsFollow]_<<themeVars, drawerVars, due>>

(* "Highlight the section nearest the top of the viewport" and "the first   *)
(* listed section that is on screen wins, so the highlight follows reading  *)
(* order": when the callback has run after the last frame, the section      *)
(* highlighted is on the band, and none that is on it by a hundredth of its *)
(* height comes before it.  The bar is at the "fraction of the page         *)
(* scrolled, 0 to 1" whenever no frame is due.                              *)
HighlightFollowsReading ==
    LET firm == {s \in DOMAIN Section : ThresholdIndex(s, y) >= 2}
    IN  /\ entries = <<>> /\ (\A s \in DOMAIN Section : ThresholdIndex(s, y) = index[s]) /\ firm # {}
           => /\ Touches(spy, y)
              /\ \A s \in firm : spy <= s
        /\ progress \in 0..100 /\ (~raf => progress = Fraction(y))
=============================================================================
