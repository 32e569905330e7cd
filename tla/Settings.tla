------------------------------ MODULE Settings ------------------------------
(***************************************************************************)
(* The settings a user makes in the sidebar: the theme, the language and   *)
(* whether new cards get random icons.  They are kept in the storage of    *)
(* the browser, which its tabs share and none of them watches; each tab    *)
(* has what it shows, the tick of its menu and its switch.  The desktop    *)
(* application for the Mac has one window, and is told of every change: it *)
(* keeps the settings as a blob, because its server may get another port   *)
(* with the next start and the page then another storage, and gives the    *)
(* blob back to the page when that is loaded.                              *)
(*                                                                         *)
(* A step is one event of the browser: scripts of one tab do not overlap,  *)
(* and storage is read and written within a step.                          *)
(***************************************************************************)
EXTENDS Naturals

CONSTANTS Tabs,      \* the tabs of the browser, or the window
          Languages, \* the languages of the menu
          Navigator, \* the one the browser asks for
          Unset,     \* no setting
          MaxPicks,  \* how often the user picks a setting
          MaxEvents  \* how often pages load, sidebars come and go, the system changes

ASSUME SettingsAssumption ==
    /\ Tabs # {} /\ Navigator \in Languages /\ Unset \notin Languages
    /\ MaxPicks \in Nat /\ MaxEvents \in Nat

VARIABLES storage,  \* localStorage
          desktop,  \* whether this is the desktop application
          kept,     \* its blob
          injected, \* the blob it gives to the pages it loads
          dark,     \* whether the system asks for dark colours
          tabs,     \* the pages
          chosen,   \* history: what the user last chose
          lost,     \* history: settings the code lost
          picks, events

settingsVars == <<storage, desktop, kept, injected, dark, tabs, chosen, lost, picks, events>>

Themes == {"default-theme", "dark-theme", "light-theme"}
SystemTheme == "system-theme"
Keys == {"theme", "language", "icons"}
NoSettings == [theme |-> Unset, language |-> Unset, icons |-> Unset]

\* A sidebar that is not there, waits for the user to be known, or is hidden has
\* no menu.
NoMenu == {"none", "waiting", "hidden"}
NoPage == [open |-> FALSE, shown |-> "default-theme", name |-> SystemTheme, language |-> Navigator,
           known |-> FALSE, menu |-> "none", switch |-> FALSE, missed |-> {}]

-----------------------------------------------------------------------------
(* What is read from the settings.                                         *)

\* No theme is that of the system.
ThemeShown(theme, isDark) ==
    IF theme # Unset THEN theme ELSE IF isDark THEN "dark-theme" ELSE "default-theme"
ThemeName(theme) == IF theme = Unset THEN SystemTheme ELSE theme
PrefillRandomIcons(s) == s.icons # FALSE
GetCurrentLanguage(s) == IF s.language = Unset THEN Navigator ELSE s.language

-----------------------------------------------------------------------------
(* What writes them.                                                       *)

\* The page tells the desktop application of each change with all settings.
NotifySettingsChanged(s) == kept' = IF desktop THEN s ELSE kept

\* Another tab does not learn what is written here.
OtherTabs(t, ts, keys) ==
    [o \in Tabs |-> IF o # t /\ ts[o].open THEN [ts[o] EXCEPT !.missed = @ \cup keys] ELSE ts[o]]

\* Mutant: the name of the theme stays.
ShowThemeOnly(page, theme, isDark) == [page EXCEPT !.shown = ThemeShown(theme, isDark)]

\* setTheme, the part that is about the page.
ShowTheme(page, theme, isDark) ==
    [page EXCEPT !.shown = ThemeShown(theme, isDark), !.name = ThemeName(theme),
                 !.missed = @ \ {"theme"}]

\* The menu takes the name of the theme, and its switch the setting, when it appears.
MenuAppears(page, s) ==
    [page EXCEPT !.menu = page.name, !.switch = PrefillRandomIcons(s),
                 !.missed = (@ \ {"tick", "icons"}) \cup
                            IF page.name = ThemeName(s.theme) THEN {} ELSE {"tick"}]

\* importUserSettings.  Nothing keeps the time of an import, so that none is
\* refused for being older.
Imported(s, blob) == IF blob = Unset THEN s ELSE blob

\* Mutant: the theme is loaded, and so stored, before the settings are imported.
StartedThemeFirst(s, blob) ==
    [imported |-> IF blob = Unset THEN s ELSE [s EXCEPT !.theme = Unset],
     page |-> [ShowTheme(NoPage, s.theme, dark) EXCEPT !.open = TRUE, !.language = GetCurrentLanguage(s)]]

\* main.tsx and App: the settings are imported, the theme and the language shown.
Started(s, blob) ==
    LET imported == Imported(s, blob)
    IN  [imported |-> imported,
         page |-> [ShowTheme(NoPage, imported.theme, dark)
                     EXCEPT !.open = TRUE, !.language = GetCurrentLanguage(imported)]]

\* A page is loaded with the storage s and the blob b.  What the blob changes
\* is lost unless it is what the user chose.
Load(t, s, b) ==
    LET started == Started(s, b)
    IN  /\ storage' = started.imported
        /\ tabs' = [tabs EXCEPT ![t] = started.page]
        /\ NotifySettingsChanged(started.imported)

Event == events < MaxEvents /\ events' = events + 1
Loses(s) == lost' = lost \cup {k \in Keys : s[k] # chosen[k]}

\* A tab of the browser is opened or loaded anew.
OpenTab(t) ==
    /\ ~desktop /\ Event
    /\ Load(t, storage, Unset)
    /\ UNCHANGED <<desktop, injected, dark, chosen, lost, picks>>

\* The desktop application starts, with the server at the port of the last time
\* or at another one; it gives the page the blob of now.
StartApplication(t) ==
    /\ desktop /\ Event
    /\ injected' = kept
    /\ \E s \in {storage, NoSettings} : Load(t, s, kept)
    /\ UNCHANGED <<desktop, dark, chosen, lost, picks>>

\* Its menu loads the home page again, which is given the blob of the start.
LoadHomepage(t) ==
    /\ desktop /\ tabs[t].open /\ Event
    /\ Load(t, storage, injected)
    /\ Loses(storage')
    /\ UNCHANGED <<desktop, injected, dark, chosen, picks>>

-----------------------------------------------------------------------------
(* The sidebar.                                                            *)

\* The sidebar is rendered, with its menu if the user is known and no name taken
\* yet; then its effect loads the theme.
ShowSidebar(t) ==
    /\ tabs[t].open /\ tabs[t].menu = "none" /\ Event
    /\ LET rendered == IF tabs[t].known THEN MenuAppears(tabs[t], storage)
                       ELSE [tabs[t] EXCEPT !.menu = "waiting"]
       IN  tabs' = [tabs EXCEPT ![t] = ShowTheme(rendered, storage.theme, dark)]
    /\ NotifySettingsChanged(storage)
    /\ UNCHANGED <<storage, desktop, injected, dark, chosen, lost, picks>>

\* The user is fetched.
UserKnown(t) ==
    /\ tabs[t].open /\ ~tabs[t].known
    /\ tabs' = [tabs EXCEPT ![t] =
                  LET known == [@ EXCEPT !.known = TRUE]
                  IN  IF @.menu = "waiting" THEN MenuAppears(known, storage) ELSE known]
    /\ UNCHANGED <<storage, desktop, kept, injected, dark, chosen, lost, picks, events>>

\* The page of boards is left.
LeaveSidebar(t) ==
    /\ tabs[t].open /\ tabs[t].menu # "none" /\ Event
    /\ tabs' = [tabs EXCEPT ![t].menu = "none"]
    /\ UNCHANGED <<storage, desktop, kept, injected, dark, chosen, lost, picks>>

\* The sidebar hides, and appears again without its effect.
HideSidebar(t) ==
    /\ tabs[t].open /\ Event
    /\ \/ tabs[t].menu \notin NoMenu /\ tabs' = [tabs EXCEPT ![t].menu = "hidden"]
       \/ tabs[t].menu = "hidden" /\ tabs' = [tabs EXCEPT ![t] = MenuAppears(@, storage)]
    /\ UNCHANGED <<storage, desktop, kept, injected, dark, chosen, lost, picks>>

Pick(t, key, value) ==
    /\ tabs[t].menu \notin NoMenu /\ picks < MaxPicks
    /\ picks' = picks + 1
    /\ chosen' = [chosen EXCEPT ![key] = value]
    /\ UNCHANGED <<desktop, injected, dark, events>>

\* updateTheme: Unset is the theme of the system.
UpdateTheme(t, theme) ==
    /\ Pick(t, "theme", theme)
    /\ storage' = [storage EXCEPT !.theme = theme]
    /\ tabs' = LET page == ShowTheme(tabs[t], theme, dark)
               IN  [OtherTabs(t, tabs, {"theme", "tick"}) EXCEPT
                      ![t] = [page EXCEPT !.menu = ThemeName(theme), !.missed = @ \ {"tick"}]]
    /\ NotifySettingsChanged(storage')
    /\ lost' = lost \ {"theme"}

StoreLanguage(t, language) ==
    /\ Pick(t, "language", language)
    /\ storage' = [storage EXCEPT !.language = language]
    /\ tabs' = [OtherTabs(t, tabs, {"language"}) EXCEPT
                  ![t].language = language, ![t].missed = @ \ {"language"}]
    /\ NotifySettingsChanged(storage')
    /\ lost' = lost \ {"language"}

\* Mutant: the switch shows what was stored.
ToggledLate(page, s) == [page EXCEPT !.switch = PrefillRandomIcons(s)]

Toggled(page, s) == [page EXCEPT !.switch = ~page.switch]

\* toggleRandomIcons: the setting and the switch are flipped each for itself; in
\* a tab that missed a change they become opposites.
ToggleRandomIcons(t) ==
    /\ Pick(t, "icons", ~tabs[t].switch)
    /\ storage' = [storage EXCEPT !.icons = ~PrefillRandomIcons(storage)]
    /\ tabs' = [OtherTabs(t, tabs, {"icons"}) EXCEPT ![t] = Toggled(tabs[t], storage)]
    /\ NotifySettingsChanged(storage')
    /\ lost' = IF "icons" \in tabs[t].missed THEN lost \cup {"icons"} ELSE lost \ {"icons"}

\* The system changes its colours: every page that keeps no theme follows.
SystemChanges ==
    /\ Event
    /\ dark' = ~dark
    /\ tabs' = [t \in Tabs |-> IF tabs[t].open /\ storage.theme = Unset
                               THEN ShowTheme(tabs[t], Unset, ~dark) ELSE tabs[t]]
    /\ UNCHANGED <<storage, desktop, kept, injected, chosen, lost, picks>>

-----------------------------------------------------------------------------
SettingsInit ==
    /\ storage = NoSettings /\ desktop \in BOOLEAN
    /\ kept = Unset /\ injected = Unset /\ dark = FALSE
    /\ tabs = [t \in Tabs |-> NoPage]
    /\ chosen = NoSettings /\ lost = {} /\ picks = 0 /\ events = 0

\* The desktop application has one window.
Windows == IF desktop THEN {CHOOSE t \in Tabs : TRUE} ELSE Tabs

SettingsNext ==
    \/ \E t \in Windows :
         \/ OpenTab(t) \/ StartApplication(t) \/ LoadHomepage(t)
         \/ ShowSidebar(t) \/ UserKnown(t) \/ LeaveSidebar(t) \/ HideSidebar(t)
         \/ \E theme \in Themes \cup {Unset} : UpdateTheme(t, theme)
         \/ \E language \in Languages : StoreLanguage(t, language)
         \/ ToggleRandomIcons(t)
    \/ (\E t \in Tabs : tabs[t].open) /\ SystemChanges

SettingsSpec == SettingsInit /\ [][SettingsNext]_settingsVars

-----------------------------------------------------------------------------
(* Properties.                                                             *)

AllSettings == [theme : Themes \cup {Unset}, language : Languages \cup {Unset}, icons : BOOLEAN \cup {Unset}]
ASSUME UnsetAssumption == Unset \notin AllSettings

\* Each variable has the values the code gives it.
SettingsTypeOK ==
    /\ storage \in AllSettings /\ chosen \in AllSettings
    /\ {kept, injected} \subseteq AllSettings \cup {Unset}
    /\ desktop \in BOOLEAN /\ dark \in BOOLEAN /\ lost \subseteq Keys
    /\ tabs \in [Tabs -> [open : BOOLEAN, shown : Themes, name : Themes \cup {SystemTheme},
                          language : Languages, known : BOOLEAN, switch : BOOLEAN,
                          menu : NoMenu \cup Themes \cup {SystemTheme},
                          missed : SUBSET (Keys \cup {"tick"})]]

\* A setting stays what the user last chose, through every load of a page, the
\* comings and goings of sidebars, changes of the system and restarts of the
\* desktop application with another storage.  Lost are only what the home page of
\* that application takes from the blob of its start, and a switch thrown in a
\* tab that missed another's.
SettingsLast ==
    \A k \in Keys \ lost :
        /\ (\E t \in Tabs : tabs[t].open) => storage[k] = chosen[k]
        /\ kept # Unset => kept[k] = chosen[k]

\* A page shows the colours and the language of the settings, and its menu ticks
\* the theme and shows the switch as they are set, unless another tab changed
\* them since this page or its menu appeared.
PageShowsSettings ==
    \A t \in Tabs : tabs[t].open =>
        LET page == tabs[t]
        IN  /\ "theme" \notin page.missed => /\ page.shown = ThemeShown(storage.theme, dark)
                                             /\ page.name = ThemeName(storage.theme)
            /\ "language" \notin page.missed => page.language = GetCurrentLanguage(storage)
            /\ page.menu \notin NoMenu =>
                 /\ "tick" \notin page.missed => page.menu = ThemeName(storage.theme)
                 /\ "icons" \notin page.missed => page.switch = PrefillRandomIcons(storage)

\* The two together: the storage, the blob, the pages and their menus agree with
\* what the user chose.
SettingsAgree == SettingsTypeOK /\ SettingsLast /\ PageShowsSettings
=============================================================================
