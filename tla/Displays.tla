------------------------------- MODULE Displays -------------------------------
(***************************************************************************)
(* Where displays come from: createDisplay() of either kind of compositor, *)
(* nested (a Westeros compositor of its own) and surface (part of one that *)
(* all share), with the extensions the permissions file gives its client,  *)
(* and how a client that RDKShell did not launch comes by a display: the   *)
(* thread of the shared compositor reports it and it is given the one that *)
(* has waited longest (rdkcompositornested.cpp, rdkcompositorsurface.cpp,  *)
(* permissions.cpp, loadExtensions of rdkcompositor.cpp).                  *)
(* The report and the main loop share a list and no lock.                  *)
(***************************************************************************)
EXTENDS Naturals, Sequences, FiniteSets, SequencesExt

CONSTANTS
    Objects,        \* RdkCompositors, each made once
    Spellings,      \* of clients' names, in a file and in calls
    LowerCase,      \* [Spellings -> names]
    NotText,        \* a client in a file that is no string
    PermissionFiles,\* records [clients, extensions, renderer], and Unreadable
    Unreadable,     \* not configured, missing, empty or no JSON
    Extensions,     \* the plugins there are
    Outsiders       \* processes that connect to the shared compositor

\* The extended input's path has the directory of the plugins twice, and there is
\* no plugin there.
DoubledPath == "extended input"

ASSUME DisplaysAssumption ==
    /\ LowerCase \in [Spellings -> Spellings]
    /\ NotText \notin Spellings
    /\ DoubledPath \notin Extensions
    /\ \A file \in PermissionFiles \ {Unreadable} :
          /\ file.clients \in Seq([client : Spellings \cup {NotText}, extensions : SUBSET Extensions])
          /\ file.extensions \subseteq Extensions

VARIABLES
    permissionFile,
    extendedInput,     \* RDKSHELL_EXTENDED_INPUT_ENABLED is set
    gCompositorType,   \* "NESTED" or "SURFACE"
    gClientsPermittedExtensions,
    gClientsDefaultPermittedExtensions,
    gDefaultRenderer,
    mMainWstContext,   \* "none", "broken", "started", or "unused" with nested ones
    objects,           \* [Objects -> what is known of a display]
    modules,           \* the extensions in every compositor, by object; "main" is shared
    gAvailable,        \* gAvailableRdkCompositors
    report,            \* what Westeros' thread is doing: [at, client, front]
    given,             \* [Outsiders -> what a report gave it]
    met              \* history: displays that came or went during a report

configuration == <<permissionFile, extendedInput, gCompositorType>>
permissions   == <<gClientsPermittedExtensions, gClientsDefaultPermittedExtensions,
                   gDefaultRenderer>>
displaysVars  == <<configuration, permissions, mMainWstContext, objects, modules, gAvailable,
                   report, given, met>>

Shared == "main"

NoDisplay == "no display"

ASSUME ObjectsAssumption == Objects \cap {NoDisplay, "nothing"} = {}

NoObject == [is |-> "none", name |-> NoDisplay, launched |-> FALSE]

Idle == [at |-> "idle", client |-> NoDisplay, front |-> NoDisplay]

DisplaysInit ==
    /\ permissionFile \in PermissionFiles
    /\ extendedInput \in BOOLEAN
    /\ gCompositorType \in {"NESTED", "SURFACE"}
    /\ gClientsPermittedExtensions = [name \in {} |-> {}]
    /\ gClientsDefaultPermittedExtensions = {}
    /\ gDefaultRenderer = ""
    /\ mMainWstContext = "none"
    /\ objects = [o \in Objects |-> NoObject]
    /\ modules = [c \in Objects \cup {Shared} |-> {}]
    /\ gAvailable = <<>>
    /\ report = Idle
    /\ given = [p \in Outsiders |-> "nothing"]
    /\ met = FALSE

-----------------------------------------------------------------------------
(* readPermissionsConfiguration(), while RDKShell starts.                  *)

SameName(entry, spelling) ==
    entry.client # NotText /\ LowerCase[entry.client] = spelling

\* The first entry with a client's name is the one that counts.
ReadPermissions ==
    /\ mMainWstContext = "none"
    /\ permissionFile # Unreadable
    /\ LET entries == permissionFile.clients
           named(name) == {i \in DOMAIN entries : SameName(entries[i], name)}
       IN  gClientsPermittedExtensions' =
             [name \in {n \in Spellings : named(n) # {}} |->
                entries[CHOOSE i \in named(name) : \A j \in named(name) : i <= j].extensions]
    /\ gClientsDefaultPermittedExtensions' = permissionFile.extensions
    /\ gDefaultRenderer' = permissionFile.renderer

NoPermissions ==
    /\ mMainWstContext = "none"
    /\ permissionFile = Unreadable
    /\ UNCHANGED permissions

getAllowedExtensions(name) ==
    IF name \in DOMAIN gClientsPermittedExtensions THEN gClientsPermittedExtensions[name]
                                                   ELSE gClientsDefaultPermittedExtensions

\* The shared compositor is made once, if at all, and need not start.
CreateMainCompositor ==
    /\ mMainWstContext' \in IF gCompositorType = "SURFACE" THEN {"started", "broken"}
                                                          ELSE {"unused"}
    /\ ReadPermissions \/ NoPermissions
    /\ UNCHANGED <<configuration, objects, modules, gAvailable, report, given, met>>

-----------------------------------------------------------------------------
(* createDisplay() and what becomes of a display.                          *)

Listed(o) == objects[o].is = "listed"

Wanted(name) ==
    getAllowedExtensions(name) \cup (IF extendedInput THEN {DoubledPath} ELSE {})

Context(o) == IF gCompositorType = "SURFACE" THEN Shared ELSE o

\* loadExtensions(): an extension that fails does not keep the others out.
LoadExtensions(o, name, loaded) ==
    modules' = [modules EXCEPT ![Context(o)] = @ \cup loaded]

Meets == met' = (met \/ report.at # "idle")

\* launchApplication() gives createDisplay() no client's name.
NameFor(spelling, launched) == IF launched THEN "" ELSE LowerCase[spelling]

Unmade(o, spelling) ==
    /\ mMainWstContext # "none"
    /\ objects[o].is = "none"
    /\ \A other \in Objects : Listed(other) => objects[other].name # LowerCase[spelling]

Becomes(o, is, spelling, launched) ==
    objects' = [objects EXCEPT ![o] = [is |-> is, name |-> LowerCase[spelling],
                                       launched |-> launched]]

\* The display that is made joins the list of those that wait, if no
\* application was launched on it.
MakeDisplay(o, spelling, launched) ==
    LET wanted == Wanted(NameFor(spelling, launched))
    IN  /\ Unmade(o, spelling)
        /\ wanted \subseteq Extensions
        /\ LoadExtensions(o, NameFor(spelling, launched), wanted)
        /\ Becomes(o, "listed", spelling, launched)
        /\ IF gCompositorType = "SURFACE" /\ ~launched
             THEN gAvailable' = Append(gAvailable, o) /\ Meets
             ELSE UNCHANGED <<gAvailable, met>>
        /\ UNCHANGED <<configuration, permissions, mMainWstContext, report, given>>

\* An extension or a call of Westeros fails, and the display is dropped.
FailDisplay(o, spelling, launched) ==
    /\ Unmade(o, spelling)
    /\ \E loaded \in SUBSET (Wanted(NameFor(spelling, launched)) \cap Extensions) :
          LoadExtensions(o, NameFor(spelling, launched), loaded)
    /\ Becomes(o, "destroyed", spelling, launched)
    /\ UNCHANGED <<configuration, permissions, mMainWstContext, gAvailable, report, given, met>>

\* Westeros makes no compositor at all: the display is listed without one.
EmptyDisplay(o, spelling, launched) ==
    /\ Unmade(o, spelling)
    /\ Becomes(o, "listed", spelling, launched)
    /\ UNCHANGED <<configuration, permissions, mMainWstContext, modules, gAvailable, report,
                   given, met>>

KillDisplay(o) ==
    /\ Listed(o)
    /\ objects' = [objects EXCEPT ![o].is = "killed"]
    /\ UNCHANGED <<configuration, permissions, mMainWstContext, modules, gAvailable, report,
                   given, met>>

BugForget(o) == UNCHANGED gAvailable

Forget(o) == gAvailable' = RemoveFirst(gAvailable, o)

\* ~RdkCompositorSurface(), when draw() lets go of the display
DestroyDisplay(o) ==
    /\ objects[o].is = "killed"
    /\ objects' = [objects EXCEPT ![o].is = "destroyed"]
    /\ Forget(o)
    /\ Meets
    /\ UNCHANGED <<configuration, permissions, mMainWstContext, modules, report, given>>

-----------------------------------------------------------------------------
(* unBoundedClient(), on the thread of the shared compositor.              *)

ReportClient(p) ==
    /\ mMainWstContext = "started"
    /\ report.at = "idle"
    /\ given[p] = "nothing"
    /\ IF gAvailable = <<>>
         THEN given' = [given EXCEPT ![p] = NoDisplay] /\ UNCHANGED report
         ELSE /\ report' = [at |-> "binding", client |-> p, front |-> Head(gAvailable)]
              /\ UNCHANGED given
    /\ UNCHANGED <<configuration, permissions, mMainWstContext, objects, modules, gAvailable,
                   met>>

\* Westeros may refuse, and the display is taken off the list all the same.
BindClient ==
    /\ report.at = "binding"
    /\ report' = [report EXCEPT !.at = "erasing"]
    /\ given' \in {[given EXCEPT ![report.client] = report.front],
                   [given EXCEPT ![report.client] = NoDisplay]}
    /\ UNCHANGED <<configuration, permissions, mMainWstContext, objects, modules, gAvailable,
                   met>>

\* What an iterator into a list that changed erases is undefined: anything or
\* nothing.
EraseDisplay ==
    /\ report.at = "erasing"
    /\ report' = Idle
    /\ IF met
         THEN \/ UNCHANGED gAvailable
              \/ \E i \in DOMAIN gAvailable : gAvailable' = RemoveAt(gAvailable, i)
         ELSE gAvailable' = Tail(gAvailable)
    /\ UNCHANGED <<configuration, permissions, mMainWstContext, objects, modules, given, met>>

DisplaysNext ==
    \/ CreateMainCompositor
    \/ \E o \in Objects :
          \/ \E spelling \in Spellings, launched \in BOOLEAN :
                \/ MakeDisplay(o, spelling, launched)
                \/ FailDisplay(o, spelling, launched)
                \/ EmptyDisplay(o, spelling, launched)
          \/ KillDisplay(o)
          \/ DestroyDisplay(o)
    \/ \E p \in Outsiders : ReportClient(p)
    \/ BindClient
    \/ EraseDisplay

DisplaysSpec == DisplaysInit /\ [][DisplaysNext]_displaysVars

-----------------------------------------------------------------------------

\* What the file says of a display: the first entry for its client, however it
\* is spelled, and what is said for others if there is none.
Configured(o) ==
    LET entries == IF permissionFile = Unreadable THEN <<>> ELSE permissionFile.clients
        name == IF objects[o].launched THEN "" ELSE objects[o].name
        first == SelectInSeq(entries, LAMBDA entry : entry.client # NotText
                                                     /\ LowerCase[entry.client] = name)
    IN  IF first # 0 THEN entries[first].extensions
        ELSE IF permissionFile = Unreadable THEN {}
        ELSE permissionFile.extensions

\* In a compositor of its own a display has the extensions the file gives its
\* client and no other's, also a client that was killed and comes back spelled
\* otherwise; a launched application has those of a client without a name.
\* There are none where Westeros made no compositor.
OnlyPermittedExtensions ==
    gCompositorType = "NESTED" =>
        \A o \in Objects : Listed(o) => modules[o] \in {Configured(o), {}}

\* As long as no display comes or goes while a client is being reported, no two
\* clients are given one display, none is given one that is destroyed, or one
\* with an application of its own, and a display that waits has been given to
\* nobody.
ClientsGetDisplays ==
    ~met =>
        /\ \A p, q \in Outsiders :
              given[p] \in Objects /\ given[p] = given[q] => p = q
        /\ \A o \in ToSet(gAvailable) :
              /\ ~objects[o].launched
              /\ objects[o].is # "destroyed"
              /\ (\E p \in Outsiders : given[p] = o) => report.at = "erasing" /\ report.front = o
        /\ report.at # "idle" => objects[report.front].is # "destroyed"

=============================================================================
