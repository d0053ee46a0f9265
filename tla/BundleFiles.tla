------------------------------ MODULE BundleFiles ------------------------------
(***************************************************************************)
(* The bundles of a session: the names in its row, and the two files in    *)
(* its root that turn them on for Claude, .mcp.json and                    *)
(* .claude/settings.local.json (internal/bundles, internal/claudesettings  *)
(* and their callers in internal/session).  A request to set the bundles,  *)
(* an activation, the end of a setup and an added workspace all bring the  *)
(* files into line with the names; the user and Claude edit them as well.  *)
(* Nobody takes a lock: each reads a file, changes it and puts a new one   *)
(* in its place.                                                           *)
(*                                                                         *)
(* A file is its entries: plugins, servers, approvals of servers, and      *)
(* whether the sandbox lists the checkouts.  A malformed file keeps its    *)
(* entries and cannot be read.  Database errors are left out.              *)
(***************************************************************************)
EXTENDS Naturals, FiniteSets

CONSTANTS
  Writers,  \* goroutines that write the files
  Bundles, Plugins, Servers,
  Others    \* plugins and servers outside of the catalog

ASSUME OthersAreNotInCatalog == Others \cap (Plugins \cup Servers) = {}

VARIABLES
  catalog,    \* the bundles of the configuration: a function on some of Bundles
  defined,    \* the servers the configuration defines
  selected,   \* the bundles in the row of the session
  mcp,        \* .mcp.json
  settings,   \* settings.local.json
  scribe,     \* what every writer is doing
  own,        \* history: entries outside of the catalog, as their owner left them
  disturbed,  \* history: writers that somebody interfered with since they took the names
  clean       \* history: the last writer was alone and did not fail

fileVars == <<catalog, defined, selected, mcp, settings, scribe, own, disturbed, clean>>

NoFile   == [ok |-> TRUE, servers |-> {}]
NoRules  == [ok |-> TRUE, plugins |-> {}, approved |-> {}, sandbox |-> FALSE]
Resting  == [at |-> "idle", bundles |-> {}, failed |-> FALSE, mcp |-> NoFile, settings |-> NoRules]
NoEntries == [servers |-> {}, plugins |-> {}, approved |-> {}]

FilesInit ==
  /\ \E known \in SUBSET Bundles :
       catalog \in [known -> [plugins : SUBSET Plugins, servers : SUBSET Servers]]
  /\ defined \in SUBSET Servers
  /\ selected = {}
  /\ mcp = NoFile
  /\ settings = NoRules
  /\ scribe = [w \in Writers |-> Resting]
  /\ own = NoEntries
  /\ disturbed = {}
  /\ clean = TRUE

-----------------------------------------------------------------------------
(***************************************************************************)
(* Catalog.Resolve and Managed.  Unknown bundles and servers without a     *)
(* definition are passed over.                                             *)
(***************************************************************************)
ResolveBundles(names) ==
  [plugins |-> UNION {catalog[b].plugins : b \in names \cap DOMAIN catalog},
   servers |-> UNION {catalog[b].servers : b \in names \cap DOMAIN catalog}]
Managed == ResolveBundles(DOMAIN catalog)
SelectedServers(names) == ResolveBundles(names).servers \cap defined

ReplaceManaged(current, managed, set)   == (current \ managed) \cup set
ReplaceApprovals(current, managed, set) == (current \ (managed \cup set)) \cup set
MergeAllowWrite(file)                   == [file EXCEPT !.sandbox = TRUE]

\* .mcp.json as a writer of these names would leave it.
WithServers(file, names) ==
  [ok |-> TRUE, servers |-> ReplaceManaged(file.servers, Managed.servers, SelectedServers(names))]

\* settings.local.json likewise; the approvals only if .mcp.json was written.
WithPlugins(file, names, written) ==
  [file EXCEPT !.plugins = ReplaceManaged(@, Managed.plugins, ResolveBundles(names).plugins),
               !.approved = IF written THEN ReplaceApprovals(@, Managed.servers, SelectedServers(names)) ELSE @]

-----------------------------------------------------------------------------
(***************************************************************************)
(* The writers: the requests, and how they take the names.                 *)
(***************************************************************************)
Is(w, state) == scribe[w].at = state
Writing         == {w \in Writers : ~Is(w, "idle")}
OthersWriting(w)      == Writing \ {w}

\* w begins to write these names; what others have done before does not concern it.
Takes(w, names, at) ==
  /\ scribe' = [scribe EXCEPT ![w] = [Resting EXCEPT !.at = at, !.bundles = names]]
  /\ clean' = FALSE

SetBundles(w, names) ==
  /\ Is(w, "idle")
  /\ selected' = names
  /\ disturbed' = (disturbed \ {w}) \cup OthersWriting(w)
  /\ Takes(w, names, "mcp")
  /\ UNCHANGED <<catalog, defined, mcp, settings, own>>

\* ActivateSession takes the names of the row it has read at the beginning.
ApplyClaudeBundles(w) ==
  /\ Is(w, "idle")
  /\ disturbed' = disturbed \ {w}
  /\ Takes(w, selected, "mcp")
  /\ UNCHANGED <<catalog, defined, selected, mcp, settings, own>>

\* The last step of a setup, whose session was read when the setup began.
RunSetup(w) ==
  /\ Is(w, "idle")
  /\ Takes(w, selected, "root")
  /\ UNCHANGED <<catalog, defined, selected, mcp, settings, own, disturbed>>

\* AddWorkspace: the names are read early, the union is stored late.
AddDefaults(w, defaults) ==
  /\ Is(w, "idle")
  /\ defaults # {}
  /\ Takes(w, selected \cup defaults, IF defaults \subseteq selected THEN "root" ELSE "merged")
  /\ UNCHANGED <<catalog, defined, selected, mcp, settings, own, disturbed>>

UpdateBundles(w) ==
  /\ Is(w, "merged")
  /\ selected' = scribe[w].bundles
  /\ disturbed' = disturbed \cup OthersWriting(w)
  /\ scribe' = [scribe EXCEPT ![w].at = "root"]
  /\ UNCHANGED <<catalog, defined, mcp, settings, own, clean>>

\* applyClaudeSettings reads the names again.  Its mutant does not.
KeepBundles(w) ==
  /\ Is(w, "reread")
  /\ scribe' = [scribe EXCEPT ![w].at = "mcp"]
  /\ disturbed' = disturbed \ {w}
  /\ UNCHANGED <<catalog, defined, selected, mcp, settings, own, clean>>

GetBundles(w) ==
  /\ Is(w, "reread")
  /\ scribe' = [scribe EXCEPT ![w].at = "mcp", ![w].bundles = selected]
  /\ disturbed' = disturbed \ {w}
  /\ UNCHANGED <<catalog, defined, selected, mcp, settings, own, clean>>

-----------------------------------------------------------------------------
(***************************************************************************)
(* editJSONObject: a file that cannot be read is an error, one that would  *)
(* stay the same is left alone, any other is replaced as a whole.          *)
(***************************************************************************)
Fails(w, at) == scribe' = [scribe EXCEPT ![w].at = at, ![w].failed = TRUE]

\* Neither file is touched when a server of the bundles is defined wrongly.
ReadMcp(w) ==
  LET new == WithServers(mcp, scribe[w].bundles) IN
  /\ Is(w, "mcp")
  /\ \/ scribe[w].bundles # {} /\ Fails(w, "done")
     \/ ~mcp.ok /\ Fails(w, "settings")
     \/ mcp.ok /\ scribe' = [scribe EXCEPT ![w].at = IF new = mcp THEN "settings" ELSE "mcpWrite",
                                           ![w].mcp = new]
  /\ UNCHANGED <<catalog, defined, selected, mcp, settings, own, disturbed, clean>>

\* A writer that overwrites an edit loses it; its owner finds the file as it is.
WriteMcp(w) ==
  /\ Is(w, "mcpWrite")
  /\ \/ /\ mcp' = scribe[w].mcp
        /\ scribe' = [scribe EXCEPT ![w].at = "settings"]
        /\ own' = IF w \in disturbed THEN [own EXCEPT !.servers = mcp'.servers \cap Others] ELSE own
        /\ disturbed' = disturbed \cup OthersWriting(w)
     \/ Fails(w, "settings") /\ UNCHANGED <<mcp, own, disturbed>>
  /\ UNCHANGED <<catalog, defined, selected, settings, clean>>

\* EnsureSessionRoot and the second half of ApplyBundles.
ReadSettings(w) ==
  LET root == Is(w, "root")
      new == IF root THEN MergeAllowWrite(settings)
             ELSE WithPlugins(settings, scribe[w].bundles, ~scribe[w].failed)
      after == IF root THEN "reread" ELSE "done" IN
  /\ root \/ Is(w, "settings")
  /\ \/ ~settings.ok /\ (IF root THEN scribe' = [scribe EXCEPT ![w].at = after] ELSE Fails(w, after))
     \/ settings.ok /\ scribe' = [scribe EXCEPT ![w].settings = new,
                         ![w].at = IF new = settings THEN after ELSE IF root THEN "rootWrite" ELSE "settingsWrite"]
  /\ UNCHANGED <<catalog, defined, selected, mcp, settings, own, disturbed, clean>>

WriteSettings(w) ==
  LET root == Is(w, "rootWrite")
      after == IF root THEN "reread" ELSE "done" IN
  /\ root \/ Is(w, "settingsWrite")
  /\ \/ /\ settings' = scribe[w].settings
        /\ scribe' = [scribe EXCEPT ![w].at = after]
        /\ own' = IF root \/ w \in disturbed
                  THEN [own EXCEPT !.plugins = settings'.plugins \cap Others,
                                   !.approved = settings'.approved \cap Others] ELSE own
        /\ disturbed' = disturbed \cup OthersWriting(w)
     \/ /\ IF root THEN scribe' = [scribe EXCEPT ![w].at = after] ELSE Fails(w, after)
        /\ UNCHANGED <<settings, own, disturbed>>
  /\ UNCHANGED <<catalog, defined, selected, mcp, clean>>

WriterEnds(w) ==
  /\ Is(w, "done")
  /\ scribe' = [scribe EXCEPT ![w] = Resting]
  /\ disturbed' = disturbed \ {w}
  /\ clean' = (w \notin disturbed /\ ~scribe[w].failed /\ OthersWriting(w) = {})
  /\ UNCHANGED <<catalog, defined, selected, mcp, settings, own>>

-----------------------------------------------------------------------------
(***************************************************************************)
(* The user and Claude.  Who holds the contents of a file that is edited   *)
(* is disturbed.                                                           *)
(***************************************************************************)
Holding(states) == {w \in Writers : scribe[w].at \in states}

EditMcp ==
  /\ \/ \E e \in Others :
          /\ mcp' = [ok |-> TRUE, servers |-> IF e \in mcp.servers THEN mcp.servers \ {e} ELSE mcp.servers \cup {e}]
          /\ own' = [own EXCEPT !.servers = mcp'.servers \cap Others]
     \/ mcp' = [mcp EXCEPT !.ok = ~@] /\ UNCHANGED own
  /\ disturbed' = disturbed \cup Holding({"mcpWrite"})
  /\ UNCHANGED <<catalog, defined, selected, settings, scribe, clean>>

EditSettings ==
  /\ \/ \E e \in Others :
          /\ settings' = IF e \in settings.plugins
                         THEN [settings EXCEPT !.ok = TRUE, !.plugins = @ \ {e}, !.approved = @ \ {e}]
                         ELSE [settings EXCEPT !.ok = TRUE, !.plugins = @ \cup {e}, !.approved = @ \cup {e}]
          /\ own' = [own EXCEPT !.plugins = settings'.plugins \cap Others,
                                !.approved = settings'.approved \cap Others]
     \/ settings' = [settings EXCEPT !.ok = ~@] /\ UNCHANGED own
  /\ disturbed' = disturbed \cup Holding({"rootWrite", "settingsWrite"})
  /\ UNCHANGED <<catalog, defined, selected, mcp, scribe, clean>>

-----------------------------------------------------------------------------
FileRequests ==
  \/ \E w \in Writers, names \in SUBSET Bundles : SetBundles(w, names) \/ AddDefaults(w, names)
  \/ \E w \in Writers : ApplyClaudeBundles(w) \/ RunSetup(w)
  \/ EditMcp \/ EditSettings

FileSteps == \E w \in Writers :
  UpdateBundles(w) \/ GetBundles(w) \/ ReadMcp(w) \/ WriteMcp(w) \/ ReadSettings(w) \/ WriteSettings(w) \/ WriterEnds(w)

FilesSpec == FilesInit /\ [][FileRequests \/ FileSteps]_fileVars

-----------------------------------------------------------------------------
(***************************************************************************)
(* Properties.                                                             *)
(***************************************************************************)
\* When the last writer has met nobody and no error, the three places agree: of the
\* catalog the files hold what the bundles of the row select and nothing else,
\* every server that is on is approved, and the entries of others are theirs.
FilesFollowRow ==
  clean =>
    /\ mcp.servers \cap Managed.servers = SelectedServers(selected)
    /\ settings.approved \cap Managed.servers = SelectedServers(selected)
    /\ settings.plugins \cap Managed.plugins = ResolveBundles(selected).plugins
    /\ [servers |-> mcp.servers \cap Others, plugins |-> settings.plugins \cap Others,
        approved |-> settings.approved \cap Others] = own
=============================================================================
