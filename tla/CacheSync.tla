----------------------------- MODULE CacheSync -----------------------------
(* The caches of settings and groups of every instance and how a change reaches them:
   syncer/cache_syncer.go, its two users (config/system_settings.go,
   services/group_manager.go) and the channels of the store. An entry of the group cache
   holds the settings it was built with. Loading, storing, the hook and the publication are
   separate steps, and the reloads of a handler and of the listener may overlap. *)
EXTENDS Naturals, Sequences, FiniteSets

CONSTANTS Instance, Running,    \* Running: the sets of instances that may share the store
          MasterInstance,   \* MasterInstance: its settings hook rebuilds the groups
          Handler,         \* administrators' requests, each one change
          Buffer,          \* messages a subscription holds, 10 in the code
          MaxActive,       \* bound: instances and requests together
          MaxCacheFaults   \* bound: lost subscriptions, failed loads and publications together

Channel == {"groups", "settings"}

ASSUME CacheSyncAssumption ==
    /\ MasterInstance \in Instance /\ "nowhere" \notin Instance
    /\ \A on \in Running : MasterInstance \in on /\ on \subseteq Instance
    /\ Handler \cap (Instance \X Channel) = {}
    /\ Buffer \in Nat \ {0}

VARIABLES running,    \* the instances of this deployment
          dbVersion,  \* per channel: the version in the database
          settingsAt, \* per instance: the version of its settings cache
          groupsAt,   \* per instance: its group cache, [groups, settings]
          selectors,  \* per instance: what its selectors were rebuilt from
          program,    \* per process: the steps it has yet to take
          loadedAt,   \* per process: what its load returned
          place,      \* per handler: its instance, or "nowhere" before it starts
          inbox,      \* per instance and channel: messages waiting
          subscribed, \* per instance and channel
          unheard,    \* per instance and channel: the last message did not lead to a reload
          cacheFaults

cacheVars == <<running, dbVersion, settingsAt, groupsAt, selectors, program, loadedAt, place, inbox,
               subscribed, unheard, cacheFaults>>

\* A process is a handler or the listener of a channel at an instance.
Listener == Instance \X Channel
CacheProcess == Handler \cup Listener
At(p) == IF p \in Handler THEN place[p] ELSE p[1]

Version == 0 .. 2    \* bound: changes of a channel
GroupCache == [groups : Version, settings : Version]
Fresh == [groups |-> 0, settings |-> 0]

CacheTypeOK ==
    /\ running \in Running
    /\ dbVersion \in [Channel -> Version]
    /\ settingsAt \in [Instance -> Version]
    /\ groupsAt \in [Instance -> GroupCache] /\ selectors \in [Instance -> GroupCache]
    /\ \A p \in CacheProcess : Len(program[p]) <= 7 /\ loadedAt[p] \in GroupCache
    /\ \A h \in Handler : place[h] \in Instance \cup {"nowhere"}
    /\ inbox \in [Instance \X Channel -> 0 .. Buffer]
    /\ subscribed \in [Instance \X Channel -> BOOLEAN]
    /\ unheard \in [Instance \X Channel -> BOOLEAN]

\* Every instance loads its caches when it starts; the listeners subscribe after that.
CacheInit ==
    /\ running \in Running
    /\ dbVersion = [c \in Channel |-> 0]
    /\ settingsAt = [i \in Instance |-> 0]
    /\ groupsAt = [i \in Instance |-> Fresh] /\ selectors = groupsAt
    /\ program = [p \in CacheProcess |-> <<>>]
    /\ loadedAt = [p \in CacheProcess |-> Fresh]
    /\ place = [h \in Handler |-> "nowhere"]
    /\ inbox = [l \in Listener |-> 0]
    /\ subscribed = [l \in Listener |-> FALSE]
    /\ unheard = [l \in Listener |-> FALSE]
    /\ cacheFaults = 0

--------------------------------------------------------------------------
(* What reload and Invalidate do, step by step *)

GroupReload == <<"load groups", "store groups", "rebuild">>

\* Mutant: the others are told first.
GroupInvalidate_TellsFirst == <<"publish groups">> \o GroupReload
GroupInvalidate == GroupReload \o <<"publish groups">>

\* Mutant: nobody rebuilds the groups when the settings change.
SettingsHook_None(i) == <<>>

\* The hook of the settings rebuilds the groups, at the master only.
SettingsHook(i) == IF i = MasterInstance THEN GroupInvalidate ELSE <<>>
SettingsReload(i) == <<"load settings", "store settings">> \o SettingsHook(i)
SettingsInvalidate(i) == SettingsReload(i) \o <<"publish settings">>

Reload(c, i) == IF c = "groups" THEN GroupReload ELSE SettingsReload(i)
Invalidate(c, i) == IF c = "groups" THEN GroupInvalidate ELSE SettingsInvalidate(i)

\* A failed load skips the rest of its own reload: of the groups their storing and the
\* rebuild, of the settings also the hook. The publications that follow are made.
AfterLoadFault(steps) ==
    IF Head(steps) = "load groups" THEN Tail(Tail(Tail(steps)))
    ELSE IF steps[Len(steps)] = "publish settings" THEN <<"publish settings">> ELSE <<>>

--------------------------------------------------------------------------

\* A request changes the database at some instance and goes on with Invalidate.
Edits(h, i, c) ==
    /\ place[h] = "nowhere" /\ h = CHOOSE g \in Handler : place[g] = "nowhere"
    /\ Cardinality(running) + Cardinality({g \in Handler : place[g] # "nowhere"}) < MaxActive
    /\ dbVersion[c] + 1 \in Version
    /\ dbVersion' = [dbVersion EXCEPT ![c] = @ + 1]
    /\ place' = [place EXCEPT ![h] = i]
    /\ program' = [program EXCEPT ![h] = Invalidate(c, i)]
    /\ UNCHANGED <<running, settingsAt, groupsAt, selectors, loadedAt, inbox, subscribed,
                   unheard, cacheFaults>>

Step(p, name) == program[p] # <<>> /\ Head(program[p]) = name
Proceeds(p) == program' = [program EXCEPT ![p] = Tail(@)]

\* The loader reads the database; that of the groups also reads the cached settings.
Loads(p) ==
    /\ Step(p, "load groups") \/ Step(p, "load settings")
    /\ loadedAt' = [loadedAt EXCEPT ![p] =
                      IF Step(p, "load groups")
                      THEN [groups |-> dbVersion["groups"], settings |-> settingsAt[At(p)]]
                      ELSE [@ EXCEPT !.settings = dbVersion["settings"]]]
    /\ Proceeds(p)
    /\ UNCHANGED <<running, dbVersion, settingsAt, groupsAt, selectors, place, inbox, subscribed,
                   unheard, cacheFaults>>

LoadFails(p) ==
    /\ cacheFaults < MaxCacheFaults
    /\ Step(p, "load groups") \/ Step(p, "load settings")
    /\ cacheFaults' = cacheFaults + 1
    /\ program' = [program EXCEPT ![p] = AfterLoadFault(@)]
    /\ unheard' = [l \in Listener |-> unheard[l] \/ l[1] = At(p)]
    /\ UNCHANGED <<running, dbVersion, settingsAt, groupsAt, selectors, loadedAt, place, inbox,
                   subscribed>>

StoresSettings(p) ==
    /\ Step(p, "store settings")
    /\ settingsAt' = [settingsAt EXCEPT ![At(p)] = loadedAt[p].settings]
    /\ Proceeds(p)
    /\ UNCHANGED <<running, dbVersion, groupsAt, selectors, loadedAt, place, inbox, subscribed,
                   unheard, cacheFaults>>

StoresGroups(p) ==
    /\ Step(p, "store groups")
    /\ groupsAt' = [groupsAt EXCEPT ![At(p)] = loadedAt[p]]
    /\ Proceeds(p)
    /\ UNCHANGED <<running, dbVersion, settingsAt, selectors, loadedAt, place, inbox, subscribed,
                   unheard, cacheFaults>>

\* RebuildSelectors, with what this reload has loaded.
Rebuilds(p) ==
    /\ Step(p, "rebuild")
    /\ selectors' = [selectors EXCEPT ![At(p)] = loadedAt[p]]
    /\ Proceeds(p)
    /\ UNCHANGED <<running, dbVersion, settingsAt, groupsAt, loadedAt, place, inbox, subscribed,
                   unheard, cacheFaults>>

Publishing(p, c) == Step(p, IF c = "groups" THEN "publish groups" ELSE "publish settings")

\* A subscription that holds Buffer messages loses the message; so does a missing one.
Publishes(p, c) ==
    /\ Publishing(p, c)
    /\ inbox' = [l \in Listener |-> IF l[2] = c /\ subscribed[l] /\ inbox[l] < Buffer
                                    THEN inbox[l] + 1 ELSE inbox[l]]
    /\ unheard' = [l \in Listener |-> IF l[2] = c THEN ~subscribed[l] ELSE unheard[l]]
    /\ Proceeds(p)
    /\ UNCHANGED <<running, dbVersion, settingsAt, groupsAt, selectors, loadedAt, place, subscribed,
                   cacheFaults>>

\* The store does not take the message, and no instance hears of the change.
PublishFails(p, c) ==
    /\ cacheFaults < MaxCacheFaults
    /\ Publishing(p, c)
    /\ cacheFaults' = cacheFaults + 1
    /\ unheard' = [l \in Listener |-> unheard[l] \/ l[2] = c]
    /\ Proceeds(p)
    /\ UNCHANGED <<running, dbVersion, settingsAt, groupsAt, selectors, loadedAt, place, inbox,
                   subscribed>>

--------------------------------------------------------------------------
(* listenForUpdates *)

Subscribes(l) ==
    /\ ~subscribed[l] /\ inbox[l] = 0 /\ program[l] = <<>>
    /\ subscribed' = [subscribed EXCEPT ![l] = TRUE]
    /\ UNCHANGED <<running, dbVersion, settingsAt, groupsAt, selectors, program, loadedAt, place,
                   inbox, unheard, cacheFaults>>

\* The connection is gone; what was received is still handled, then comes a new subscription.
Disconnects(l) ==
    /\ cacheFaults < MaxCacheFaults /\ subscribed[l]
    /\ cacheFaults' = cacheFaults + 1
    /\ subscribed' = [subscribed EXCEPT ![l] = FALSE]
    /\ UNCHANGED <<running, dbVersion, settingsAt, groupsAt, selectors, program, loadedAt, place,
                   inbox, unheard>>

Hears(l) ==
    /\ inbox[l] > 0 /\ program[l] = <<>>
    /\ inbox' = [inbox EXCEPT ![l] = @ - 1]
    /\ program' = [program EXCEPT ![l] = Reload(l[2], l[1])]
    /\ UNCHANGED <<running, dbVersion, settingsAt, groupsAt, selectors, loadedAt, place, subscribed,
                   unheard, cacheFaults>>

CacheNext ==
    \/ \E h \in Handler, i \in running, c \in Channel : Edits(h, i, c)
    \/ \E p \in CacheProcess : \/ Loads(p) \/ LoadFails(p) \/ StoresSettings(p)
                               \/ StoresGroups(p) \/ Rebuilds(p)
                               \/ \E c \in Channel : Publishes(p, c) \/ PublishFails(p, c)
    \/ \E l \in running \X Channel : Subscribes(l) \/ Disconnects(l) \/ Hears(l)

--------------------------------------------------------------------------
(* Properties *)

Settled == (\A p \in CacheProcess : program[p] = <<>>) /\ (\A l \in Listener : inbox[l] = 0)

\* However reloads overlap and overtake each other, and however many messages a full
\* subscription loses: once all is done, the caches and the selectors of an instance that
\* was subscribed when the last message came are those of the database (Invalidate,
\* reload, listenForUpdates, RebuildSelectors).
CachesFollow ==
    Settled => \A i \in running :
        /\ ~unheard[<<i, "settings">>] => settingsAt[i] = dbVersion["settings"]
        /\ ~unheard[<<i, "groups">>] =>
             groupsAt[i].groups = dbVersion["groups"] /\ selectors[i].groups = dbVersion["groups"]

\* At the master, the groups then also hold the settings of the database (afterLoader).
MasterConfigSettles ==
    Settled /\ (\A c \in Channel : ~unheard[<<MasterInstance, c>>]) =>
        groupsAt[MasterInstance].settings = dbVersion["settings"]

CachesSettle == CachesFollow /\ MasterConfigSettles
=============================================================================
