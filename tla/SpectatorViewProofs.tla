------------------------- MODULE SpectatorViewProofs -------------------------
(***************************************************************************)
(* What the steps of the listening side keep, for any nodes, any capacity  *)
(* of the channel and any bounds.  SpectatorLifecycleProofs puts them      *)
(* together with the calls of the program.                                 *)
(***************************************************************************)
EXTENDS SpectatorView, TLAPS

\* The loop holds names and records only while it reads a view, one at a time,
\* and lists names only for the kinds that have no map.
LoopReading == lpc \in {"list", "view", "read"}
LoopInv ==
    /\ lpc \notin {"view", "read"} => visited = {} /\ keys = {}
    /\ lpc # "read" => reading = {}
    /\ lpc = "read" => \E n \in visited : reading = {n}
    /\ lpc = "list" => current \notin FromMap
    /\ lpc = "off" => queue = <<>>
    /\ current \notin FromMap => visited \subseteq keys

\* A parent has a watch once it has read; what it has listed is what there is
\* while the watch is armed; a new name gets its watcher, and the map is
\* refreshed, before it is announced.
ParentInv ==
    \A k \in Kinds :
        /\ pwatch[k] = "none" <=> ppc[k] \in {"off", "children"}
        /\ lpc = "off" => ppc[k] = "off"
        /\ ppc[k] \in {"clear", "setMap"} => k \in Watched
        /\ ppc[k] = "mark" => k \in FromMap /\ active \cap Of(k) = {}
        /\ pwatch[k] = "armed" => listed[k] = Present \cap Of(k)
        /\ k \in Watched /\ ppc[k] \in {"mark", "notify", "await"} => listed[k] \subseteq Known
        /\ k \in FromMap /\ ppc[k] \in {"notify", "await"} => active \cap Of(k) = listed[k]

\* A watch that is set belongs to a watcher that awaits its event.
WatcherInv ==
    \A n \in Nodes :
        /\ rpc[n] = "await" <=> rwatch[n] # "none"
        /\ n \in Known => n[1] \in Watched /\ lpc # "off"

\* What the loop has read of the view it is putting together.
ReadInv ==
    LoopReading =>
        \A n \in Of(current) :
            /\ result[n] # Absent => n \in visited \ reading
            /\ current \in Kinds \ (FromMap \cup {"controllerMessage"}) /\ n \in visited \ reading
               => result[n] # Absent

\* A parent has announced all that has happened to its names, and the loop has
\* taken the announcement up.
Unqueued(k) == \A i \in DOMAIN queue : queue[i] # k
Announced(k) == ParentQuiet(k) /\ Unqueued(k)
Away(k) == ~LoopReading \/ current # k

\* From then on the loop has the names there are, or reads for them.
Gathered(k) ==
    IF k \in FromMap
    THEN /\ Known \cap Of(k) \subseteq keys
         /\ reading \subseteq active
         /\ \A n \in visited \ reading : n \in active <=> result[n] # Absent
    ELSE lpc # "list" => keys = Present \cap Of(k)
QuietInv ==
    \A k \in Kinds \ {"controllerMessage"} :
        Announced(k) =>
            IF Away(k) THEN \A n \in Of(k) : result[n] # Absent <=> n \in Present
                       ELSE Gathered(k)

\* ... and a record that no watcher has something to tell of is read as it is.
Told(n) ==
    \/ n[1] = "liveInstance"
    \/ n[1] \in Watched /\ n \in Known \ missed /\ rwatch[n] # "fired"
FreshInv ==
    \A n \in Nodes :
        Announced(n[1]) /\ Told(n) /\ result[n] # Absent => result[n] = view[n]

ViewInv ==
    /\ ViewTypeOK
    /\ LoopInv /\ ParentInv /\ WatcherInv /\ ReadInv /\ QuietInv /\ FreshInv

-----------------------------------------------------------------------------
\* A notification that is appended is one of its kind ...
LEMMA Appended ==
  ASSUME queue \in Seq(Kinds), NEW k \in Kinds, queue' = Append(queue, k), NEW j
  PROVE  Unqueued(j)' <=> j # k /\ Unqueued(j)
<1>1. /\ DOMAIN queue = 1 .. Len(queue) /\ DOMAIN queue' = 1 .. (Len(queue) + 1) /\ Len(queue) \in Nat
      /\ \A i \in 1 .. Len(queue) : queue'[i] = queue[i]
      /\ queue'[Len(queue) + 1] = k
  OBVIOUS
<1> QED BY <1>1 DEF Unqueued

\* ... and one that is taken is the first.
LEMMA Taken ==
  ASSUME queue \in Seq(Kinds), queue # <<>>, queue' = Tail(queue), NEW j
  PROVE  /\ Head(queue) \in Kinds
         /\ Unqueued(j)' /\ j # Head(queue) => Unqueued(j)
<1>1. /\ DOMAIN queue = 1 .. Len(queue) /\ DOMAIN queue' = 1 .. (Len(queue) - 1) /\ Len(queue) \in Nat
      /\ \A i \in 1 .. (Len(queue) - 1) : queue'[i] = queue[i + 1]
      /\ Head(queue) = queue[1] /\ Len(queue) > 0
  OBVIOUS
<1>2. ASSUME Unqueued(j)', j # Head(queue), NEW i \in DOMAIN queue PROVE queue[i] # j
  <2>1. CASE i = 1
    BY <1>1, <1>2, <2>1
  <2>2. CASE i # 1
    <3>1. i - 1 \in 1 .. (Len(queue) - 1) /\ queue'[i - 1] = queue[i]
      BY <1>1, <2>2
    <3> QED BY <1>1, <1>2, <3>1 DEF Unqueued
  <2> QED BY <2>1, <2>2
<1> QED BY <1>1, <1>2 DEF Unqueued

USE SpectatorAssumption
    DEF SpectatorAssumption, zkVars, parentVars, watcherVars, loopVars, Kinds, Watched,
        FromMap, Absent, Stamps, ParentPcs, Of, Present, Known, Change, Fired,
        ChildrenChange, ParentGoto, AfterChildren, MapWritten, Notify, ParentQuiet,
        Announced, Away, Gathered, Told, LoopReading, ViewInv, ViewTypeOK

\* A record is written: its watcher's watch fires, or the parent's when it is new.
LEMMA InvWrite ==
  ASSUME ViewInv, NEW n \in Nodes, Write(n)
  PROVE  ViewInv'
<1>0. /\ pwatch' \in {pwatch, [pwatch EXCEPT ![n[1]] = Fired(@)]}
      /\ n \notin Present => pwatch' = [pwatch EXCEPT ![n[1]] = Fired(@)]
      /\ n[1] \in Kinds
  BY DEF Write
<1>1. ViewTypeOK'
  <2>1. ZkTypes' /\ WatcherTypes' /\ LoopTypes' /\ ReadTypes'
    BY DEF Write, ZkTypes, WatcherTypes, LoopTypes, ReadTypes
  <2>2. ParentTypes'
    BY <1>0 DEF Write, ParentTypes
  <2> QED BY <2>1, <2>2
<1>2. LoopInv' /\ WatcherInv' /\ ReadInv'
  BY DEF Write, LoopInv, ParentInv, WatcherInv, ReadInv,
         ZkTypes, ParentTypes, WatcherTypes, LoopTypes, ReadTypes
<1>3. ParentInv'
  <2>1. \A k \in Kinds : pwatch'[k] = "none" <=> pwatch[k] = "none"
    BY <1>0 DEF ParentTypes
  <2>2. \A k \in Kinds :
            pwatch'[k] = "armed" =>
                pwatch[k] = "armed" /\ Present' \cap Of(k) = Present \cap Of(k)
    BY <1>0 DEF Write, ParentTypes, ZkTypes
  <2> QED BY <2>1, <2>2 DEF Write, ParentInv
<1>4. QuietInv'
  BY DEF Write, QuietInv, ReadInv, LoopInv, ParentInv, Unqueued,
         ZkTypes, ParentTypes, WatcherTypes, LoopTypes, ReadTypes
<1>5. FreshInv'
  BY DEF Write, FreshInv, QuietInv, ReadInv, LoopInv, ParentInv, WatcherInv,
         Unqueued,
         ZkTypes, ParentTypes, WatcherTypes, LoopTypes, ReadTypes
<1> QED BY <1>1, <1>2, <1>3, <1>4, <1>5

\* A record is deleted.
LEMMA InvDelete ==
  ASSUME ViewInv, NEW n \in Nodes, Delete(n)
  PROVE  ViewInv'
<1>1. ViewTypeOK'
  <2>1. ZkTypes' /\ WatcherTypes' /\ LoopTypes' /\ ReadTypes'
    BY DEF Delete, ZkTypes, WatcherTypes, LoopTypes, ReadTypes
  <2>2. ParentTypes'
    BY DEF Delete, ParentTypes
  <2> QED BY <2>1, <2>2
<1>2. LoopInv' /\ WatcherInv' /\ ReadInv'
  BY DEF Delete, LoopInv, ParentInv, WatcherInv, ReadInv,
         ZkTypes, ParentTypes, WatcherTypes, LoopTypes, ReadTypes
<1>3. ParentInv'
  <2>1. \A k \in Kinds : pwatch'[k] = "none" <=> pwatch[k] = "none"
    BY DEF Delete, ParentTypes
  <2>2. \A k \in Kinds :
            pwatch'[k] = "armed" =>
                pwatch[k] = "armed" /\ Present' \cap Of(k) = Present \cap Of(k)
    BY DEF Delete, ParentTypes, ZkTypes
  <2> QED BY <2>1, <2>2 DEF Delete, ParentInv
<1>4. QuietInv'
  BY DEF Delete, QuietInv, ReadInv, LoopInv, ParentInv, Unqueued,
         ZkTypes, ParentTypes, WatcherTypes, LoopTypes, ReadTypes
<1>5. FreshInv'
  BY DEF Delete, FreshInv, QuietInv, ReadInv, LoopInv, ParentInv, WatcherInv,
         Unqueued,
         ZkTypes, ParentTypes, WatcherTypes, LoopTypes, ReadTypes
<1> QED BY <1>1, <1>2, <1>3, <1>4, <1>5

\* The session expires: no watch is armed any more.
LEMMA InvExpire ==
  ASSUME ViewInv, Expire
  PROVE  ViewInv'
<1>1. ZkTypes' /\ WatcherTypes'
  BY DEF Expire, WatcherInv, ZkTypes, ParentTypes, WatcherTypes, LoopTypes,
         ReadTypes
<1>2. ParentTypes'
  BY DEF Expire, WatcherInv, ZkTypes, ParentTypes, WatcherTypes, LoopTypes,
         ReadTypes
<1>3. LoopTypes' /\ ReadTypes'
  BY DEF Expire, WatcherInv, ZkTypes, ParentTypes, WatcherTypes, LoopTypes,
         ReadTypes
<1>4. LoopInv' /\ ParentInv' /\ WatcherInv' /\ ReadInv'
  BY DEF Expire, LoopInv, ParentInv, WatcherInv, ReadInv,
         ZkTypes, ParentTypes, WatcherTypes, LoopTypes, ReadTypes
<1>5. QuietInv' /\ FreshInv'
  BY DEF Expire, FreshInv, QuietInv, ReadInv, LoopInv, ParentInv, WatcherInv,
         Unqueued,
         ZkTypes, ParentTypes, WatcherTypes, LoopTypes, ReadTypes
<1> QED BY <1>1, <1>2, <1>3, <1>4, <1>5

\* A parent reads its names: it is not quiet until it has announced them.
LEMMA InvChildrenW ==
  ASSUME ViewInv, NEW k \in Kinds, ChildrenW(k)
  PROVE  ViewInv'
<1>1. ZkTypes' /\ ParentTypes' /\ WatcherTypes'
  BY DEF ChildrenW, LoopInv, ParentInv, WatcherInv,
         ZkTypes, ParentTypes, WatcherTypes, LoopTypes, ReadTypes
<1>2. LoopTypes' /\ ReadTypes'
  BY DEF ChildrenW, LoopInv, ParentInv, WatcherInv,
         ZkTypes, ParentTypes, WatcherTypes, LoopTypes, ReadTypes
<1>3. LoopInv' /\ ParentInv' /\ WatcherInv' /\ ReadInv'
  BY DEF ChildrenW, LoopInv, ParentInv, WatcherInv, ReadInv,
         ZkTypes, ParentTypes, WatcherTypes, LoopTypes, ReadTypes
<1>4. QuietInv'
  BY DEF ChildrenW, QuietInv, ReadInv, LoopInv, ParentInv, Unqueued,
         ZkTypes, ParentTypes, WatcherTypes, LoopTypes, ReadTypes
<1>5. FreshInv'
  BY DEF ChildrenW, FreshInv, QuietInv, ReadInv, LoopInv, ParentInv, WatcherInv,
         Unqueued,
         ZkTypes, ParentTypes, WatcherTypes, LoopTypes, ReadTypes
<1> QED BY <1>1, <1>2, <1>3, <1>4, <1>5

\* A parent refreshes its map, in two steps.
LEMMA InvClearMap ==
  ASSUME ViewInv, NEW k \in Kinds, ClearMap(k)
  PROVE  ViewInv'
<1>0. /\ k \in FromMap /\ ~Announced(k)'
      /\ \A j \in Kinds \ {k} : Announced(j)' => Announced(j)
      /\ \A n \in Nodes :
            n[1] # k => (n \in Known' <=> n \in Known) /\ (n \in active' <=> n \in active)
  BY DEF ClearMap, ParentTypes, Unqueued
<1>1. ZkTypes' /\ ParentTypes' /\ WatcherTypes'
  BY DEF ClearMap, LoopInv, ParentInv, WatcherInv,
         ZkTypes, ParentTypes, WatcherTypes, LoopTypes, ReadTypes
<1>2. LoopTypes' /\ ReadTypes'
  BY DEF ClearMap, LoopInv, ParentInv, WatcherInv,
         ZkTypes, ParentTypes, WatcherTypes, LoopTypes, ReadTypes
<1>3. LoopInv' /\ ParentInv' /\ WatcherInv' /\ ReadInv'
  BY DEF ClearMap, LoopInv, ParentInv, WatcherInv, ReadInv,
         ZkTypes, ParentTypes, WatcherTypes, LoopTypes, ReadTypes
<1>4. QuietInv'
  <2> SUFFICES ASSUME NEW j \in Kinds \ {"controllerMessage", k}, Announced(j)'
               PROVE  IF Away(j)' THEN \A n \in Of(j) : result'[n] # Absent <=> n \in Present'
                                  ELSE Gathered(j)'
    BY <1>0 DEF QuietInv
  <2>1. CASE Away(j)
    BY <1>0, <2>1 DEF ClearMap, QuietInv
  <2>2. CASE ~Away(j)
    <3>1. /\ visited \subseteq Of(j) /\ reading \subseteq visited /\ current = j
          /\ Gathered(j)
      BY <1>0, <2>2 DEF ReadTypes, LoopInv, QuietInv
    <3> QED BY <1>0, <2>2, <3>1 DEF ClearMap, QuietInv
  <2> QED BY <2>1, <2>2
<1>5. FreshInv'
  BY DEF ClearMap, FreshInv, QuietInv, ReadInv, LoopInv, ParentInv, WatcherInv,
         Unqueued,
         ZkTypes, ParentTypes, WatcherTypes, LoopTypes, ReadTypes
<1> QED BY <1>1, <1>2, <1>3, <1>4, <1>5

\* ... of which this is the second.
LEMMA InvMarkListed ==
  ASSUME ViewInv, NEW k \in Kinds, MarkListed(k)
  PROVE  ViewInv'
<1>0. /\ k \in FromMap /\ ~Announced(k)'
      /\ \A j \in Kinds \ {k} : Announced(j)' => Announced(j)
      /\ listed[k] \subseteq Of(k) /\ listed[k] \subseteq Known
      /\ \A n \in Nodes : n[1] # k => (n \in active' <=> n \in active)
  BY DEF MarkListed, ParentTypes, ParentInv, Unqueued
<1>1. ZkTypes' /\ ParentTypes' /\ WatcherTypes'
  BY DEF MarkListed, LoopInv, ParentInv, WatcherInv,
         ZkTypes, ParentTypes, WatcherTypes, LoopTypes, ReadTypes
<1>2. LoopTypes' /\ ReadTypes'
  BY DEF MarkListed, LoopInv, ParentInv, WatcherInv,
         ZkTypes, ParentTypes, WatcherTypes, LoopTypes, ReadTypes
<1>3. LoopInv' /\ WatcherInv' /\ ReadInv'
  BY DEF MarkListed, LoopInv, ParentInv, WatcherInv, ReadInv,
         ZkTypes, ParentTypes, WatcherTypes, LoopTypes, ReadTypes
<1>4. ParentInv'
  <2>1. /\ \A j \in Kinds : ppc'[j] = IF j = k THEN "notify" ELSE ppc[j]
        /\ \A j \in Kinds \ {k} : active' \cap Of(j) = active \cap Of(j)
    BY <1>0 DEF MarkListed, ParentTypes
  <2>2. active' \cap Of(k) = listed[k]
    <3>1. active \cap Of(k) = {}
      BY DEF MarkListed, ParentInv
    <3> QED BY <1>0, <3>1 DEF MarkListed
  <2> QED BY <1>0, <2>1, <2>2 DEF MarkListed, ParentInv
<1>5. QuietInv'
  <2> SUFFICES ASSUME NEW j \in Kinds \ {"controllerMessage", k}, Announced(j)'
               PROVE  IF Away(j)' THEN \A n \in Of(j) : result'[n] # Absent <=> n \in Present'
                                  ELSE Gathered(j)'
    BY <1>0 DEF QuietInv
  <2>1. CASE Away(j)
    BY <1>0, <2>1 DEF MarkListed, QuietInv
  <2>2. CASE ~Away(j)
    <3>1. /\ visited \subseteq Of(j) /\ reading \subseteq visited /\ current = j
          /\ Gathered(j)
      BY <1>0, <2>2 DEF ReadTypes, LoopInv, QuietInv
    <3> QED BY <1>0, <2>2, <3>1 DEF MarkListed, QuietInv
  <2> QED BY <2>1, <2>2
<1>6. FreshInv'
  BY DEF MarkListed, FreshInv, QuietInv, ReadInv, LoopInv, ParentInv, WatcherInv,
         Unqueued,
         ZkTypes, ParentTypes, WatcherTypes, LoopTypes, ReadTypes
<1> QED BY <1>1, <1>2, <1>3, <1>4, <1>5, <1>6

\* What a parent announces is in the channel.
LEMMA InvParentNotify ==
  ASSUME ViewInv, NEW k \in Kinds, ParentNotify(k)
  PROVE  ViewInv'
<1>0. \A j \in Kinds : Announced(j)' => j # k /\ Announced(j)
  BY Appended DEF ParentNotify, ParentTypes, LoopTypes
<1>1. ZkTypes' /\ ParentTypes' /\ WatcherTypes'
  BY DEF ParentNotify, LoopInv, ParentInv, WatcherInv,
         ZkTypes, ParentTypes, WatcherTypes, LoopTypes, ReadTypes
<1>2. LoopTypes' /\ ReadTypes'
  BY DEF ParentNotify, LoopInv, ParentInv, WatcherInv,
         ZkTypes, ParentTypes, WatcherTypes, LoopTypes, ReadTypes
<1>3. LoopInv' /\ ParentInv' /\ WatcherInv' /\ ReadInv'
  BY DEF ParentNotify, LoopInv, ParentInv, WatcherInv, ReadInv,
         ZkTypes, ParentTypes, WatcherTypes, LoopTypes, ReadTypes
<1>4. QuietInv'
  BY <1>0 DEF ParentNotify, QuietInv
<1>5. FreshInv'
  BY <1>0 DEF ParentNotify, FreshInv
<1> QED BY <1>1, <1>2, <1>3, <1>4, <1>5

\* A parent's watch has failed.
LEMMA InvWatchFailed ==
  ASSUME ViewInv, NEW k \in Kinds, WatchFailed(k)
  PROVE  ViewInv'
<1>1. ZkTypes' /\ ParentTypes' /\ WatcherTypes'
  BY DEF WatchFailed, LoopInv, ParentInv, WatcherInv,
         ZkTypes, ParentTypes, WatcherTypes, LoopTypes, ReadTypes
<1>2. LoopTypes' /\ ReadTypes'
  BY DEF WatchFailed, LoopInv, ParentInv, WatcherInv,
         ZkTypes, ParentTypes, WatcherTypes, LoopTypes, ReadTypes
<1>3. LoopInv' /\ ParentInv' /\ WatcherInv' /\ ReadInv'
  BY DEF WatchFailed, LoopInv, ParentInv, WatcherInv, ReadInv,
         ZkTypes, ParentTypes, WatcherTypes, LoopTypes, ReadTypes
<1>4. QuietInv' /\ FreshInv'
  BY DEF WatchFailed, FreshInv, QuietInv, ReadInv, LoopInv, ParentInv, WatcherInv,
         Unqueued,
         ZkTypes, ParentTypes, WatcherTypes, LoopTypes, ReadTypes
<1> QED BY <1>1, <1>2, <1>3, <1>4

\* The config watchers.
LEMMA InvWatchConfig ==
  ASSUME ViewInv, NEW n \in Nodes, WatchConfig(n)
  PROVE  ViewInv'
<1>1. ViewTypeOK'
  BY DEF WatchConfig, LoopInv, ParentInv, WatcherInv,
         ZkTypes, ParentTypes, WatcherTypes, LoopTypes, ReadTypes
<1>2. LoopInv' /\ ParentInv' /\ WatcherInv' /\ ReadInv'
  BY DEF WatchConfig, LoopInv, ParentInv, WatcherInv, ReadInv,
         ZkTypes, ParentTypes, WatcherTypes, LoopTypes, ReadTypes
<1>3. QuietInv'
  BY DEF WatchConfig, QuietInv, ReadInv, LoopInv, ParentInv, Unqueued,
         ZkTypes, ParentTypes, WatcherTypes, LoopTypes, ReadTypes
<1>4. FreshInv'
  BY DEF WatchConfig, FreshInv, QuietInv, ReadInv, LoopInv, ParentInv, WatcherInv,
         Unqueued,
         ZkTypes, ParentTypes, WatcherTypes, LoopTypes, ReadTypes
<1> QED BY <1>1, <1>2, <1>3, <1>4

\* The map of the configs is nobody's to read.
LEMMA InvSetConfigMap ==
  ASSUME ViewInv, SetConfigMap
  PROVE  ViewInv'
<1>1. ViewTypeOK'
  BY DEF SetConfigMap, LoopInv, ParentInv, WatcherInv,
         ZkTypes, ParentTypes, WatcherTypes, LoopTypes, ReadTypes
<1>2. LoopInv' /\ ParentInv' /\ WatcherInv' /\ ReadInv'
  BY DEF SetConfigMap, LoopInv, ParentInv, WatcherInv, ReadInv,
         ZkTypes, ParentTypes, WatcherTypes, LoopTypes, ReadTypes
<1>3. QuietInv' /\ FreshInv'
  BY DEF SetConfigMap, FreshInv, QuietInv, ReadInv, LoopInv, ParentInv, WatcherInv,
         Unqueued,
         ZkTypes, ParentTypes, WatcherTypes, LoopTypes, ReadTypes
<1> QED BY <1>1, <1>2, <1>3

\* The configs are announced once all of them have a watcher.
LEMMA InvRefreshConfigMap ==
  ASSUME ViewInv, RefreshConfigMap
  PROVE  ViewInv'
<1>1. ZkTypes' /\ ParentTypes' /\ WatcherTypes'
  BY DEF RefreshConfigMap, LoopInv, ParentInv, WatcherInv,
         ZkTypes, ParentTypes, WatcherTypes, LoopTypes, ReadTypes
<1>2. LoopTypes' /\ ReadTypes'
  BY DEF RefreshConfigMap, LoopInv, ParentInv, WatcherInv,
         ZkTypes, ParentTypes, WatcherTypes, LoopTypes, ReadTypes
<1>3. LoopInv' /\ ParentInv' /\ WatcherInv' /\ ReadInv'
  BY DEF RefreshConfigMap, LoopInv, ParentInv, WatcherInv, ReadInv,
         ZkTypes, ParentTypes, WatcherTypes, LoopTypes, ReadTypes
<1>4. QuietInv'
  <2>1. \A j \in Kinds \ {"controllerMessage"} : Announced(j)' => Announced(j)
    BY DEF RefreshConfigMap, ParentTypes, Unqueued
  <2> QED BY <2>1 DEF RefreshConfigMap, QuietInv
<1>5. FreshInv'
  BY DEF RefreshConfigMap, FreshInv, QuietInv, ReadInv, LoopInv, ParentInv, WatcherInv,
         Unqueued,
         ZkTypes, ParentTypes, WatcherTypes, LoopTypes, ReadTypes
<1> QED BY <1>1, <1>2, <1>3, <1>4, <1>5

\* The parent of the messages ends; its view is never shown.
LEMMA InvControllerMessagesEnd ==
  ASSUME ViewInv, ControllerMessagesEnd
  PROVE  ViewInv'
<1>1. ZkTypes' /\ ParentTypes' /\ WatcherTypes'
  BY DEF ControllerMessagesEnd, LoopInv, ParentInv, WatcherInv,
         ZkTypes, ParentTypes, WatcherTypes, LoopTypes, ReadTypes
<1>2. LoopTypes' /\ ReadTypes'
  BY DEF ControllerMessagesEnd, LoopInv, ParentInv, WatcherInv,
         ZkTypes, ParentTypes, WatcherTypes, LoopTypes, ReadTypes
<1>3. LoopInv' /\ ParentInv' /\ WatcherInv' /\ ReadInv'
  BY DEF ControllerMessagesEnd, LoopInv, ParentInv, WatcherInv, ReadInv,
         ZkTypes, ParentTypes, WatcherTypes, LoopTypes, ReadTypes
<1>4. QuietInv'
  <2>1. \A j \in Kinds \ {"controllerMessage"} : Announced(j)' => Announced(j)
    BY DEF ControllerMessagesEnd, ParentTypes, Unqueued
  <2> QED BY <2>1 DEF ControllerMessagesEnd, QuietInv
<1>5. FreshInv'
  BY DEF ControllerMessagesEnd, FreshInv, QuietInv, ReadInv, LoopInv, ParentInv, WatcherInv,
         Unqueued,
         ZkTypes, ParentTypes, WatcherTypes, LoopTypes, ReadTypes
<1> QED BY <1>1, <1>2, <1>3, <1>4, <1>5

\* A watcher arms its watch, and tells what it has seen.
LEMMA InvGetW ==
  ASSUME ViewInv, NEW n \in Nodes, GetW(n)
  PROVE  ViewInv'
<1>1. ZkTypes' /\ ParentTypes' /\ WatcherTypes'
  BY DEF GetW, LoopInv, ParentInv, WatcherInv,
         ZkTypes, ParentTypes, WatcherTypes, LoopTypes, ReadTypes
<1>2. LoopTypes' /\ ReadTypes'
  BY DEF GetW, LoopInv, ParentInv, WatcherInv,
         ZkTypes, ParentTypes, WatcherTypes, LoopTypes, ReadTypes
<1>3. LoopInv' /\ ParentInv' /\ WatcherInv' /\ ReadInv'
  BY DEF GetW, LoopInv, ParentInv, WatcherInv, ReadInv,
         ZkTypes, ParentTypes, WatcherTypes, LoopTypes, ReadTypes
<1>4. QuietInv'
  <2>1. \A j \in Kinds : Announced(j)' <=> Announced(j)
    BY DEF GetW, Unqueued
  <2>2. Known' = Known
    BY DEF GetW, WatcherTypes
  <2> QED BY <2>1, <2>2 DEF GetW, QuietInv
<1>5. FreshInv'
  BY DEF GetW, FreshInv, QuietInv, ReadInv, LoopInv, ParentInv, WatcherInv,
         Unqueued,
         ZkTypes, ParentTypes, WatcherTypes, LoopTypes, ReadTypes
<1> QED BY <1>1, <1>2, <1>3, <1>4, <1>5

\* ... and the loop will read the record again.
LEMMA InvResourceChanged ==
  ASSUME ViewInv, NEW n \in Nodes, ResourceChanged(n)
  PROVE  ViewInv'
<1>0. \A j \in Kinds : Announced(j)' => j # n[1] /\ Announced(j)
  BY Appended DEF ResourceChanged, ParentTypes, LoopTypes
<1>1. ZkTypes' /\ WatcherTypes'
  BY DEF ResourceChanged, WatcherInv, ZkTypes, ParentTypes, WatcherTypes, LoopTypes,
         ReadTypes
<1>2. ParentTypes'
  BY DEF ResourceChanged, WatcherInv, ZkTypes, ParentTypes, WatcherTypes, LoopTypes,
         ReadTypes
<1>3. LoopTypes' /\ ReadTypes'
  BY DEF ResourceChanged, WatcherInv, ZkTypes, ParentTypes, WatcherTypes, LoopTypes,
         ReadTypes
<1>4. LoopInv' /\ ParentInv' /\ WatcherInv' /\ ReadInv'
  BY DEF ResourceChanged, LoopInv, ParentInv, WatcherInv, ReadInv,
         ZkTypes, ParentTypes, WatcherTypes, LoopTypes, ReadTypes
<1>5. QuietInv'
  BY <1>0 DEF ResourceChanged, QuietInv, WatcherTypes
<1>6. FreshInv'
  BY <1>0 DEF ResourceChanged, FreshInv, WatcherTypes
<1> QED BY <1>1, <1>2, <1>3, <1>4, <1>5, <1>6

\* The loop takes a notification up: nothing of its view has been read.
LEMMA InvTakeNotification ==
  ASSUME ViewInv, TakeNotification
  PROVE  ViewInv'
<1>0. /\ current' = Head(queue) /\ current' \in Kinds
      /\ \A j \in Kinds : Announced(j)' /\ j # current' => Announced(j)
      /\ visited' = {} /\ reading' = {}
      /\ \A n \in Nodes : result'[n] = IF n[1] = current' THEN Absent ELSE result[n]
  BY Taken DEF TakeNotification, ParentTypes, LoopTypes, LoopInv
<1>1. ZkTypes' /\ ParentTypes' /\ WatcherTypes'
  BY DEF TakeNotification, LoopInv, ParentInv, WatcherInv,
         ZkTypes, ParentTypes, WatcherTypes, LoopTypes, ReadTypes
<1>2. LoopTypes' /\ ReadTypes'
  BY DEF TakeNotification, LoopInv, ParentInv, WatcherInv,
         ZkTypes, ParentTypes, WatcherTypes, LoopTypes, ReadTypes
<1>3. LoopInv' /\ ParentInv' /\ WatcherInv' /\ ReadInv'
  BY DEF TakeNotification, LoopInv, ParentInv, WatcherInv, ReadInv,
         ZkTypes, ParentTypes, WatcherTypes, LoopTypes, ReadTypes
<1>4. QuietInv'
  <2> SUFFICES ASSUME NEW j \in Kinds \ {"controllerMessage"}, Announced(j)'
               PROVE  IF Away(j)' THEN \A n \in Of(j) : result'[n] # Absent <=> n \in Present'
                                  ELSE Gathered(j)'
    BY DEF QuietInv
  <2>1. CASE j # current'
    BY <1>0, <2>1 DEF TakeNotification, QuietInv
  <2>2. CASE j = current'
    BY <1>0, <2>2 DEF TakeNotification
  <2> QED BY <2>1, <2>2
<1>5. FreshInv'
  BY <1>0 DEF TakeNotification, FreshInv
<1> QED BY <1>1, <1>2, <1>3, <1>4, <1>5

\* It lists the names.
LEMMA InvListNames ==
  ASSUME ViewInv, ListNames
  PROVE  ViewInv'
<1>1. ViewTypeOK'
  BY DEF ListNames, LoopInv, ParentInv, WatcherInv,
         ZkTypes, ParentTypes, WatcherTypes, LoopTypes, ReadTypes
<1>2. LoopInv' /\ ParentInv' /\ WatcherInv' /\ ReadInv'
  BY DEF ListNames, LoopInv, ParentInv, WatcherInv, ReadInv,
         ZkTypes, ParentTypes, WatcherTypes, LoopTypes, ReadTypes
<1>3. QuietInv'
  <2>1. \A j \in Kinds : Announced(j)' <=> Announced(j)
    BY DEF ListNames, Unqueued
  <2> SUFFICES ASSUME NEW j \in Kinds \ {"controllerMessage"}, Announced(j)'
               PROVE  IF Away(j)' THEN \A n \in Of(j) : result'[n] # Absent <=> n \in Present'
                                  ELSE Gathered(j)'
    BY DEF QuietInv
  <2>2. CASE j # current
    BY <2>1, <2>2 DEF ListNames, QuietInv
  <2>3. CASE j = current
    BY <2>1, <2>3 DEF ListNames, QuietInv, LoopInv
  <2> QED BY <2>2, <2>3
<1>4. FreshInv'
  BY DEF ListNames, FreshInv, QuietInv, ReadInv, LoopInv, ParentInv, WatcherInv,
         Unqueued,
         ZkTypes, ParentTypes, WatcherTypes, LoopTypes, ReadTypes
<1> QED BY <1>1, <1>2, <1>3, <1>4

\* It looks at the next name, and reads its record.
LEMMA InvVisitKey ==
  ASSUME ViewInv, NEW n \in Nodes, VisitKey(n)
  PROVE  ViewInv'
<1>1. ZkTypes' /\ ParentTypes' /\ WatcherTypes'
  BY DEF VisitKey, LoopInv, ParentInv, WatcherInv,
         ZkTypes, ParentTypes, WatcherTypes, LoopTypes, ReadTypes
<1>2. LoopTypes' /\ ReadTypes'
  BY DEF VisitKey, LoopInv, ParentInv, WatcherInv,
         ZkTypes, ParentTypes, WatcherTypes, LoopTypes, ReadTypes
<1>3. LoopInv' /\ ParentInv' /\ WatcherInv' /\ ReadInv'
  BY DEF VisitKey, LoopInv, ParentInv, WatcherInv, ReadInv,
         ZkTypes, ParentTypes, WatcherTypes, LoopTypes, ReadTypes
<1>4. QuietInv'
  BY DEF VisitKey, QuietInv, ReadInv, LoopInv, ParentInv, Unqueued,
         ZkTypes, ParentTypes, WatcherTypes, LoopTypes, ReadTypes
<1>5. FreshInv'
  BY DEF VisitKey, FreshInv, QuietInv, ReadInv, LoopInv, ParentInv, WatcherInv,
         Unqueued,
         ZkTypes, ParentTypes, WatcherTypes, LoopTypes, ReadTypes
<1> QED BY <1>1, <1>2, <1>3, <1>4, <1>5

\* What is read is what there is.
LEMMA InvReadRecord ==
  ASSUME ViewInv, NEW n \in Nodes, ReadRecord(n)
  PROVE  ViewInv'
<1>1. ZkTypes' /\ ParentTypes' /\ WatcherTypes'
  BY DEF ReadRecord, LoopInv, ParentInv, WatcherInv,
         ZkTypes, ParentTypes, WatcherTypes, LoopTypes, ReadTypes
<1>2. LoopTypes' /\ ReadTypes'
  BY DEF ReadRecord, LoopInv, ParentInv, WatcherInv,
         ZkTypes, ParentTypes, WatcherTypes, LoopTypes, ReadTypes
<1>3. LoopInv' /\ WatcherInv'
  BY DEF ReadRecord, LoopInv, ParentInv, WatcherInv, ReadInv,
         ZkTypes, ParentTypes, WatcherTypes, LoopTypes, ReadTypes
<1>4. ParentInv'
  BY DEF ReadRecord, ParentInv
<1>5. ReadInv'
  <2>1. /\ n \in visited /\ reading = {n} /\ reading' = {} /\ view[n] # Absent
        /\ n[1] = current /\ LoopReading
    BY DEF ReadRecord, ReadTypes, LoopInv
  <2>2. \A m \in Nodes :
            result'[m] = IF m = n /\ current # "controllerMessage" THEN view[n] ELSE result[m]
    BY DEF ReadRecord, ReadTypes
  <2>3. result[n] = Absent
    BY <2>1 DEF ReadInv
  <2> QED BY <2>1, <2>2, <2>3 DEF ReadRecord, ReadInv
<1>6. QuietInv'
  BY DEF ReadRecord, QuietInv, ReadInv, LoopInv, ParentInv, Unqueued,
         ZkTypes, ParentTypes, WatcherTypes, LoopTypes, ReadTypes
<1>7. FreshInv'
  BY DEF ReadRecord, FreshInv, QuietInv, ReadInv, LoopInv, ParentInv, WatcherInv,
         Unqueued,
         ZkTypes, ParentTypes, WatcherTypes, LoopTypes, ReadTypes
<1> QED BY <1>1, <1>2, <1>3, <1>4, <1>5, <1>6, <1>7

\* All names have been visited: the view is complete.
LEMMA InvCallListener ==
  ASSUME ViewInv, CallListener
  PROVE  ViewInv'
<1>1. ViewTypeOK'
  BY DEF CallListener, LoopInv, ParentInv, WatcherInv,
         ZkTypes, ParentTypes, WatcherTypes, LoopTypes, ReadTypes
<1>2. LoopInv' /\ ParentInv' /\ WatcherInv' /\ ReadInv'
  BY DEF CallListener, LoopInv, ParentInv, WatcherInv, ReadInv,
         ZkTypes, ParentTypes, WatcherTypes, LoopTypes, ReadTypes
<1>3. QuietInv'
  <2> SUFFICES ASSUME NEW j \in Kinds \ {"controllerMessage"}, Announced(j)'
               PROVE  IF Away(j)' THEN \A n \in Of(j) : result'[n] # Absent <=> n \in Present'
                                  ELSE Gathered(j)'
    BY DEF QuietInv
  <2>1. CASE j # current
    BY <2>1 DEF CallListener, QuietInv, Unqueued
  <2>2. CASE j = current
    <3>1. /\ visited \subseteq Of(j) /\ reading = {} /\ keys \subseteq visited
          /\ Gathered(j) /\ Announced(j)
      BY <2>2 DEF CallListener, LoopInv, QuietInv, Unqueued, ReadTypes
    <3>2. \A n \in Of(j) : result[n] # Absent <=> n \in Present
      <4>1. CASE j \in FromMap
        BY <2>2, <3>1, <4>1 DEF CallListener, ParentInv, ReadInv
      <4>2. CASE j \notin FromMap
        BY <2>2, <3>1, <4>2 DEF CallListener, LoopInv, ReadInv
      <4> QED BY <4>1, <4>2
    <3> QED BY <2>2, <3>2 DEF CallListener
  <2> QED BY <2>1, <2>2
<1>4. FreshInv'
  BY DEF CallListener, FreshInv, QuietInv, ReadInv, LoopInv, ParentInv, WatcherInv,
         Unqueued,
         ZkTypes, ParentTypes, WatcherTypes, LoopTypes, ReadTypes
<1> QED BY <1>1, <1>2, <1>3, <1>4

\* Connect starts the parents and the loop.
LEMMA InvStart ==
  ASSUME ViewInv, NEW K \in SUBSET Kinds, Start(K)
  PROVE  ViewInv'
<1>1. ViewTypeOK'
  BY DEF Start, LoopInv, ParentInv, WatcherInv,
         ZkTypes, ParentTypes, WatcherTypes, LoopTypes, ReadTypes
<1>2. LoopInv' /\ ParentInv' /\ WatcherInv' /\ ReadInv'
  BY DEF Start, LoopInv, ParentInv, WatcherInv, ReadInv,
         ZkTypes, ParentTypes, WatcherTypes, LoopTypes, ReadTypes
<1>3. QuietInv' /\ FreshInv'
  BY DEF Start, FreshInv, QuietInv, ReadInv, LoopInv, ParentInv, WatcherInv,
         Unqueued,
         ZkTypes, ParentTypes, WatcherTypes, LoopTypes, ReadTypes
<1> QED BY <1>1, <1>2, <1>3

\* At first nothing is listened to.
LEMMA InvViewInit == ASSUME ViewInit, MaxChanges >= 1 PROVE ViewInv
<1>1. ViewTypeOK
  <2>1. view \in [Nodes -> 0 .. MaxChanges]
    <3>1. 0 \in 0 .. MaxChanges /\ 1 \in 0 .. MaxChanges
      OBVIOUS
    <3> QED BY <3>1 DEF ViewInit
  <2>2. result \in [Nodes -> 0 .. MaxChanges]
    BY DEF ViewInit, EmptyView
  <2>3. ZkTypes /\ ParentTypes /\ WatcherTypes
    BY <2>1 DEF ViewInit, ZkTypes, ParentTypes, WatcherTypes
  <2>4. LoopTypes
    <3>1. queue \in Seq(Kinds) /\ Len(queue) = 0
      BY DEF ViewInit
    <3> QED BY <3>1 DEF ViewInit, LoopTypes
  <2>5. ReadTypes
    BY <2>2 DEF ViewInit, ReadTypes
  <2> QED BY <2>3, <2>4, <2>5
<1>2. LoopInv /\ ParentInv /\ WatcherInv /\ ReadInv /\ QuietInv /\ FreshInv
  BY DEF ViewInit, EmptyView, LoopInv, ParentInv, WatcherInv, ReadInv, QuietInv, FreshInv
<1> QED BY <1>1, <1>2

\* The mutex and a panic are nothing to the invariant, nor is a write elsewhere.
LEMMA InvViewFrame ==
  ASSUME ViewInv, UNCHANGED <<view, deletes, expires, missed, parentVars, watcherVars, active,
                              queue, loopVars>>,
         changes' \in 0 .. MaxChanges, crash' \in BOOLEAN
  PROVE  ViewInv'
<1>1. ViewTypeOK'
  BY DEF ZkTypes, ParentTypes, WatcherTypes, LoopTypes, ReadTypes
<1>2. LoopInv' /\ ParentInv' /\ WatcherInv' /\ ReadInv'
  BY DEF LoopInv, ParentInv, WatcherInv, ReadInv
<1>3. QuietInv' /\ FreshInv'
  BY DEF QuietInv, FreshInv, Unqueued
<1> QED BY <1>1, <1>2, <1>3

\* A loop that stops keeps the views it has shown.
LEMMA InvStops ==
  ASSUME ViewInv, lpc \in {"select", "stopping"}, lpc' \in {"stopping", "returned"},
         UNCHANGED <<zkVars, parentVars, watcherVars, active, queue, current, visited,
                     reading, keys, result, crash>>
  PROVE  ViewInv'
<1>1. ViewTypeOK'
  BY DEF ZkTypes, ParentTypes, WatcherTypes, LoopTypes, ReadTypes
<1>2. LoopInv' /\ ParentInv' /\ WatcherInv' /\ ReadInv'
  BY DEF LoopInv, ParentInv, WatcherInv, ReadInv
<1>3. QuietInv' /\ FreshInv'
  BY DEF QuietInv, FreshInv, Unqueued
<1> QED BY <1>1, <1>2, <1>3

=============================================================================
