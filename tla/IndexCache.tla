----------------------------- MODULE IndexCache ----------------------------
(***************************************************************************)
(* IndexCache::store() and load() of one key by several processes that     *)
(* share the directory.  A file is an inode with the part of the bytes it  *)
(* has, in pieces; what deserialize() takes for an index is the whole of   *)
(* it (IndexCodec).  The temporary name is the same for all.  A process    *)
(* may stop for good at any step.  rename() replaces an existing file, as  *)
(* POSIX has it.                                                           *)
(***************************************************************************)
EXTENDS Integers, Sequences

CONSTANTS
  Processes,
  Pieces,       (* pieces of a whole file                                  *)
  MaxInodes,    (* bound of the files ever created                         *)
  MaxCalls      (* bound of the calls of one process                       *)

ASSUME CacheAssumption == Pieces \in Nat \ {0} /\ MaxInodes \in Nat

VARIABLES
  inodes,       (* the pieces each inode has                               *)
  path, tmp,    (* the inode of each name, 0 for none                      *)
  pc,           (* where each process is                                   *)
  hand,         (* the inode it has open                                   *)
  wrote,        (* the pieces it has written                               *)
  size,         (* file_size, as it was asked                              *)
  result,       (* of its last call                                        *)
  calls,
  stored,       (* some store() has succeeded                              *)
  shared        (* two calls have been under way at once                   *)

cacheVars ==
  <<inodes, path, tmp, pc, hand, wrote, size, result, calls, stored,
    shared>>

CacheInit ==
  /\ inodes = <<>> /\ path = 0 /\ tmp = 0
  /\ pc = [p \in Processes |-> "idle"]
  /\ hand = [p \in Processes |-> 0]
  /\ wrote = [p \in Processes |-> 0]
  /\ size = [p \in Processes |-> 0]
  /\ result = [p \in Processes |-> "none"]
  /\ calls = [p \in Processes |-> 0]
  /\ stored = FALSE /\ shared = FALSE

Goto(p, at) == pc' = [pc EXCEPT ![p] = at]

Return(p, with) == Goto(p, "idle") /\ result' = [result EXCEPT ![p] = with]

Files == <<inodes, path, tmp>>

Call(p, at) ==
  /\ pc[p] = "idle" /\ calls[p] < MaxCalls
  /\ Goto(p, at) /\ calls' = [calls EXCEPT ![p] = @ + 1]
  /\ result' = [result EXCEPT ![p] = "none"]
  /\ UNCHANGED <<Files, hand, wrote, size, stored>>

-----------------------------------------------------------------------------
(* store(): the temporary file is opened and emptied, whoever made it.     *)
OpenTmp(p) ==
  /\ pc[p] = "store"
  /\ \/ /\ tmp = 0 /\ Len(inodes) < MaxInodes
        /\ inodes' = Append(inodes, 0)
        /\ tmp' = Len(inodes) + 1
        /\ hand' = [hand EXCEPT ![p] = Len(inodes) + 1]
     \/ /\ tmp # 0
        /\ inodes' = [inodes EXCEPT ![tmp] = 0]
        /\ hand' = [hand EXCEPT ![p] = tmp]
        /\ UNCHANGED tmp
  /\ Goto(p, "write") /\ wrote' = [wrote EXCEPT ![p] = 0]
  /\ UNCHANGED <<path, size, result, calls, stored>>

OpenFails(p) ==
  /\ pc[p] = "store" /\ Return(p, "failed")
  /\ UNCHANGED <<Files, hand, wrote, size, calls, stored>>

(* A piece is written where the writer stands, whatever others wrote.      *)
Write(p) ==
  /\ pc[p] = "write" /\ wrote[p] < Pieces
  /\ wrote' = [wrote EXCEPT ![p] = @ + 1]
  /\ inodes' = [inodes EXCEPT ![hand[p]] =
                  IF @ < wrote[p] + 1 THEN wrote[p] + 1 ELSE @]
  /\ UNCHANGED <<path, tmp, pc, hand, size, result, calls, stored>>

(* A failed write removes the temporary name, whoever's file it is now.    *)
WriteFails(p) ==
  /\ pc[p] = "write"
  /\ tmp' = 0 /\ Return(p, "failed")
  /\ UNCHANGED <<inodes, path, hand, wrote, size, calls, stored>>

Renames(p, success, failure) ==
  \/ /\ tmp # 0
     /\ path' = tmp /\ tmp' = 0 /\ success
  \/ /\ tmp = 0
     /\ UNCHANGED <<path, tmp>> /\ failure

(* Wrong: the file gets its name before all of it is written.              *)
RenameEarly(p) ==
  /\ pc[p] = "write"
  /\ Renames(p, Return(p, "ok") /\ stored' = TRUE,
             Goto(p, "remove") /\ UNCHANGED <<result, stored>>)
  /\ UNCHANGED <<inodes, hand, wrote, size, calls>>

Rename(p) ==
  /\ pc[p] = "write" /\ wrote[p] = Pieces
  /\ Renames(p, Return(p, "ok") /\ stored' = TRUE,
             Goto(p, "remove") /\ UNCHANGED <<result, stored>>)
  /\ UNCHANGED <<inodes, hand, wrote, size, calls>>

(* The fallback: the published file is removed and the rename repeated.    *)
RemovePath(p) ==
  /\ pc[p] = "remove" /\ path' = 0 /\ Goto(p, "again")
  /\ UNCHANGED <<inodes, tmp, hand, wrote, size, result, calls, stored>>

RenameAgain(p) ==
  /\ pc[p] = "again"
  /\ Renames(p, Return(p, "ok") /\ stored' = TRUE,
             Return(p, "failed") /\ UNCHANGED stored)
  /\ UNCHANGED <<inodes, hand, wrote, size, calls>>

-----------------------------------------------------------------------------
(* load(): the file is looked for, measured, opened and read.              *)
Exists(p) ==
  /\ pc[p] = "load"
  /\ IF path = 0 THEN Return(p, "miss") ELSE Goto(p, "size") /\ UNCHANGED result
  /\ UNCHANGED <<Files, hand, wrote, size, calls, stored>>

FileSize(p) ==
  /\ pc[p] = "size"
  /\ IF path = 0 THEN Return(p, "io") /\ UNCHANGED size
     ELSE /\ size' = [size EXCEPT ![p] = inodes[path]]
          /\ IF inodes[path] = 0 THEN Return(p, "invalid")
             ELSE Goto(p, "open") /\ UNCHANGED result
  /\ UNCHANGED <<Files, hand, wrote, calls, stored>>

OpenPath(p) ==
  /\ pc[p] = "open"
  /\ IF path = 0 THEN Return(p, "io") /\ UNCHANGED hand
     ELSE Goto(p, "read") /\ hand' = [hand EXCEPT ![p] = path]
                          /\ UNCHANGED result
  /\ UNCHANGED <<Files, wrote, size, calls, stored>>

(* size pieces are asked for; fewer are a failed read.                     *)
Snapshot(p) == IF inodes[hand[p]] < size[p] THEN 0 ELSE size[p]

Read(p) ==
  /\ pc[p] = "read"
  /\ Return(p, IF Snapshot(p) = Pieces THEN "hit" ELSE "invalid")
  /\ UNCHANGED <<Files, hand, wrote, size, calls, stored>>

(* The process, or its machine, stops; what it had open is let go.         *)
Crash(p) ==
  /\ pc[p] \notin {"idle", "dead"} /\ Goto(p, "dead")
  /\ UNCHANGED <<Files, hand, wrote, size, result, calls, stored>>

Busy(p) == pc[p] \notin {"idle", "dead"}

CacheNext ==
  /\ \E p \in Processes :
       \/ Call(p, "store") \/ OpenTmp(p) \/ OpenFails(p) \/ Write(p)
       \/ WriteFails(p) \/ Rename(p) \/ RemovePath(p) \/ RenameAgain(p)
       \/ Call(p, "load") \/ Exists(p) \/ FileSize(p) \/ OpenPath(p)
       \/ Read(p) \/ Crash(p)
  /\ shared' = (shared \/ \E p, q \in Processes :
                              p # q /\ Busy(p)' /\ Busy(q)')

CacheSpec == CacheInit /\ [][CacheNext]_cacheVars

-----------------------------------------------------------------------------
(* Only calls under way at once, which share the temporary name, publish a *)
(* file that is not whole: no process that stops half-way does, nor does   *)
(* the one that finds what it left.                                        *)
PublishedOrShared == path # 0 /\ inodes[path] < Pieces => shared

(* While no two processes have been at work at once, what one has stored   *)
(* stays whole whatever stops the next, and every load of it is a hit.     *)
StoredStays ==
  ~shared /\ stored =>
    /\ path # 0 /\ inodes[path] = Pieces
    /\ \A p \in Processes : pc[p] # "remove"

(* A load that has found the file, while processes take turns, finds it    *)
(* whole at each of its later steps.                                       *)
LoadsHit ==
  \A p \in Processes :
    ~shared /\ pc[p] \in {"size", "open", "read"} =>
      path # 0 /\ inodes[path] = Pieces

CacheSafe == PublishedOrShared /\ StoredStays /\ LoadsHit
=============================================================================
