------------------------------- MODULE Stores ------------------------------
(* What an analysis keeps: its artifacts in the memory of the process, and *)
(* its index of a file in a directory that processes share.  The two touch *)
(* nothing of each other.                                                  *)
EXTENDS ArtifactStore, IndexCache

storesVars == <<storeVars, cacheVars>>

StoresInit == StoreInit /\ CacheInit

StoresNext ==
  \/ StoreNext /\ UNCHANGED cacheVars
  \/ CacheNext /\ UNCHANGED storeVars

StoresSpec == StoresInit /\ [][StoresNext]_storesVars

(* The bytes of the artifact store are those of its entries and within its *)
(* budget; a file of the index cache that a process finds is whole, and    *)
(* stays so (artifact_store.cpp, index_cache.cpp).                         *)
StoresAgree == LedgerAgrees /\ CacheSafe
=============================================================================
