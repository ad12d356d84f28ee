----------------------------- MODULE FileCache -----------------------------
(***************************************************************************)
(* file.cache.ts: the list of files cached for each printer. A date is     *)
(* what getOutdatedFiles makes of it: older than the days of the settings  *)
(* or not. Sizes and folders are left out.                                 *)
(***************************************************************************)
EXTENDS Naturals, TLC

CONSTANTS Printers, Files, None

Listing == [Files -> {"old", "recent", None}]

Names(files) == {f \in Files : files[f] # None}

CachePrinterFiles(cache, p, files) == [cache EXCEPT ![p] = files]

PurgePrinterId(cache, p) == [cache EXCEPT ![p] = None]

PurgeFile(cache, p, f) ==
  IF cache[p] = None THEN cache ELSE [cache EXCEPT ![p] = [@ EXCEPT ![f] = None]]

GetOutdatedFiles(cache, p) ==
  IF cache[p] = None THEN {} ELSE {f \in Files : cache[p][f] = "old"}
=============================================================================
