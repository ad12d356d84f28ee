----------------------------- MODULE Thumbnails -----------------------------
(***************************************************************************)
(* printer-thumbnail.cache.ts: one image per printer, in the memory of the *)
(* server (thumbs) and in a file of its own (data). The image of a G-code  *)
(* file is named by that file; "empty" is no text at all.                  *)
(***************************************************************************)
EXTENDS FileCache

Image == Files \cup {"empty", None}

NoThumbnails == [p \in Printers |-> None]

\* ps: listCachedPrinters(), without the disabled ones.
LoadCache(data, ps) == [p \in Printers |-> IF p \in ps THEN data[p] ELSE None]

SetThumbnail(store, p, image) == [store EXCEPT ![p] = image]
Removed(store, p) == SetThumbnail(store, p, None)

\* What loadPrinterThumbnailLocal and loadPrinterThumbnailRemote may get from the
\* G-code: only the latter goes on with no text.
LocalImages(f) == {f}
RemoteImages(f) == {f, "empty"}

\* The text is written in one call; a file removed since it was opened stays so, and
\* one that another writer has filled keeps the text of either.
Filled(old, image) ==
  CASE old = None -> {None} [] old = "empty" -> {image} [] OTHER -> {old, image}

\* What a browser shows of an entry.
Shown(image) == IF image = "empty" THEN None ELSE image
=============================================================================
