------------------------------- MODULE Catalog -------------------------------
(***************************************************************************)
(* The data CollectionViewController builds the albums from, as far as the *)
(* other modules depend on it.                                             *)
(***************************************************************************)
EXTENDS Naturals

\* collection1 ... collection28.
StickerIds == 1..28

\* models: the BBB album has all the stickers, the others have none yet.
Albums == {"BBB", "Tunel do amor", "No limite", "The voice", "The masked singer"}

figurinhas(album) == IF album = "BBB" THEN StickerIds ELSE {}

\* The ids in the keys "stickerResgatado<id>" that the reset button removes.
keysToDelete == 1..20

=============================================================================
