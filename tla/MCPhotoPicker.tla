---------------------------- MODULE MCPhotoPicker ----------------------------
(***************************************************************************)
(* Two albums, the second of which shares a photo with the first: an album *)
(* of everything, say, beside one of a folder.                             *)
(***************************************************************************)
EXTENDS PhotoPicker, TLC

CONSTANTS all, folder, p1, p2, p3

MCAlbums   == {all, folder}
MCPhotosOf == all :> {p1, p2, p3} @@ folder :> {p1}
=============================================================================
