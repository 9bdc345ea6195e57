--------------------------- MODULE MCStoreStream ---------------------------
(***************************************************************************)
(* Instance of StoreStream: the two parameters of an MLP, two buffers, and *)
(* downloads of a location of each sort.                                   *)
(***************************************************************************)
EXTENDS StoreStream

UpDown == <<"up", "down">>
SomeOfEach ==
  {Weight("up"), Grad("down"), <<"AdamM", "padding">>, Buffer("a")}
=============================================================================
