---------------------------- MODULE MCGeoLookup ----------------------------
(* GeoLookup with two addresses whose lookup succeeds and one whose lookup *)
(* fails, with and without a database, a cache of one address, one place   *)
(* in geoReqChan, and packets from and to public addresses, between two of *)
(* them, and without any.                                                  *)
EXTENDS GeoLookup

MCFlows == {<<"a", Private>>, <<Private, "b">>, <<"a", "b">>, <<"x", "a">>, <<Private, Private>>}
=============================================================================
