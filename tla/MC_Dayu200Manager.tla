------------------------- MODULE MC_Dayu200Manager -------------------------
(* Two dayu200 devices, one build server, one package of one image.  The  *)
(* configuration leaves both location IDs to the probe: location_id_list  *)
(* is ",", which strings.Split makes <<"", "">>, matching the two devices. *)
EXTENDS Dayu200Manager

CONSTANTS d1, d2, s1, p1

MCDeviceList == <<d1, d2>>
MCLocationIDList == <<"", "">>
MCLocOf == [d \in {d1, d2} |-> IF d = d1 THEN "1-1" ELSE "1-2"]
MCServers == {s1}
MCPkgs == {p1}
MCImages == {"MiniLoaderAll.bin"}
=============================================================================
