---------------------------- MODULE MCDeviceList ----------------------------
(***************************************************************************)
(* DeviceList with rows of three characters, a list of three, and names    *)
(* shorter than a row, as long as a row and longer.                        *)
(***************************************************************************)
EXTENDS DeviceList

FewReports ==
    {<<>>, <<"a">>, <<"a", "b">>, <<"b", "a", "b">>, <<"a", "b", "a", "b">>}
=============================================================================
