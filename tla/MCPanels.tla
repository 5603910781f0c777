------------------------------ MODULE MCPanels ------------------------------
(* Instances of Panels for TLC.                                             *)
EXTENDS Panels, TLC

CONSTANTS a, b, success, warning, error, note, image

\* A topic and one below it, siblings, and two levels made by one sample.
SomeTopics == {<<a>>, <<b>>, <<a, b>>, <<a, b, a>>, <<b, a>>}
SomeFilters == {<<>>, <<b>>, <<a, b>>}

Lives == success :> 2 @@ warning :> 3 @@ error :> 0
FileSizes == note :> 1 @@ image :> 2
=============================================================================
