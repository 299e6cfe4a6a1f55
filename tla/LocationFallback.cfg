\* The usual site with an OpenLayers, Leaflet or Mapbox map.
CONSTANTS
    PartOf <- MCPartOf
    Maps = {"scripted"}
    Cases <- MCUsual
SPECIFICATION Spec
\* The selection ends.
CHECK_DEADLOCK FALSE
INVARIANTS
    MapFallsBack
