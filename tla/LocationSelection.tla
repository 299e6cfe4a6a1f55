-------------------------- MODULE LocationSelection --------------------------
(***************************************************************************)
(* LocationSelector.select_location (app/automation/location_selector.py)  *)
(* for the origin and then for the destination of one waybill, with the    *)
(* MapController it drives (app/automation/map_controller.py): the map,    *)
(* else the menus, else the text input.                                    *)
(*                                                                         *)
(* The site is the environment: the map it shows, whether its scripts      *)
(* work, its menus and how soon the cities of a province are loaded.       *)
(* Names are abstract; what matters of them is which is part of which, for *)
(* "in" on strings is how an option is recognised.  Options are chosen by  *)
(* their value attribute, and the menus by selectors that are tried in     *)
(* turn: those with the prefix of the side, then those without.            *)
(***************************************************************************)
EXTENDS Integers, SequencesExt

CONSTANTS
    PartOf,       \* <<a, b>>: name a is a proper part of name b
    Maps,         \* maps a site may show
    Cases         \* what is asked of which site, with the fields
                  \*   sought[s]: [province, city, coordinates], as requested
                  \*   provinces[m]: the options of province menu m, in order
                  \*   citiesOf[p]: the options of its city menu once p is chosen
                  \*   provinceAt[s], cityAt[s]: for each selector of s that matches
                  \*     something, in order, the one or two menus that it matches
                  \*   faults: "net", "other": a call raises; "slow": cities come late

Sides == {"Origin", "Destination"}
Methods == {"map", "dropdown", "autocomplete"}
\* openlayers, leaflet and mapbox are alike: one script that answers for itself.
MapKinds == {"google_maps", "scripted", "unknown_map"}
Blank == ""       \* the text of a placeholder option
Unset == "unset"  \* nothing is chosen in a menu
NoValue == "none" \* an option without a value attribute

ASSUME LocationAssumption ==
    /\ Maps \subseteq MapKinds
    /\ \A c \in Cases :
          /\ \A s \in Sides : c.sought[s].coordinates \in BOOLEAN
          /\ \A m \in DOMAIN c.provinces :
                c.provinces[m] \in Seq([text : DOMAIN c.citiesOf, value : STRING])
          /\ Unset \in DOMAIN c.citiesOf
          /\ \A p \in DOMAIN c.citiesOf : c.citiesOf[p] \in Seq([text : STRING, value : STRING])
          /\ \A s \in Sides : \A found \in ToSet(c.provinceAt[s]) \cup ToSet(c.cityAt[s]) :
                \E m, n \in DOMAIN c.provinces : found \in {<<m>>, <<m, n>>}
          /\ c.faults \subseteq {"net", "other", "slow"}

VARIABLES
    given,         \* one of Cases
    pc,           \* where select_location is
    side,         \* the location it is called for
    kind,         \* map_type, "none" without a map
    searchBox,    \* was a search input found?
    tried,        \* methods this call has tried
    point,        \* point[s]: what the map was told for s
    menu,         \* menu[m]: the province and the city that menu pair m shows
    loading,      \* menu pairs whose cities are still those of another province
    entered,      \* history: entered[s]: what was chosen for s, and in which menus
    result        \* result[s]: a method, "exhausted", a kind of fault, or "none"

vars == <<given, pc, side, kind, searchBox, tried, point, menu, loading, entered, result>>

Places == {"detect", "geocode", "search", "pick", "province", "city", "text", "done"}
Points == {"none", "requested", "centre", "suggested"}

MenuPairs == DOMAIN given.provinces

\* A name that was chosen in a menu.
Entry(m, name) == [menu |-> m, name |-> name]
Entries(names) == [menu : MenuPairs \cup {"none"}, name : names]

Init ==
    /\ given \in Cases
    /\ pc = "detect"
    /\ side = "Origin"
    /\ kind = "none"
    /\ searchBox = FALSE
    /\ tried = {}
    /\ point = [s \in Sides |-> "none"]
    /\ menu = [m \in MenuPairs |-> [province |-> Unset, city |-> Unset]]
    /\ loading = {}
    /\ entered = [s \in Sides |-> [province |-> Entry("none", Unset),
                                  city |-> Entry("none", Unset)]]
    /\ result = [s \in Sides |-> "none"]

\* "a in b" on strings.
In(a, b) == a = b \/ a = Blank \/ <<a, b>> \in PartOf

\* An option contains the name, in its text or its value.
Holds(name, option) ==
    \/ In(name, option.text)
    \/ option.value # NoValue /\ In(name, option.value)

\* Mutant of Match: one pass looks for either.
MatchInOnePass(options, name) ==
    LET Either(option) == Holds(name, option) \/ In(option.text, name)
    IN  SelectInSeq(options, Either)

\* The first option that contains the name, else the first whose text the name
\* contains; 0 if there is none.
Match(options, name) ==
    LET Holding(option) == Holds(name, option)
        Held(option) == In(option.text, name)
        first == SelectInSeq(options, Holding)
    IN  IF first # 0 THEN first ELSE SelectInSeq(options, Held)

\* Playwright takes the value for that of an option, or for its text.
Named(value, option) == value = option.value \/ value = option.text

\* select_option: a menu with these options shows the first one that the value names;
\* without a value the choice is cleared.
Picked(own, value) ==
    LET Names(option) == Named(value, option)
    IN  IF value = NoValue THEN Unset ELSE own[SelectInSeq(own, Names)].text

\* One selector: an option is matched among all that it finds, and the menu, which is
\* the first that it finds, has it; else the call raises, or nothing matches.
Usable(own, options, name) ==
    LET i == Match(options, name)
    IN  /\ i # 0
        /\ \/ options[i].value = NoValue
           \/ \E option \in ToSet(own) : Named(options[i].value, option)

Choice(own, options, name) == Picked(own, options[Match(options, name)].value)

\* The options that one selector finds, in all the menus that it matches.
OptionsAt(found, optionsOf) ==
    IF Len(found) = 1 THEN optionsOf[found[1]] ELSE optionsOf[found[1]] \o optionsOf[found[2]]

----------------------------------------------------------------------------
\* A location is found: the destination follows the origin.
Found(method) ==
    /\ result' = [result EXCEPT ![side] = method]
    /\ tried' = IF side = "Origin" THEN {} ELSE tried
    /\ side' = "Destination"
    /\ pc' = IF side = "Origin" THEN "detect" ELSE "done"

Raise(what) ==
    /\ result' = [result EXCEPT ![side] = what]
    /\ pc' = "done"
    /\ UNCHANGED side

\* The map is given up, the menus come next.
ToMenus ==
    /\ pc' = "province"
    /\ UNCHANGED <<side, result>>

ToText ==
    /\ pc' = "text"
    /\ UNCHANGED <<side, result>>

----------------------------------------------------------------------------
(* The map                                                                  *)

Detect ==
    /\ pc = "detect"
    /\ tried' = tried \cup {"map"}
    /\ \/ /\ kind' = "none"
          /\ ToMenus
       \/ /\ kind' \in Maps
          /\ pc' = IF given.sought[side].coordinates THEN "search" ELSE "geocode"
          /\ UNCHANGED <<side, result>>
    /\ UNCHANGED <<given, searchBox, point, menu, loading, entered>>

\* Nominatim knows the address, or anything goes wrong (it swallows all).
Geocode ==
    /\ pc = "geocode"
    /\ \/ pc' = "search" /\ UNCHANGED <<side, result>>
       \/ ToMenus
    /\ UNCHANGED <<given, kind, searchBox, tried, point, menu, loading, entered>>

FindSearchInput ==
    /\ pc = "search"
    /\ searchBox' \in BOOLEAN
    /\ pc' = "pick"
    /\ UNCHANGED <<given, side, kind, tried, point, menu, loading, entered, result>>

\* Looking for a map and for its search input stand outside the try of
\* _try_map_selection: what they raise leaves select_location.
MapLookupFails ==
    /\ pc \in {"detect", "search"}
    /\ \E fault \in {"net", "other"} \cap given.faults : Raise(fault)
    /\ tried' = tried \cup {"map"}
    /\ UNCHANGED <<given, kind, searchBox, point, menu, loading, entered>>

Pick(where) == point' = [point EXCEPT ![side] = where]

\* select_on_map: what is told to the map, and whether it returns True.  The
\* Google script places the point where it should and then False is returned;
\* if it could not, the middle of the map is clicked and True is returned.
PickGoogle ==
    /\ kind = "google_maps"
    /\ \/ searchBox /\ Pick("suggested") /\ Found("map")
       \/ Pick("requested") /\ ToMenus /\ UNCHANGED tried
       \/ Pick("centre") /\ Found("map")

PickScripted ==
    /\ kind = "scripted"
    /\ Pick("requested")
    /\ Found("map")

PickByClick ==
    /\ kind = "unknown_map"
    /\ Pick("centre")
    /\ Found("map")

PickOnMap ==
    /\ pc = "pick"
    /\ PickGoogle \/ PickScripted \/ PickByClick
    /\ UNCHANGED <<given, kind, searchBox, menu, loading, entered>>

\* No container, no map object, no bounding box: False.  A call that raises is
\* caught, also when the script had placed the point already.
PickFails ==
    /\ pc = "pick"
    /\ \/ UNCHANGED point
       \/ {"net", "other"} \cap given.faults # {} /\ kind # "unknown_map" /\ Pick("requested")
    /\ ToMenus
    /\ UNCHANGED <<given, kind, searchBox, tried, menu, loading, entered>>

----------------------------------------------------------------------------
(* The menus                                                                *)

\* Mutant of ProvinceSelectors: the prefix of the origin serves both sides.
ProvinceSelectorsOfOrigin(s) == given.provinceAt["Origin"]

ProvinceSelectors(s) == given.provinceAt[s]

\* _select_from_options with these selectors, when the menus have these options, goes on
\* after selector k: nothing fits, or a call raises (which is swallowed).
PassedOver(selectors, optionsOf, name, k) ==
    \/ {"net", "other"} \cap given.faults # {}
    \/ ~Usable(optionsOf[selectors[k][1]], OptionsAt(selectors[k], optionsOf), name)

\* It stops at selector k.
StopsAt(selectors, optionsOf, name, k) ==
    /\ Usable(optionsOf[selectors[k][1]], OptionsAt(selectors[k], optionsOf), name)
    /\ \A j \in 1..k - 1 : PassedOver(selectors, optionsOf, name, j)

\* A province is chosen and the site starts loading its cities.
SelectProvince ==
    /\ pc = "province"
    /\ LET selectors == ProvinceSelectors(side)
           name == given.sought[side].province
       IN  \E k \in DOMAIN selectors :
              LET m == selectors[k][1]
                  p == Choice(given.provinces[m], OptionsAt(selectors[k], given.provinces), name)
              IN  /\ StopsAt(selectors, given.provinces, name, k)
                  /\ menu' = [menu EXCEPT ![m].province = p]
                  /\ loading' = loading \cup {m}
                  /\ entered' = [entered EXCEPT ![side].province = Entry(m, p)]
    /\ tried' = tried \cup {"dropdown"}
    /\ pc' = "city"
    /\ UNCHANGED <<given, side, kind, searchBox, point, result>>

\* The cities arrive: the menu shows the first of them again.
LoadCities(m) ==
    /\ m \in loading
    /\ loading' = loading \ {m}
    /\ menu' = [menu EXCEPT ![m].city = Unset]
    /\ UNCHANGED <<given, pc, side, kind, searchBox, tried, point, entered, result>>

\* The options a city menu may offer now; before they are loaded, those of any
\* other province.
Shown(m) ==
    IF m \notin loading THEN {given.citiesOf[menu[m].province]}
    ELSE {given.citiesOf[p] : p \in DOMAIN given.citiesOf}

CitiesNow ==
    {cities \in [MenuPairs -> UNION {Shown(m) : m \in MenuPairs}] :
        \A m \in MenuPairs : cities[m] \in Shown(m)}

\* The half second granted to the cities, enough for all but a slow site.
Waited == loading = {} \/ "slow" \in given.faults

\* After half a second the city is looked up, then a district and the address,
\* whose failures are ignored.
SelectCity ==
    /\ pc = "city"
    /\ Waited
    /\ LET selectors == given.cityAt[side]
           name == given.sought[side].city
       IN  \E cities \in CitiesNow : \E k \in DOMAIN selectors :
              LET m == selectors[k][1]
                  c == Choice(cities[m], OptionsAt(selectors[k], cities), name)
              IN  /\ StopsAt(selectors, cities, name, k)
                  /\ menu' = [menu EXCEPT ![m].city = c]
                  /\ entered' = [entered EXCEPT ![side].city = Entry(m, c)]
    /\ Found("dropdown")
    /\ UNCHANGED <<given, kind, searchBox, point, loading>>

NoProvinceFits ==
    LET selectors == ProvinceSelectors(side)
    IN  \A k \in DOMAIN selectors :
           PassedOver(selectors, given.provinces, given.sought[side].province, k)

NoCityFits ==
    /\ Waited
    /\ \E cities \in CitiesNow : \A k \in DOMAIN given.cityAt[side] :
          PassedOver(given.cityAt[side], cities, given.sought[side].city, k)

\* After the menus comes the text input.  Mutant: there is no third method.
AfterMenusNothing == Raise("exhausted")

AfterMenus == ToText

\* No selector of the province, or none of the city, was of use.
MenuFails ==
    /\ \/ pc = "province" /\ NoProvinceFits
       \/ pc = "city" /\ NoCityFits
    /\ tried' = tried \cup {"dropdown"}
    /\ AfterMenus
    /\ UNCHANGED <<given, kind, searchBox, point, menu, loading, entered>>

----------------------------------------------------------------------------
(* The text input                                                           *)

SelectText ==
    /\ pc = "text"
    /\ Found("autocomplete")
    /\ UNCHANGED <<given, kind, searchBox, point, menu, loading, entered>>

TextFails ==
    /\ pc = "text"
    /\ tried' = tried \cup {"autocomplete"}
    /\ Raise("exhausted")
    /\ UNCHANGED <<given, kind, searchBox, point, menu, loading, entered>>

----------------------------------------------------------------------------
Next ==
    \/ Detect \/ Geocode \/ FindSearchInput \/ MapLookupFails \/ PickOnMap \/ PickFails
    \/ SelectProvince \/ (\E m \in MenuPairs : LoadCities(m)) \/ SelectCity \/ MenuFails
    \/ SelectText \/ TextFails

Spec == Init /\ [][Next]_vars

----------------------------------------------------------------------------
(* Properties                                                               *)

Provinces == DOMAIN given.citiesOf
Cities == UNION {{option.text : option \in ToSet(given.citiesOf[p])} : p \in Provinces}

\* Every variable has its type.
TypeOK ==
    /\ given \in Cases
    /\ pc \in Places
    /\ side \in Sides
    /\ kind \in Maps \cup {"none"}
    /\ searchBox \in BOOLEAN
    /\ tried \subseteq Methods
    /\ point \in [Sides -> Points]
    /\ menu \in [MenuPairs -> [province : Provinces, city : Cities \cup {Unset}]]
    /\ loading \subseteq MenuPairs
    /\ entered \in [Sides -> [province : Entries(Provinces), city : Entries(Cities \cup {Unset})]]
    /\ result \in [Sides -> Methods \cup {"none", "exhausted", "net", "other"}]

\* select_location (location_selector.py:53-70) gives a location up only when all
\* three methods were tried for it, and never looks for the destination of a
\* waybill whose origin it could not enter.
GivesUpLast ==
    /\ result[side] = "exhausted" => tried = Methods
    /\ result["Destination"] # "none" => result["Origin"] \in Methods

\* A call has no result while it runs, the destination follows an origin that was
\* entered, and a method is tried after those before it.
InOrder ==
    /\ pc # "done" => result[side] = "none"
    /\ side = "Origin" => result["Destination"] = "none"
    /\ side = "Destination" => result["Origin"] \in Methods
    /\ pc \notin {"detect", "done"} => "map" \in tried
    /\ pc = "text" => "dropdown" \in tried
    /\ result[side] = "exhausted" => tried = Methods

Dropdown(s) == result[s] = "dropdown"
Other(s) == CHOOSE o \in Sides : o # s

\* The menus that the selectors of s may change.
Reach(s) == {found[1] : found \in ToSet(given.provinceAt[s]) \cup ToSet(given.cityAt[s])}

\* The province chosen for s is what one of its selectors chooses.
ProvinceChosen(s) ==
    \E found \in ToSet(given.provinceAt[s]) :
        LET own == given.provinces[found[1]]
            options == OptionsAt(found, given.provinces)
        IN  /\ Usable(own, options, given.sought[s].province)
            /\ entered[s].province.menu = found[1]
            /\ entered[s].province.name = Choice(own, options, given.sought[s].province)

\* So is the city, which is looked for among those of that province where its menu is
\* the only one that is found.
CityChosen(s) ==
    LET cities == given.citiesOf[entered[s].province.name] IN
    \E found \in ToSet(given.cityAt[s]) :
        /\ entered[s].city.menu = found[1]
        /\ found = <<entered[s].province.menu>> =>
               /\ Usable(cities, cities, given.sought[s].city)
               /\ entered[s].city.name = Choice(cities, cities, given.sought[s].city)

\* The menus go on showing what was chosen for s.
ProvinceShown(s) == menu[entered[s].province.menu].province = entered[s].province.name
CityShown(s) ==
    /\ menu[entered[s].city.menu].city = entered[s].city.name
    /\ entered[s].city.menu \notin loading

\* Once they are there, a menu offers and shows the cities of its province.
CitiesBelong ==
    \A m \in MenuPairs \ loading :
        menu[m].city \in {Unset} \cup {o.text : o \in ToSet(given.citiesOf[menu[m].province])}

\* What was chosen for s stands, except that a slow site may still change the city, and
\* the other side what its selectors reach.
Stands(s) ==
    /\ ProvinceChosen(s)
    /\ entered[s].city.menu \in MenuPairs
    /\ entered[s].province.menu \notin Reach(Other(s)) => ProvinceShown(s)
    /\ "slow" \notin given.faults =>
           /\ CityChosen(s)
           /\ entered[s].city.menu \notin Reach(Other(s)) => CityShown(s)

\* What the menus show, from the choice of a province on.
MenusShow ==
    /\ CitiesBelong
    /\ pc = "city" => ProvinceChosen(side) /\ ProvinceShown(side)
    /\ \A s \in Sides : Dropdown(s) => Stands(s)

\* The inductive invariant.
IInv == TypeOK /\ InOrder /\ MenusShow

\* Entering one location leaves the other as it was entered: its menus go on showing the
\* province and, unless the site is slow, the city chosen for it, also when the cities
\* of the other arrive.  (Selectors without a prefix can reach the same menu for
\* both sides: such a menu shows the destination.)  And no menu is left with a city of a
\* province other than the one it shows, once its cities are there.
MenusConsistent ==
    /\ \A s \in Sides : Dropdown(s) =>
          /\ entered[s].province.menu \notin Reach(Other(s)) =>
                 menu[entered[s].province.menu].province = entered[s].province.name
          /\ entered[s].city.menu \notin Reach(Other(s)) /\ "slow" \notin given.faults =>
                 menu[entered[s].city.menu].city = entered[s].city.name
    /\ CitiesBelong

\* The options leave no doubt about a name: no other one contains it, in its text or its
\* value; either it is there or none is a part of it (as the empty text of a placeholder
\* is of every name); and it has a value, which names no other.
Unambiguous(options, name) ==
    /\ \A o \in ToSet(options) : Holds(name, o) => o.text = name
    /\ \/ \E o \in ToSet(options) : o.text = name
       \/ \A o \in ToSet(options) : ~In(o.text, name)
    /\ \A o, other \in ToSet(options) :
          o.text = name => o.value # NoValue /\ (Named(o.value, other) => other.text = name)

\* No selector of the province leaves a doubt about the province asked for.
ProvinceClear(s) ==
    \A found \in ToSet(given.provinceAt[s]) :
        Unambiguous(OptionsAt(found, given.provinces), given.sought[s].province)

\* Nor about the city, which is chosen next to that province.
CityClear(s) ==
    /\ entered[s].city.menu = entered[s].province.menu
    /\ \A found \in ToSet(given.cityAt[s]) :
          found[1] = entered[s].province.menu => found = <<entered[s].province.menu>>
    /\ Unambiguous(given.citiesOf[given.sought[s].province], given.sought[s].city)

\* Names are matched by containment, in both directions and in the order of the menu
\* (location_selector.py:292 and 299), and chosen by value (lines 293 and 301).  When
\* the menus leave no doubt about the names asked for, a location is entered by the
\* menus only as it was asked for, also after the other location was entered and its
\* cities arrived; a province the site lacks is never replaced by another.
EnteredAsAsked ==
    \A s \in Sides :
        Dropdown(s) /\ ProvinceClear(s) /\ entered[s].province.menu \notin Reach(Other(s)) =>
            /\ menu[entered[s].province.menu].province = given.sought[s].province
            /\ CityClear(s) /\ "slow" \notin given.faults =>
                   menu[entered[s].city.menu].city = given.sought[s].city

\* README.md:14: if the map does not work, the menus are used.  So no fault of
\* the map ends the selection before the menus were tried.
MapFallsBack ==
    \A s \in Sides : s = side /\ result[s] \in {"net", "other"} => "dropdown" \in tried
=============================================================================
