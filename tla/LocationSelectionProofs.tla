------------------------ MODULE LocationSelectionProofs ------------------------
(***************************************************************************)
(* What TLAPS proves of LocationSelection, for every site and every name   *)
(* asked for: that a location is given up only after every method, that    *)
(* the menus of a form belong together, that a name that the menus leave   *)
(* no doubt about is entered as it was asked for, and how many steps that  *)
(* takes.                                                                  *)
(***************************************************************************)
EXTENDS LocationSelection, WellFoundedInduction, TLAPS

----------------------------------------------------------------------------
(* Matching                                                                 *)

\* The least of some numbers is one of them.
LEMMA MinIsIn ==
    ASSUME NEW I, I \subseteq Nat, I # {}
    PROVE  Min(I) \in I
<1> DEFINE Less == {ss \in Nat \X Nat : ss[1] < ss[2]}
<1>1. IsWellFoundedOn(Less, Nat)
  BY NatLessThanWellFounded DEF OpToRel
<1>2. PICK x \in I : \A y \in I : <<y, x>> \notin Less
  BY <1>1, WFMin
<1>3. ASSUME NEW y \in I PROVE x <= y
  <2>1. x \in Nat /\ y \in Nat /\ <<y, x>> \in Nat \X Nat
    OBVIOUS
  <2>2. ~(y < x)
    BY <1>2, <2>1
  <2> QED BY <2>1, <2>2
<1> QED BY <1>3 DEF Min

\* The options of a menu, with texts from T.
Options(T) == Seq([text : T, value : STRING])

\* The elements of a sequence, and a sequence of such elements.
LEMMA ElementOf ==
    ASSUME NEW S, NEW s \in Seq(S), NEW i \in 1..Len(s)
    PROVE  s[i] \in S
OBVIOUS

LEMMA InSeq ==
    ASSUME NEW R, NEW S, NEW s \in Seq(R), \A i \in 1..Len(s) : s[i] \in S
    PROVE  s \in Seq(S)
OBVIOUS

\* The texts of some options.
LEMMA OptionText ==
    ASSUME NEW T, NEW options \in Options(T), NEW o \in ToSet(options)
    PROVE  o.text \in T
<1> DEFINE S == [text : T, value : STRING]
<1>1. options \in Seq(S)
  BY DEF Options
<1>2. PICK i \in 1..Len(options) : o = options[i]
  <2> HIDE DEF S
  <2> QED BY <1>1 DEF ToSet
<1>3. options[i] \in S
  <2> HIDE DEF S
  <2> QED BY <1>1, ElementOf
<1> QED BY <1>2, <1>3

\* What is matched is an option, and contains the name if any option does.
LEMMA MatchFacts ==
    ASSUME NEW T, NEW options \in Options(T), NEW name
    PROVE  LET i == Match(options, name)
           IN  /\ i \in 0..Len(options)
               /\ i # 0 => Holds(name, options[i]) \/ In(options[i].text, name)
               /\ (\E j \in 1..Len(options) : Holds(name, options[j])) =>
                      i # 0 /\ Holds(name, options[i])
<1> DEFINE Holding == {i \in 1..Len(options) : Holds(name, options[i])}
           Held == {i \in 1..Len(options) : In(options[i].text, name)}
           first == IF Holding # {} THEN Min(Holding) ELSE 0
           second == IF Held # {} THEN Min(Held) ELSE 0
<1>1. Match(options, name) = IF first # 0 THEN first ELSE second
  BY DEF Match, SelectInSeq
<1>2. Holding # {} => first \in Holding
  <2>1. Holding \subseteq Nat
    OBVIOUS
  <2> HIDE DEF Holding
  <2> QED BY <2>1, MinIsIn
<1>3. Held # {} => second \in Held
  <2>1. Held \subseteq Nat
    OBVIOUS
  <2> HIDE DEF Held
  <2> QED BY <2>1, MinIsIn
<1> DEFINE i == Match(options, name)
<1>4. Len(options) \in Nat
  BY DEF Options
<1>5. CASE Holding # {}
  <2>1. first \in Holding /\ first # 0
    BY <1>2, <1>5
  <2>2. i = first
    BY <1>1, <2>1
  <2> QED BY <2>1, <2>2
<1>6. CASE Holding = {}
  <2>1. i = second
    BY <1>1, <1>6
  <2>2. CASE Held # {}
    BY <1>3, <1>6, <2>1, <2>2
  <2>3. CASE Held = {}
    <3>1. i = 0
      BY <2>1, <2>3
    <3> QED BY <1>4, <1>6, <3>1
  <2> QED BY <2>2, <2>3
<1> QED BY <1>5, <1>6

\* A menu that takes a value shows an option that the value names.
LEMMA PickedFacts ==
    ASSUME NEW T, NEW own \in Options(T), NEW value, value # NoValue,
           \E option \in ToSet(own) : Named(value, option)
    PROVE  \E option \in ToSet(own) : Named(value, option) /\ Picked(own, value) = option.text
<1> DEFINE I == {i \in 1..Len(own) : Named(value, own[i])}
<1>1. \A o : o \in ToSet(own) <=> \E j \in 1..Len(own) : o = own[j]
  BY DEF ToSet, Options
<1>2. I # {} /\ I \subseteq Nat
  BY <1>1
<1>3. Min(I) \in I
  <2> HIDE DEF I
  <2> QED BY <1>2, MinIsIn
<1>4. Picked(own, value) = own[Min(I)].text
  BY <1>2 DEF Picked, SelectInSeq
<1> QED BY <1>1, <1>3, <1>4

\* A usable menu shows one of its options, or none for an option without a value.
LEMMA ChoiceFacts ==
    ASSUME NEW T, NEW own \in Options(T), NEW options, NEW name, Usable(own, options, name)
    PROVE  Choice(own, options, name) \in {Unset} \cup {o.text : o \in ToSet(own)}
<1> DEFINE value == options[Match(options, name)].value
<1>1. CASE value = NoValue
  BY <1>1 DEF Choice, Picked
<1>2. CASE value # NoValue
  <2>1. \E option \in ToSet(own) : Named(value, option)
    BY <1>2 DEF Usable
  <2> HIDE DEF value
  <2>2. Picked(own, value) \in {o.text : o \in ToSet(own)}
    BY <1>2, <2>1, PickedFacts
  <2> QED BY <2>2 DEF Choice, value
<1> QED BY <1>1, <1>2

\* A name that the options leave no doubt about is matched by itself only.
LEMMA UnambiguousMatch ==
    ASSUME NEW T, NEW options \in Options(T), NEW name, Unambiguous(options, name),
           Match(options, name) # 0
    PROVE  /\ options[Match(options, name)] \in ToSet(options)
           /\ options[Match(options, name)].text = name
<1> DEFINE i == Match(options, name)
<1>1. /\ i \in 1..Len(options)
      /\ Holds(name, options[i]) \/ In(options[i].text, name)
      /\ (\E j \in 1..Len(options) : Holds(name, options[j])) => Holds(name, options[i])
  BY MatchFacts
<1>2. \A o : o \in ToSet(options) <=> \E j \in 1..Len(options) : o = options[j]
  BY DEF ToSet, Options
<1> HIDE DEF i
<1>3. options[i] \in ToSet(options)
  BY <1>1, <1>2
<1>4. CASE \E o \in ToSet(options) : o.text = name
  <2>1. \E j \in 1..Len(options) : Holds(name, options[j])
    BY <1>2, <1>4 DEF Holds, In
  <2> QED BY <1>1, <1>3, <2>1 DEF Unambiguous, i
<1>5. CASE ~\E o \in ToSet(options) : o.text = name
  BY <1>1, <1>3, <1>5 DEF Unambiguous, i
<1> QED BY <1>4, <1>5

\* So the menu shows that name, if its options are among those.
LEMMA UnambiguousChoice ==
    ASSUME NEW T, NEW own \in Options(T), NEW options \in Options(T), NEW name,
           Unambiguous(options, name), Usable(own, options, name),
           ToSet(own) \subseteq ToSet(options)
    PROVE  Choice(own, options, name) = name
<1> DEFINE option == options[Match(options, name)]
<1>1. option \in ToSet(options) /\ option.text = name
  BY UnambiguousMatch DEF Usable
<1>2. /\ option.value # NoValue
      /\ \A other \in ToSet(options) : Named(option.value, other) => other.text = name
  <2> HIDE DEF option
  <2> QED BY <1>1 DEF Unambiguous
<1>3. \E o \in ToSet(own) : Named(option.value, o)
  BY <1>2 DEF Usable
<1> DEFINE value == option.value
<1>4. \E o \in ToSet(own) : Named(value, o) /\ Picked(own, value) = o.text
  <2>1. value # NoValue /\ \E o \in ToSet(own) : Named(value, o)
    BY <1>2, <1>3
  <2> HIDE DEF value
  <2> QED BY <2>1, PickedFacts
<1>5. Picked(own, value) = name
  BY <1>2, <1>4
<1> QED BY <1>5 DEF Choice

\* The options that a selector finds include those of the menu that it changes.
LEMMA OptionsFacts ==
    ASSUME NEW T, NEW menus, NEW optionsOf, \A m \in menus : optionsOf[m] \in Options(T),
           NEW found, \E m, n \in menus : found \in {<<m>>, <<m, n>>}
    PROVE  /\ found[1] \in menus
           /\ OptionsAt(found, optionsOf) \in Options(T)
           /\ ToSet(optionsOf[found[1]]) \subseteq ToSet(OptionsAt(found, optionsOf))
           /\ found = <<found[1]>> => OptionsAt(found, optionsOf) = optionsOf[found[1]]
<1> USE DEF Options
<1>1. PICK m \in menus, n \in menus : found = <<m>> \/ found = <<m, n>>
  OBVIOUS
<1>2. CASE found = <<m>>
  <2>1. Len(found) = 1 /\ found[1] = m
    BY <1>2
  <2>2. OptionsAt(found, optionsOf) = optionsOf[m]
    BY <2>1 DEF OptionsAt
  <2> QED BY <2>1, <2>2
<1>3. CASE found = <<m, n>>
  <2> DEFINE a == optionsOf[m]
             b == optionsOf[n]
  <2>1. OptionsAt(found, optionsOf) = a \o b /\ found # <<found[1]>> /\ found[1] = m
    <3>1. Len(found) = 2 /\ found[1] = m /\ found[2] = n /\ Len(<<found[1]>>) = 1
      BY <1>3
    <3>2. found # <<found[1]>>
      BY <1>3
    <3>3. Len(found) # 1
      BY <3>1
    <3> QED BY <3>1, <3>2, <3>3, Zenon DEF OptionsAt
  <2>2. a \in Seq([text : T, value : STRING]) /\ b \in Seq([text : T, value : STRING])
    OBVIOUS
  <2> HIDE DEF a, b
  <2>3. a \o b \in Seq([text : T, value : STRING])
    BY <2>2
  <2>4. ToSet(a) \subseteq ToSet(a \o b)
    <3> SUFFICES ASSUME NEW i \in DOMAIN a PROVE a[i] \in ToSet(a \o b)
      BY DEF ToSet
    <3>1. i \in DOMAIN (a \o b) /\ (a \o b)[i] = a[i]
      BY <2>2
    <3> QED BY <3>1 DEF ToSet
  <2> QED BY <2>1, <2>3, <2>4 DEF a
<1> QED BY <1>1, <1>2, <1>3

----------------------------------------------------------------------------
(* The types                                                                *)

\* What the assumption says of a site's menus and of the selectors that find them.
LEMMA CaseFacts ==
    ASSUME given \in Cases
    PROVE  /\ \A m \in MenuPairs : given.provinces[m] \in Options(Provinces)
           /\ Unset \in Provinces
           /\ \A p \in Provinces : given.citiesOf[p] \in Options(Cities)
           /\ \A s \in Sides : \A found \in ToSet(given.provinceAt[s]) \cup ToSet(given.cityAt[s]) :
                 \E m, n \in MenuPairs : found \in {<<m>>, <<m, n>>}
<1>1. ASSUME NEW p \in Provinces PROVE given.citiesOf[p] \in Options(Cities)
  <2> DEFINE options == given.citiesOf[p]
  <2>1. options \in Seq([text : STRING, value : STRING])
    BY LocationAssumption DEF Provinces
  <2>2. \A i \in 1..Len(options) : options[i].text \in Cities
    BY <2>1 DEF Cities, ToSet
  <2> HIDE DEF options
  <2>3. ASSUME NEW i \in 1..Len(options) PROVE options[i] \in [text : Cities, value : STRING]
    <3>1. options[i] \in [text : STRING, value : STRING]
      BY <2>1, ElementOf
    <3>2. options[i].text \in Cities /\ options[i].value \in STRING
      BY <2>2, <3>1
    <3> QED BY <3>1, <3>2
  <2>4. options \in Seq([text : Cities, value : STRING])
    <3> DEFINE R == [text : STRING, value : STRING]
               S == [text : Cities, value : STRING]
    <3>1. options \in Seq(R) /\ \A i \in 1..Len(options) : options[i] \in S
      BY <2>1, <2>3
    <3> HIDE DEF R, S
    <3>2. options \in Seq(S)
      BY <3>1, InSeq
    <3> QED BY <3>2 DEF S
  <2> QED BY <2>4 DEF Options, options
<1> QED BY <1>1, LocationAssumption DEF Provinces, MenuPairs, Options

\* What one selector of the provinces finds.
LEMMA ProvinceAtFacts ==
    ASSUME given \in Cases, NEW s \in Sides, NEW found \in ToSet(given.provinceAt[s])
    PROVE  /\ found[1] \in MenuPairs /\ found[1] \in Reach(s)
           /\ given.provinces[found[1]] \in Options(Provinces)
           /\ OptionsAt(found, given.provinces) \in Options(Provinces)
           /\ ToSet(given.provinces[found[1]]) \subseteq ToSet(OptionsAt(found, given.provinces))
<1>1. \E m, n \in MenuPairs : found \in {<<m>>, <<m, n>>}
  BY CaseFacts
<1>2. \A m \in MenuPairs : given.provinces[m] \in Options(Provinces)
  BY CaseFacts
<1>3. found[1] \in MenuPairs
  BY <1>1
<1>4. found[1] \in Reach(s)
  BY DEF Reach
<1> QED BY <1>1, <1>2, <1>3, <1>4, OptionsFacts

\* A menu that is chosen from shows one of its provinces, or none.
LEMMA ProvinceIsOne ==
    ASSUME given \in Cases, NEW s \in Sides, NEW found \in ToSet(given.provinceAt[s]),
           NEW name, Usable(given.provinces[found[1]], OptionsAt(found, given.provinces), name)
    PROVE  Choice(given.provinces[found[1]], OptionsAt(found, given.provinces), name) \in Provinces
<1> DEFINE own == given.provinces[found[1]]
<1>1. own \in Seq([text : Provinces, value : STRING]) /\ own \in Options(Provinces)
  BY ProvinceAtFacts DEF Options
<1>2. \A o \in ToSet(own) : o.text \in Provinces
  <2> HIDE DEF own
  <2> QED BY <1>1, OptionText
<1>3. Choice(own, OptionsAt(found, given.provinces), name)
          \in {Unset} \cup {o.text : o \in ToSet(own)}
  BY <1>1, ChoiceFacts
<1>4. Unset \in Provinces
  BY CaseFacts
<1> QED BY <1>2, <1>3, <1>4

\* What the city menus offer now.
LEMMA CitiesNowFacts ==
    ASSUME TypeOK, NEW cities \in CitiesNow
    PROVE  /\ \A m \in MenuPairs : cities[m] \in Options(Cities)
           /\ \A m \in MenuPairs \ loading : cities[m] = given.citiesOf[menu[m].province]
<1>1. given \in Cases /\ \A m \in MenuPairs : menu[m].province \in Provinces
  BY DEF TypeOK
<1>2. \A m \in MenuPairs : cities[m] \in Shown(m)
  BY DEF CitiesNow
<1>3. ASSUME NEW m \in MenuPairs PROVE \E p \in Provinces : cities[m] = given.citiesOf[p]
  <2>1. CASE m \notin loading
    BY <1>1, <1>2, <2>1 DEF Shown
  <2>2. CASE m \in loading
    BY <1>2, <2>2 DEF Shown, Provinces
  <2> QED BY <2>1, <2>2
<1>4. \A m \in MenuPairs \ loading : cities[m] = given.citiesOf[menu[m].province]
  BY <1>2 DEF Shown
<1> QED BY <1>1, <1>3, <1>4, CaseFacts

\* What one selector of the cities finds, and what it chooses.
LEMMA CityAtFacts ==
    ASSUME TypeOK, NEW s \in Sides, NEW found \in ToSet(given.cityAt[s]),
           NEW cities \in CitiesNow
    PROVE  /\ found[1] \in MenuPairs /\ found[1] \in Reach(s)
           /\ cities[found[1]] \in Options(Cities)
           /\ found = <<found[1]>> => OptionsAt(found, cities) = cities[found[1]]
<1>1. \E m, n \in MenuPairs : found \in {<<m>>, <<m, n>>}
  BY CaseFacts DEF TypeOK
<1>2. \A m \in MenuPairs : cities[m] \in Options(Cities)
  BY CitiesNowFacts
<1>3. found[1] \in MenuPairs
  BY <1>1
<1>4. found[1] \in Reach(s)
  BY DEF Reach
<1> QED BY <1>1, <1>2, <1>3, <1>4, OptionsFacts

\* The parts of TypeOK that the end of a call changes.
LEMMA FoundType ==
    ASSUME TypeOK, NEW method \in Methods, Found(method)
    PROVE  /\ pc' \in Places /\ side' \in Sides /\ tried' \subseteq Methods
           /\ result' \in [Sides -> Methods \cup {"none", "exhausted", "net", "other"}]
BY DEF Found, TypeOK, Places, Sides

\* The initial state is well typed.
LEMMA InitType == Init => TypeOK
<1> SUFFICES ASSUME Init PROVE TypeOK
  OBVIOUS
<1>1. given \in Cases /\ Unset \in Provinces
  BY CaseFacts DEF Init
<1>2. menu \in [MenuPairs -> [province : Provinces, city : Cities \cup {Unset}]]
  BY <1>1 DEF Init
<1>3. entered \in [Sides -> [province : Entries(Provinces), city : Entries(Cities \cup {Unset})]]
  BY <1>1 DEF Init, Entry, Entries
<1> QED BY <1>2, <1>3 DEF Init, TypeOK, Places, Sides, Methods, Points

\* What the choice of a province changes: the menu that its selector finds.
LEMMA ProvinceStep ==
    ASSUME TypeOK, SelectProvince
    PROVE  \E found \in ToSet(given.provinceAt[side]) :
              LET m == found[1]
                  own == given.provinces[m]
                  options == OptionsAt(found, given.provinces)
                  p == Choice(own, options, given.sought[side].province)
              IN  /\ m \in MenuPairs /\ m \in Reach(side)
                  /\ Usable(own, options, given.sought[side].province) /\ p \in Provinces
                  /\ menu' = [menu EXCEPT ![m].province = p]
                  /\ loading' = loading \cup {m}
                  /\ entered' = [entered EXCEPT ![side].province = Entry(m, p)]
<1> DEFINE selectors == given.provinceAt[side]
<1>1. PICK k \in DOMAIN selectors :
         LET m == selectors[k][1]
             p == Choice(given.provinces[m], OptionsAt(selectors[k], given.provinces),
                         given.sought[side].province)
         IN  /\ StopsAt(selectors, given.provinces, given.sought[side].province, k)
             /\ menu' = [menu EXCEPT ![m].province = p]
             /\ loading' = loading \cup {m}
             /\ entered' = [entered EXCEPT ![side].province = Entry(m, p)]
  BY DEF SelectProvince, ProvinceSelectors
<1>2. selectors[k] \in ToSet(selectors)
  BY DEF ToSet
<1>3. Usable(given.provinces[selectors[k][1]], OptionsAt(selectors[k], given.provinces),
             given.sought[side].province)
  BY <1>1 DEF StopsAt
<1>4. given \in Cases /\ side \in Sides
  BY DEF TypeOK
<1>5. Choice(given.provinces[selectors[k][1]], OptionsAt(selectors[k], given.provinces),
             given.sought[side].province) \in Provinces
  BY <1>2, <1>3, <1>4, ProvinceIsOne
<1>6. selectors[k][1] \in MenuPairs /\ selectors[k][1] \in Reach(side)
  BY <1>2, <1>4, ProvinceAtFacts
<1> QED BY <1>1, <1>2, <1>3, <1>5, <1>6

\* And the choice of a city.
LEMMA CityStep ==
    ASSUME TypeOK, SelectCity
    PROVE  \E cities \in CitiesNow : \E found \in ToSet(given.cityAt[side]) :
              LET m == found[1]
                  own == cities[m]
                  options == OptionsAt(found, cities)
                  c == Choice(own, options, given.sought[side].city)
              IN  /\ m \in MenuPairs /\ m \in Reach(side)
                  /\ Usable(own, options, given.sought[side].city)
                  /\ c \in {Unset} \cup {o.text : o \in ToSet(own)} /\ c \in Cities \cup {Unset}
                  /\ menu' = [menu EXCEPT ![m].city = c]
                  /\ entered' = [entered EXCEPT ![side].city = Entry(m, c)]
<1> DEFINE selectors == given.cityAt[side]
           name == given.sought[side].city
<1>1. PICK cities \in CitiesNow, k \in DOMAIN selectors :
         LET m == selectors[k][1]
             c == Choice(cities[m], OptionsAt(selectors[k], cities), name)
         IN  /\ StopsAt(selectors, cities, name, k)
             /\ menu' = [menu EXCEPT ![m].city = c]
             /\ entered' = [entered EXCEPT ![side].city = Entry(m, c)]
  BY DEF SelectCity
<1> DEFINE m == selectors[k][1]
           own == cities[m]
           c == Choice(own, OptionsAt(selectors[k], cities), name)
<1>2. selectors[k] \in ToSet(selectors)
  BY DEF ToSet
<1>3. Usable(own, OptionsAt(selectors[k], cities), name)
  BY <1>1 DEF StopsAt
<1>4. side \in Sides
  BY DEF TypeOK
<1>5. m \in MenuPairs /\ m \in Reach(side) /\ own \in Options(Cities)
  BY <1>2, <1>4, CityAtFacts
<1>6. c \in {Unset} \cup {o.text : o \in ToSet(own)}
  BY <1>3, <1>5, ChoiceFacts
<1>7. \A o \in ToSet(own) : o.text \in Cities
  <2> HIDE DEF own
  <2> QED BY <1>5, OptionText
<1>8. c \in Cities \cup {Unset}
  BY <1>6, <1>7
<1> QED BY <1>1, <1>2, <1>3, <1>5, <1>6, <1>8

\* A well-typed state is followed by well-typed ones.
LEMMA NextType == TypeOK /\ [Next]_vars => TypeOK'
<1> SUFFICES ASSUME TypeOK, [Next]_vars PROVE TypeOK'
  OBVIOUS
<1> USE DEF TypeOK
<1>1. CASE Detect
  BY <1>1 DEF Detect, ToMenus, Places, Methods, MenuPairs, Cities, Provinces, Entries
<1>2. CASE Geocode
  BY <1>2 DEF Geocode, ToMenus, Places, MenuPairs, Cities, Provinces, Entries
<1>3. CASE FindSearchInput
  BY <1>3 DEF FindSearchInput, Places, MenuPairs, Cities, Provinces, Entries
<1>4. CASE MapLookupFails
  BY <1>4 DEF MapLookupFails, Raise, Places, Methods, MenuPairs, Cities, Provinces, Entries
<1>5. CASE PickOnMap
  <2>1. /\ point' \in [Sides -> Points]
        /\ Found("map") \/ (ToMenus /\ UNCHANGED tried)
    BY <1>5 DEF PickOnMap, PickGoogle, PickScripted, PickByClick, Pick, Points
  <2>2. /\ pc' \in Places /\ side' \in Sides /\ tried' \subseteq Methods
        /\ result' \in [Sides -> Methods \cup {"none", "exhausted", "net", "other"}]
    BY <2>1, FoundType DEF Methods, ToMenus, Places
  <2> QED BY <1>5, <2>1, <2>2 DEF PickOnMap, MenuPairs, Cities, Provinces, Entries
<1>6. CASE PickFails
  <2>1. point' \in [Sides -> Points]
    BY <1>6 DEF PickFails, Pick, Points
  <2> QED BY <1>6, <2>1 DEF PickFails, ToMenus, Places, MenuPairs, Cities, Provinces, Entries
<1>7. CASE SelectProvince
  <2>1. PICK m \in MenuPairs, p \in Provinces :
           /\ menu' = [menu EXCEPT ![m].province = p] /\ loading' = loading \cup {m}
           /\ entered' = [entered EXCEPT ![side].province = Entry(m, p)]
    BY <1>7, ProvinceStep
  <2>2. menu' \in [MenuPairs -> [province : Provinces, city : Cities \cup {Unset}]]
    BY <2>1
  <2>3. entered' \in [Sides -> [province : Entries(Provinces), city : Entries(Cities \cup {Unset})]]
    BY <2>1 DEF Entry, Entries
  <2> QED BY <1>7, <2>1, <2>2, <2>3 DEF SelectProvince, Places, Methods, MenuPairs, Cities, Provinces, Entries
<1>8. ASSUME NEW m \in MenuPairs, LoadCities(m) PROVE TypeOK'
  <2>1. menu' \in [MenuPairs -> [province : Provinces, city : Cities \cup {Unset}]]
    BY <1>8 DEF LoadCities
  <2> QED BY <1>8, <2>1 DEF LoadCities, MenuPairs, Cities, Provinces, Entries
<1>9. CASE SelectCity
  <2>1. PICK m \in MenuPairs, c \in Cities \cup {Unset} :
           /\ menu' = [menu EXCEPT ![m].city = c]
           /\ entered' = [entered EXCEPT ![side].city = Entry(m, c)]
    BY <1>9, CityStep
  <2>2. menu' \in [MenuPairs -> [province : Provinces, city : Cities \cup {Unset}]]
    BY <2>1
  <2>3. entered' \in [Sides -> [province : Entries(Provinces), city : Entries(Cities \cup {Unset})]]
    BY <2>1 DEF Entry, Entries
  <2>4. Found("dropdown") /\ UNCHANGED <<given, kind, searchBox, point, loading>>
    BY <1>9 DEF SelectCity
  <2>5. /\ pc' \in Places /\ side' \in Sides /\ tried' \subseteq Methods
        /\ result' \in [Sides -> Methods \cup {"none", "exhausted", "net", "other"}]
    BY <2>4, FoundType DEF Methods
  <2> QED BY <2>2, <2>3, <2>4, <2>5 DEF MenuPairs, Cities, Provinces, Entries
<1>10. CASE MenuFails
  BY <1>10 DEF MenuFails, AfterMenus, ToText, Places, Methods, MenuPairs, Cities, Provinces, Entries
<1>11. CASE SelectText
  BY <1>11, FoundType DEF SelectText, Methods, MenuPairs, Cities, Provinces, Entries
<1>12. CASE TextFails
  BY <1>12 DEF TextFails, Raise, Places, Methods, MenuPairs, Cities, Provinces, Entries
<1>13. CASE UNCHANGED vars
  BY <1>13 DEF vars, MenuPairs, Cities, Provinces, Entries
<1> QED BY <1>1, <1>2, <1>3, <1>4, <1>5, <1>6, <1>7, <1>8, <1>9, <1>10, <1>11, <1>12, <1>13
        DEF Next

----------------------------------------------------------------------------
(* The order of the methods                                                 *)

\* A method that finds the location leaves the order as it should be.
LEMMA FoundOrder ==
    ASSUME TypeOK, InOrder, pc # "done", NEW method \in Methods, Found(method)
    PROVE  InOrder'
<1>1. /\ result \in [Sides -> Methods \cup {"none", "exhausted", "net", "other"}]
      /\ side \in Sides /\ result[side] = "none"
  BY DEF TypeOK, InOrder
<1>2. /\ result' = [result EXCEPT ![side] = method] /\ side' = "Destination"
      /\ pc' \in {"detect", "done"}
      /\ side = "Origin" => pc' = "detect"
      /\ side = "Destination" => pc' = "done"
  BY <1>1 DEF Found, Sides
<1>3. CASE side = "Origin"
  <2>1. result'["Origin"] = method /\ result'["Destination"] = "none"
    BY <1>1, <1>2, <1>3 DEF InOrder, Sides
  <2> QED BY <1>2, <1>3, <2>1 DEF InOrder
<1>4. CASE side = "Destination"
  <2>1. result'["Origin"] \in Methods /\ result'["Destination"] = method
    BY <1>1, <1>2, <1>4 DEF InOrder, Sides
  <2> QED BY <1>2, <1>4, <2>1 DEF InOrder, Methods
<1> QED BY <1>1, <1>3, <1>4 DEF Sides

\* So does a call that goes on to another place.
LEMMA GoOnOrder ==
    ASSUME TypeOK, InOrder, pc # "done", UNCHANGED <<side, result>>,
           tried \subseteq tried', pc' \notin {"detect", "done"}, "map" \in tried',
           pc' = "text" => "dropdown" \in tried'
    PROVE  InOrder'
BY DEF InOrder

\* And one that raises, or gives up.
LEMMA RaiseOrder ==
    ASSUME TypeOK, InOrder, pc # "done", NEW what, Raise(what),
           what = "exhausted" => tried' = Methods
    PROVE  InOrder'
<1>1. /\ result \in [Sides -> Methods \cup {"none", "exhausted", "net", "other"}]
      /\ side \in Sides
  BY DEF TypeOK
<1>2. /\ pc' = "done" /\ UNCHANGED side
      /\ result' = [result EXCEPT ![side] = what]
  BY DEF Raise
<1>3. result'[side] = what /\ \A s \in Sides \ {side} : result'[s] = result[s]
  BY <1>1, <1>2
<1> QED BY <1>1, <1>2, <1>3 DEF InOrder, Sides

\* Every step keeps the order.
LEMMA NextOrder == TypeOK /\ InOrder /\ [Next]_vars => InOrder'
<1> SUFFICES ASSUME TypeOK, InOrder, [Next]_vars PROVE InOrder'
  OBVIOUS
<1>1. CASE Detect
  BY <1>1, GoOnOrder DEF Detect, ToMenus
<1>2. CASE Geocode
  BY <1>2, GoOnOrder DEF Geocode, ToMenus, InOrder
<1>3. CASE FindSearchInput
  BY <1>3, GoOnOrder DEF FindSearchInput, InOrder
<1>4. CASE MapLookupFails
  <2>1. PICK fault \in {"net", "other"} \cap given.faults : Raise(fault)
    BY <1>4 DEF MapLookupFails
  <2>2. fault # "exhausted" /\ pc # "done"
    BY <1>4, <2>1 DEF MapLookupFails
  <2> QED BY <2>1, <2>2, RaiseOrder
<1>5. CASE PickOnMap
  <2>1. pc = "pick" /\ (Found("map") \/ (ToMenus /\ UNCHANGED tried))
    BY <1>5 DEF PickOnMap, PickGoogle, PickScripted, PickByClick
  <2>2. CASE Found("map")
    BY <2>1, <2>2, FoundOrder DEF Methods
  <2>3. CASE ToMenus /\ UNCHANGED tried
    BY <2>1, <2>3, GoOnOrder DEF ToMenus, InOrder
  <2> QED BY <2>1, <2>2, <2>3
<1>6. CASE PickFails
  BY <1>6, GoOnOrder DEF PickFails, ToMenus, InOrder
<1>7. CASE SelectProvince
  BY <1>7, GoOnOrder DEF SelectProvince, InOrder
<1>8. ASSUME NEW m \in MenuPairs, LoadCities(m) PROVE InOrder'
  BY <1>8 DEF LoadCities, InOrder
<1>9. CASE SelectCity
  BY <1>9, FoundOrder DEF SelectCity, Methods
<1>10. CASE MenuFails
  BY <1>10, GoOnOrder DEF MenuFails, AfterMenus, ToText, InOrder
<1>11. CASE SelectText
  BY <1>11, FoundOrder DEF SelectText, Methods
<1>12. CASE TextFails
  <2>1. Raise("exhausted") /\ pc # "done" /\ tried' = Methods
    BY <1>12 DEF TextFails, InOrder, TypeOK, Methods
  <2> QED BY <2>1, RaiseOrder
<1>13. CASE UNCHANGED vars
  BY <1>13 DEF vars, InOrder
<1> QED BY <1>1, <1>2, <1>3, <1>4, <1>5, <1>6, <1>7, <1>8, <1>9, <1>10, <1>11, <1>12, <1>13
        DEF Next

----------------------------------------------------------------------------
(* What the menus show                                                      *)

\* The other side's other side.
LEMMA OtherSide ==
    ASSUME NEW s \in Sides, NEW o \in Sides, s # o
    PROVE  Other(s) = o
BY DEF Other, Sides

\* What was chosen for s stands when its menus and the record of it stay.
LEMMA StandsKept ==
    ASSUME NEW s \in Sides, Stands(s), UNCHANGED <<given, entered[s]>>,
           entered[s].province.menu \notin Reach(Other(s)) =>
               menu'[entered[s].province.menu].province = menu[entered[s].province.menu].province,
           entered[s].city.menu \notin Reach(Other(s)) /\ entered[s].city.menu \notin loading =>
               /\ menu'[entered[s].city.menu].city = menu[entered[s].city.menu].city
               /\ entered[s].city.menu \notin loading'
    PROVE  Stands(s)'
<1>1. ProvinceChosen(s)' /\ (CityChosen(s) => CityChosen(s)')
  BY DEF Stands, ProvinceChosen, CityChosen
<1>2. Reach(Other(s))' = Reach(Other(s))
  BY DEF Reach, Other
<1>3. entered[s].province.menu \notin Reach(Other(s)) => ProvinceShown(s)'
  BY DEF Stands, ProvinceShown
<1>4. "slow" \notin given.faults =>
          CityChosen(s)' /\ (entered[s].city.menu \notin Reach(Other(s)) => CityShown(s)')
  BY <1>1 DEF Stands, CityShown
<1>5. entered'[s].city.menu \in MenuPairs'
  BY DEF Stands, MenuPairs
<1> QED BY <1>1, <1>2, <1>3, <1>4, <1>5 DEF Stands

\* A step that leaves the menus alone and enters nothing by them.
LEMMA ShowKept ==
    ASSUME MenusShow, UNCHANGED <<given, menu, loading, entered>>,
           pc' # "city" \/ UNCHANGED <<pc, side>>,
           \A s \in Sides : Dropdown(s)' => Dropdown(s), side \in Sides
    PROVE  MenusShow'
<1>1. \A s \in Sides : Stands(s) => Stands(s)'
  BY StandsKept
<1>2. CitiesBelong'
  BY DEF MenusShow, CitiesBelong, MenuPairs
<1>3. pc' = "city" => ProvinceChosen(side)' /\ ProvinceShown(side)'
  BY DEF MenusShow, ProvinceChosen, ProvinceShown
<1> QED BY <1>1, <1>2, <1>3 DEF MenusShow

\* A province is chosen for the side of this call; the other keeps what this side
\* does not reach.
LEMMA ProvinceShows ==
    ASSUME TypeOK, InOrder, MenusShow, SelectProvince
    PROVE  MenusShow'
<1>1. /\ UNCHANGED <<given, side, result>> /\ pc = "province" /\ pc' = "city"
      /\ side \in Sides /\ ~Dropdown(side)
  BY DEF SelectProvince, TypeOK, InOrder, Dropdown
<1>2. PICK found \in ToSet(given.provinceAt[side]) :
         LET own == given.provinces[found[1]]
             options == OptionsAt(found, given.provinces)
             p == Choice(own, options, given.sought[side].province)
         IN  /\ found[1] \in MenuPairs /\ found[1] \in Reach(side)
             /\ Usable(own, options, given.sought[side].province) /\ p \in Provinces
             /\ menu' = [menu EXCEPT ![found[1]].province = p]
             /\ loading' = loading \cup {found[1]}
             /\ entered' = [entered EXCEPT ![side].province = Entry(found[1], p)]
  BY ProvinceStep
<1> DEFINE m == found[1]
           p == Choice(given.provinces[m], OptionsAt(found, given.provinces),
                       given.sought[side].province)
<1>3. /\ m \in MenuPairs /\ m \in Reach(side) /\ loading' = loading \cup {m}
      /\ Usable(given.provinces[m], OptionsAt(found, given.provinces), given.sought[side].province)
      /\ menu' = [menu EXCEPT ![m].province = p]
      /\ entered' = [entered EXCEPT ![side].province = Entry(m, p)]
  BY <1>2
<1>4. /\ menu'[m].province = p /\ \A n \in MenuPairs \ {m} : menu'[n] = menu[n]
      /\ entered'[side].province.menu = m /\ entered'[side].province.name = p
      /\ \A s \in Sides \ {side} : entered'[s] = entered[s]
  <2> HIDE DEF m, p
  <2> QED BY <1>1, <1>3 DEF TypeOK, Entry
<1>5. CitiesBelong'
  <2> SUFFICES ASSUME NEW n \in MenuPairs \ loading'
               PROVE  menu'[n].city \in {Unset} \cup
                          {o.text : o \in ToSet(given.citiesOf[menu'[n].province])}
    BY <1>1 DEF CitiesBelong, MenuPairs
  <2>1. n \in MenuPairs \ loading /\ n # m
    BY <1>3
  <2>2. menu'[n] = menu[n]
    BY <1>4, <2>1
  <2> QED BY <2>1, <2>2 DEF MenusShow, CitiesBelong
<1>6. ProvinceChosen(side)' /\ ProvinceShown(side)'
  BY <1>1, <1>3, <1>4 DEF ProvinceChosen, ProvinceShown
<1>7. ASSUME NEW s \in Sides, Dropdown(s) PROVE Stands(s)'
  <2>1. s # side /\ Stands(s) /\ Other(s) = side
    BY <1>1, <1>7, OtherSide DEF MenusShow
  <2>2. m \in Reach(Other(s))
    BY <1>3, <2>1
  <2>3. entered'[s] = entered[s]
    BY <1>4, <2>1
  <2>4. entered[s].province.menu \in MenuPairs /\ entered[s].city.menu \in MenuPairs
    BY ProvinceAtFacts, <2>1 DEF Stands, ProvinceChosen, TypeOK
  <2> HIDE DEF m
  <2>5. entered[s].province.menu \notin Reach(Other(s)) =>
            menu'[entered[s].province.menu] = menu[entered[s].province.menu]
    BY <1>4, <2>2, <2>4
  <2>6. entered[s].city.menu \notin Reach(Other(s)) /\ entered[s].city.menu \notin loading =>
            /\ menu'[entered[s].city.menu] = menu[entered[s].city.menu]
            /\ entered[s].city.menu \notin loading'
    BY <1>3, <1>4, <2>2, <2>4
  <2> QED BY <1>1, <2>1, <2>3, <2>5, <2>6, StandsKept
<1>8. \A s \in Sides : Dropdown(s)' = Dropdown(s)
  BY <1>1 DEF Dropdown
<1> QED BY <1>1, <1>5, <1>6, <1>7, <1>8 DEF MenusShow

\* Cities arrive at a menu for which none was chosen since its province.
LEMMA ArrivalShows ==
    ASSUME TypeOK, MenusShow, NEW m \in MenuPairs, LoadCities(m)
    PROVE  MenusShow'
<1>1. /\ UNCHANGED <<given, pc, side, result, entered>> /\ m \in loading
      /\ loading' = loading \ {m} /\ menu' = [menu EXCEPT ![m].city = Unset]
      /\ given \in Cases /\ side \in Sides
  BY DEF LoadCities, TypeOK
<1>2. /\ \A n \in MenuPairs : menu'[n].province = menu[n].province
      /\ \A n \in MenuPairs \ {m} : menu'[n] = menu[n]
      /\ menu'[m].city = Unset
  BY <1>1 DEF TypeOK
<1>3. CitiesBelong'
  <2> SUFFICES ASSUME NEW n \in MenuPairs \ loading'
               PROVE  menu'[n].city \in {Unset} \cup
                          {o.text : o \in ToSet(given.citiesOf[menu'[n].province])}
    BY <1>1 DEF CitiesBelong, MenuPairs
  <2>1. CASE n = m
    BY <1>2, <2>1
  <2>2. CASE n # m
    <3>1. n \in MenuPairs \ loading /\ menu'[n] = menu[n]
      BY <1>1, <1>2, <2>2
    <3> QED BY <3>1 DEF MenusShow, CitiesBelong
  <2> QED BY <2>1, <2>2
<1>4. \A s \in Sides : ProvinceChosen(s) => entered[s].province.menu \in MenuPairs
  BY <1>1, ProvinceAtFacts DEF ProvinceChosen
<1>5. pc' = "city" => ProvinceChosen(side)' /\ ProvinceShown(side)'
  BY <1>1, <1>2, <1>4 DEF MenusShow, ProvinceChosen, ProvinceShown
<1>6. ASSUME NEW s \in Sides, Dropdown(s) PROVE Stands(s)'
  <2>1. Stands(s) /\ entered[s].province.menu \in MenuPairs /\ entered[s].city.menu \in MenuPairs
    BY <1>4, <1>6 DEF MenusShow, Stands
  <2>2. menu'[entered[s].province.menu].province = menu[entered[s].province.menu].province
    BY <1>2, <2>1
  <2>3. entered[s].city.menu \notin loading =>
            /\ menu'[entered[s].city.menu] = menu[entered[s].city.menu]
            /\ entered[s].city.menu \notin loading'
    BY <1>1, <1>2, <2>1
  <2> QED BY <1>1, <2>1, <2>2, <2>3, StandsKept
<1>7. \A s \in Sides : Dropdown(s)' = Dropdown(s)
  BY <1>1 DEF Dropdown
<1> QED BY <1>3, <1>5, <1>6, <1>7 DEF MenusShow

\* A city is chosen next to the province.
LEMMA CityShows ==
    ASSUME TypeOK, InOrder, MenusShow, SelectCity
    PROVE  MenusShow'
<1>1. /\ UNCHANGED <<given, loading>> /\ Waited /\ Found("dropdown") /\ pc = "city"
      /\ given \in Cases /\ side \in Sides /\ pc' # "city"
      /\ ProvinceChosen(side) /\ ProvinceShown(side)
  BY DEF SelectCity, TypeOK, Found, MenusShow
<1>2. PICK cities \in CitiesNow, found \in ToSet(given.cityAt[side]) :
         LET options == OptionsAt(found, cities)
             c == Choice(cities[found[1]], options, given.sought[side].city)
         IN  /\ found[1] \in MenuPairs /\ found[1] \in Reach(side)
             /\ Usable(cities[found[1]], options, given.sought[side].city)
             /\ c \in {Unset} \cup {o.text : o \in ToSet(cities[found[1]])}
             /\ menu' = [menu EXCEPT ![found[1]].city = c]
             /\ entered' = [entered EXCEPT ![side].city = Entry(found[1], c)]
  BY CityStep
<1> DEFINE m == found[1]
           c == Choice(cities[m], OptionsAt(found, cities), given.sought[side].city)
<1>3. /\ m \in MenuPairs /\ m \in Reach(side)
      /\ Usable(cities[m], OptionsAt(found, cities), given.sought[side].city)
      /\ c \in {Unset} \cup {o.text : o \in ToSet(cities[m])}
      /\ menu' = [menu EXCEPT ![m].city = c]
      /\ entered' = [entered EXCEPT ![side].city = Entry(m, c)]
  BY <1>2
<1>4. /\ menu'[m].city = c /\ \A n \in MenuPairs \ {m} : menu'[n] = menu[n]
      /\ \A n \in MenuPairs : menu'[n].province = menu[n].province
      /\ entered'[side].city.menu = m /\ entered'[side].city.name = c
      /\ entered'[side].province.menu = entered[side].province.menu
      /\ entered'[side].province.name = entered[side].province.name
      /\ \A s \in Sides \ {side} : entered'[s] = entered[s]
  <2> HIDE DEF m, c
  <2> QED BY <1>1, <1>3 DEF TypeOK, Entry
<1>5. \A n \in MenuPairs \ loading : cities[n] = given.citiesOf[menu[n].province]
  BY CitiesNowFacts
<1>6. CitiesBelong'
  <2> SUFFICES ASSUME NEW n \in MenuPairs \ loading
               PROVE  menu'[n].city \in {Unset} \cup
                          {o.text : o \in ToSet(given.citiesOf[menu'[n].province])}
    BY <1>1 DEF CitiesBelong, MenuPairs
  <2>1. CASE n = m
    <3>1. cities[m] = given.citiesOf[menu'[m].province]
      BY <1>3, <1>4, <1>5, <2>1
    <3> QED BY <1>3, <1>4, <2>1, <3>1
  <2>2. CASE n # m
    <3>1. menu'[n] = menu[n]
      BY <1>4, <2>2
    <3> QED BY <3>1 DEF MenusShow, CitiesBelong
  <2> QED BY <2>1, <2>2
<1>7. ASSUME NEW s \in Sides, s = side PROVE Stands(s)'
  <2>1. ProvinceChosen(s)'
    BY <1>1, <1>4, <1>7 DEF ProvinceChosen
  <2>2. ProvinceShown(s)'
    <3>1. entered[side].province.menu \in MenuPairs
      BY <1>1, ProvinceAtFacts DEF ProvinceChosen
    <3> QED BY <1>1, <1>4, <1>7, <3>1 DEF ProvinceShown
  <2>3. ASSUME "slow" \notin given.faults PROVE CityChosen(s)' /\ CityShown(s)'
    <3>1. loading = {} /\ cities[m] = given.citiesOf[menu[m].province]
      BY <1>1, <1>3, <1>5, <2>3 DEF Waited
    <3>2. CityShown(s)'
      BY <1>1, <1>4, <1>7, <3>1 DEF CityShown
    <3>3. ASSUME found = <<entered[side].province.menu>>
          PROVE  LET own == given.citiesOf[entered[side].province.name]
                 IN  /\ Usable(own, own, given.sought[side].city)
                     /\ c = Choice(own, own, given.sought[side].city)
      <4>1. m = entered[side].province.menu /\ found = <<m>>
        BY <3>3
      <4>2. OptionsAt(found, cities) = cities[m]
        BY <1>1, <4>1, CityAtFacts
      <4>3. cities[m] = given.citiesOf[entered[side].province.name]
        BY <1>1, <3>1, <4>1 DEF ProvinceShown
      <4> QED BY <1>3, <4>2, <4>3
    <3>4. CityChosen(s)'
      BY <1>1, <1>4, <1>7, <3>3 DEF CityChosen
    <3> QED BY <3>2, <3>4
  <2>4. entered'[s].city.menu \in MenuPairs'
    BY <1>1, <1>3, <1>4, <1>7 DEF MenuPairs
  <2> QED BY <1>1, <1>7, <2>1, <2>2, <2>3, <2>4 DEF Stands
<1>8. ASSUME NEW s \in Sides, s # side, Dropdown(s) PROVE Stands(s)'
  <2>1. Stands(s) /\ Other(s) = side
    BY <1>1, <1>8, OtherSide DEF MenusShow
  <2>2. m \in Reach(Other(s)) /\ entered'[s] = entered[s]
    BY <1>3, <1>4, <1>8, <2>1
  <2>3. entered[s].province.menu \in MenuPairs /\ entered[s].city.menu \in MenuPairs
    BY <1>1, <2>1, ProvinceAtFacts DEF Stands, ProvinceChosen
  <2> HIDE DEF m
  <2>4. entered[s].province.menu \notin Reach(Other(s)) =>
            menu'[entered[s].province.menu].province = menu[entered[s].province.menu].province
    BY <1>4, <2>3
  <2>5. entered[s].city.menu \notin Reach(Other(s)) /\ entered[s].city.menu \notin loading =>
            /\ menu'[entered[s].city.menu] = menu[entered[s].city.menu]
            /\ entered[s].city.menu \notin loading'
    BY <1>1, <1>4, <2>2, <2>3
  <2> QED BY <1>1, <2>1, <2>2, <2>4, <2>5, StandsKept
<1>9. \A s \in Sides : s # side => Dropdown(s)' = Dropdown(s)
  BY <1>1 DEF Dropdown, Found, TypeOK
<1> QED BY <1>1, <1>6, <1>7, <1>8, <1>9 DEF MenusShow

\* A call that ends otherwise, or goes on, enters nothing by the menus.
LEMMA NothingByMenus ==
    ASSUME TypeOK,
           \/ UNCHANGED result
           \/ \E method \in {"map", "autocomplete"} : Found(method)
           \/ \E what \in {"net", "other", "exhausted"} : Raise(what)
    PROVE  \A s \in Sides : Dropdown(s)' => Dropdown(s)
<1>1. CASE UNCHANGED result
  BY <1>1 DEF Dropdown
<1>2. CASE \E what \in {"net", "other", "exhausted", "map", "autocomplete"} :
              result' = [result EXCEPT ![side] = what]
  BY <1>2 DEF TypeOK, Dropdown
<1> QED BY <1>1, <1>2 DEF Found, Raise

\* Every step keeps what the menus show.
LEMMA NextShow == TypeOK /\ InOrder /\ MenusShow /\ [Next]_vars => MenusShow'
<1> SUFFICES ASSUME TypeOK, InOrder, MenusShow, [Next]_vars PROVE MenusShow'
  OBVIOUS
<1>1. side \in Sides
  BY DEF TypeOK
<1>2. ASSUME UNCHANGED <<given, menu, loading, entered>>, pc' # "city" \/ UNCHANGED <<pc, side>>,
             \/ UNCHANGED result
             \/ \E method \in {"map", "autocomplete"} : Found(method)
             \/ \E what \in {"net", "other", "exhausted"} : Raise(what)
      PROVE  MenusShow'
  BY <1>1, <1>2, NothingByMenus, ShowKept
<1>3. CASE Detect \/ Geocode \/ FindSearchInput
  BY <1>2, <1>3 DEF Detect, Geocode, FindSearchInput, ToMenus
<1>4. CASE MapLookupFails
  <2>1. \E what \in {"net", "other", "exhausted"} : Raise(what)
    BY <1>4 DEF MapLookupFails
  <2> QED BY <1>2, <1>4, <2>1 DEF MapLookupFails, Raise
<1>5. CASE PickOnMap
  <2>1. Found("map") \/ (ToMenus /\ UNCHANGED tried)
    BY <1>5 DEF PickOnMap, PickGoogle, PickScripted, PickByClick
  <2>2. UNCHANGED <<given, menu, loading, entered>> /\ pc' # "city"
    BY <1>5, <2>1 DEF PickOnMap, Found, ToMenus
  <2> QED BY <1>2, <2>1, <2>2 DEF ToMenus
<1>6. CASE PickFails \/ MenuFails
  BY <1>2, <1>6 DEF PickFails, MenuFails, AfterMenus, ToMenus, ToText
<1>7. CASE SelectProvince
  BY <1>7, ProvinceShows
<1>8. ASSUME NEW m \in MenuPairs, LoadCities(m) PROVE MenusShow'
  BY <1>8, ArrivalShows
<1>9. CASE SelectCity
  BY <1>9, CityShows
<1>10. CASE SelectText
  <2>1. pc' # "city"
    BY <1>10 DEF SelectText, Found
  <2> QED BY <1>2, <1>10, <2>1 DEF SelectText
<1>11. CASE TextFails
  <2>1. pc' # "city"
    BY <1>11 DEF TextFails, Raise
  <2> QED BY <1>2, <1>11, <2>1 DEF TextFails
<1>12. CASE UNCHANGED vars
  BY <1>2, <1>12 DEF vars
<1> QED BY <1>3, <1>4, <1>5, <1>6, <1>7, <1>8, <1>9, <1>10, <1>11, <1>12 DEF Next

----------------------------------------------------------------------------
(* Theorems                                                                 *)

\* The inductive invariant of select_location holds, whatever the site
\* (app/automation/location_selector.py:48-74).
THEOREM Invariance == Spec => []IInv
<1>1. Init => IInv
  <2> SUFFICES ASSUME Init PROVE InOrder /\ MenusShow
    BY InitType DEF IInv
  <2>1. CitiesBelong
    BY DEF Init, CitiesBelong
  <2> QED BY <2>1 DEF Init, InOrder, MenusShow, Dropdown, Sides
<1>2. IInv /\ [Next]_vars => IInv'
  BY NextType, NextOrder, NextShow DEF IInv
<1> QED BY <1>1, <1>2, PTL DEF Spec

\* A location is given up only after all three methods, and no destination is looked
\* for without an origin (location_selector.py:53-70).
THEOREM GivenUpLast == Spec => []GivesUpLast
<1>1. IInv => GivesUpLast
  <2> SUFFICES ASSUME IInv PROVE GivesUpLast
    OBVIOUS
  <2>1. side = "Origin" \/ side = "Destination"
    BY DEF IInv, TypeOK, Sides
  <2> QED BY <2>1 DEF IInv, InOrder, GivesUpLast
<1> QED BY <1>1, Invariance, PTL

\* Entering one location leaves what was chosen for the other in its menus, and a menu
\* whose cities are there shows one of its province's, or none
\* (location_selector.py:160-190 and 278-305).
THEOREM MenusBelong == Spec => []MenusConsistent
<1>1. IInv => MenusConsistent
  BY DEF IInv, MenusShow, Stands, ProvinceShown, CityShown, MenusConsistent
<1> QED BY <1>1, Invariance, PTL

\* A name that the menus leave no doubt about is entered as it was asked for
\* (location_selector.py:278-305).
THEOREM AskedEntered == Spec => []EnteredAsAsked
<1>1. IInv => EnteredAsAsked
  <2> SUFFICES ASSUME IInv, NEW s \in Sides, Dropdown(s), ProvinceClear(s),
                      entered[s].province.menu \notin Reach(Other(s))
               PROVE  /\ menu[entered[s].province.menu].province = given.sought[s].province
                      /\ CityClear(s) /\ "slow" \notin given.faults =>
                             menu[entered[s].city.menu].city = given.sought[s].city
    BY DEF EnteredAsAsked
  <2> DEFINE asked == given.sought[s]
  <2>1. /\ given \in Cases /\ Stands(s) /\ ProvinceChosen(s) /\ ProvinceShown(s)
        /\ entered[s].province.name \in Provinces
    <3>1. TypeOK /\ MenusShow
      BY DEF IInv
    <3>2. given \in Cases /\ entered[s].province.name \in Provinces
      BY <3>1 DEF TypeOK, Entries
    <3> QED BY <3>1, <3>2 DEF MenusShow, Stands
  <2>2. entered[s].province.name = asked.province
    <3>1. PICK found \in ToSet(given.provinceAt[s]) :
             LET own == given.provinces[found[1]]
                 options == OptionsAt(found, given.provinces)
             IN  /\ Usable(own, options, asked.province)
                 /\ entered[s].province.name = Choice(own, options, asked.province)
      BY <2>1 DEF ProvinceChosen
    <3>2. Unambiguous(OptionsAt(found, given.provinces), asked.province)
      BY DEF ProvinceClear
    <3>3. /\ given.provinces[found[1]] \in Options(Provinces)
          /\ OptionsAt(found, given.provinces) \in Options(Provinces)
          /\ ToSet(given.provinces[found[1]]) \subseteq ToSet(OptionsAt(found, given.provinces))
      BY <2>1, ProvinceAtFacts
    <3> QED BY <3>1, <3>2, <3>3, UnambiguousChoice
  <2>3. ASSUME CityClear(s), "slow" \notin given.faults
        PROVE  menu[entered[s].city.menu].city = asked.city
    <3> DEFINE own == given.citiesOf[entered[s].province.name]
    <3>1. CityChosen(s) /\ CityShown(s)
      BY <2>1, <2>3 DEF Stands, CityClear
    <3>2. entered[s].city.name = Choice(own, own, asked.city) /\ Usable(own, own, asked.city)
      BY <2>3, <3>1 DEF CityChosen, CityClear
    <3>3. own \in Options(Cities)
      BY <2>1, CaseFacts
    <3>4. Unambiguous(own, asked.city)
      BY <2>2, <2>3 DEF CityClear
    <3>5. Choice(own, own, asked.city) = asked.city
      <4> HIDE DEF own
      <4> QED BY <3>2, <3>3, <3>4, UnambiguousChoice
    <3> QED BY <3>1, <3>2, <3>5 DEF CityShown
  <2> QED BY <2>1, <2>2, <2>3 DEF ProvinceShown
<1> QED BY <1>1, Invariance, PTL

----------------------------------------------------------------------------
(* How long a selection can be                                              *)

\* What is left of select_location for one location: the map, the menus, the text.
PlaceNumber(place) ==
    [detect |-> 7, geocode |-> 6, search |-> 5, pick |-> 4,
     province |-> 3, city |-> 2, text |-> 1, done |-> 0][place]

\* The destination comes after the origin.
StepsLeft ==
    IF pc = "done" THEN 0 ELSE PlaceNumber(pc) + (IF side = "Origin" THEN 7 ELSE 0)

\* Every step of the code leaves less to do; cities that arrive change nothing of it.
StepsRunOut ==
    [][\/ (\E m \in MenuPairs : LoadCities(m)) /\ StepsLeft' = StepsLeft
       \/ StepsLeft' < StepsLeft]_vars

\* How many steps the two locations may take, and that none are left only at the end.
StepsBounded ==
    /\ StepsLeft \in 0..14
    /\ StepsLeft = 0 <=> pc = "done"

\* The number of each place.
LEMMA PlaceNumbers ==
    /\ PlaceNumber("detect") = 7 /\ PlaceNumber("geocode") = 6 /\ PlaceNumber("search") = 5
    /\ PlaceNumber("pick") = 4 /\ PlaceNumber("province") = 3 /\ PlaceNumber("city") = 2
    /\ PlaceNumber("text") = 1 /\ PlaceNumber("done") = 0
BY DEF PlaceNumber

\* A location that is found leaves the destination, if that, to be looked for.
LEMMA FoundShortens ==
    ASSUME TypeOK, pc # "done", NEW method, Found(method)
    PROVE  StepsLeft' < StepsLeft
<1>1. pc \in Places /\ side \in Sides
  BY DEF TypeOK
<1> QED BY <1>1, PlaceNumbers DEF Found, StepsLeft, Places, Sides

\* Giving up leaves nothing.
LEMMA RaiseShortens ==
    ASSUME TypeOK, pc # "done", NEW what, Raise(what)
    PROVE  StepsLeft' < StepsLeft
<1>1. pc \in Places /\ side \in Sides
  BY DEF TypeOK
<1> QED BY <1>1, PlaceNumbers DEF Raise, StepsLeft, Places, Sides

\* Going on to what comes later leaves less.
LEMMA GoOnShortens ==
    ASSUME TypeOK, side' = side, pc # "done", pc' \in Places, pc' # "done",
           PlaceNumber(pc') < PlaceNumber(pc)
    PROVE  StepsLeft' < StepsLeft
<1>1. pc \in Places /\ side \in Sides
  BY DEF TypeOK
<1> QED BY <1>1, PlaceNumbers DEF StepsLeft, Places, Sides

\* Every step of the code leaves less to do.
LEMMA StepShortens ==
    ASSUME TypeOK, Next, \A m \in MenuPairs : ~LoadCities(m)
    PROVE  StepsLeft' < StepsLeft
<1> USE PlaceNumbers
<1>0. Places = {"detect", "geocode", "search", "pick", "province", "city", "text", "done"}
  BY DEF Places
<1>1. CASE Detect
  BY <1>0, <1>1, GoOnShortens DEF Detect, ToMenus
<1>2. CASE Geocode
  BY <1>0, <1>2, GoOnShortens DEF Geocode, ToMenus
<1>3. CASE FindSearchInput
  BY <1>0, <1>3, GoOnShortens DEF FindSearchInput
<1>4. CASE MapLookupFails
  BY <1>4, RaiseShortens DEF MapLookupFails
<1>5. CASE PickOnMap
  <2>1. pc = "pick" /\ (Found("map") \/ ToMenus)
    BY <1>5 DEF PickOnMap, PickGoogle, PickScripted, PickByClick
  <2> QED BY <1>0, <2>1, FoundShortens, GoOnShortens DEF ToMenus
<1>6. CASE PickFails
  BY <1>0, <1>6, GoOnShortens DEF PickFails, ToMenus
<1>7. CASE SelectProvince
  BY <1>0, <1>7, GoOnShortens DEF SelectProvince
<1>8. CASE SelectCity
  BY <1>8, FoundShortens DEF SelectCity
<1>9. CASE MenuFails
  BY <1>0, <1>9, GoOnShortens DEF MenuFails, AfterMenus, ToText
<1>10. CASE SelectText
  BY <1>10, FoundShortens DEF SelectText
<1>11. CASE TextFails
  BY <1>11, RaiseShortens DEF TextFails
<1> QED
  BY <1>1, <1>2, <1>3, <1>4, <1>5, <1>6, <1>7, <1>8, <1>9, <1>10, <1>11 DEF Next

\* The three methods are tried one after the other and never again
\* (location_selector.py:53-70): no failure of a map or of a menu leads back to a
\* method that was left.
THEOREM RunsOut == Spec => StepsRunOut
<1>1. IInv /\ [Next]_vars =>
          [\/ (\E m \in MenuPairs : LoadCities(m)) /\ StepsLeft' = StepsLeft
           \/ StepsLeft' < StepsLeft]_vars
  <2>1. ASSUME NEW m \in MenuPairs, LoadCities(m) PROVE StepsLeft' = StepsLeft
    BY <2>1 DEF LoadCities, StepsLeft
  <2> QED BY <2>1, StepShortens DEF IInv
<1> QED BY <1>1, Invariance, PTL DEF Spec, StepsRunOut

\* So the two locations of a waybill take at most 14 steps, and a call has used them up
\* only when it is over.
THEOREM RunsShort == Spec => []StepsBounded
<1>1. IInv => StepsBounded
  <2> SUFFICES ASSUME IInv PROVE StepsBounded
    OBVIOUS
  <2>1. pc \in Places /\ side \in Sides
    BY DEF IInv, TypeOK
  <2> QED BY <2>1, PlaceNumbers DEF StepsBounded, StepsLeft, Places, Sides
<1> QED BY <1>1, Invariance, PTL
=============================================================================
