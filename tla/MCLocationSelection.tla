------------------------- MODULE MCLocationSelection -------------------------
(* LocationSelection for TLC: two provinces, of which one has a city whose   *)
(* name is part of the name of a city of the other.                          *)
EXTENDS LocationSelection, TLC

Location(p, c, known) == [province |-> p, city |-> c, coordinates |-> known]

MCPartOf == {<<"rey", "sari">>}

\* Options whose values are their texts.
Plain(texts) == [i \in DOMAIN texts |-> [text |-> texts[i], value |-> texts[i]]]

Own(s) == <<<<s>>>>

Usual ==
    [sought |-> "Origin" :> Location("tehran", "rey", TRUE)
                @@ "Destination" :> Location("mazandaran", "amol", FALSE),
     provinces |-> [m \in Sides |-> Plain(<<Blank, "mazandaran", "tehran">>)],
     citiesOf |-> Blank :> Plain(<<Blank>>) @@ Unset :> <<>>
                  @@ "tehran" :> Plain(<<Blank, "tehran", "rey">>)
                  @@ "mazandaran" :> Plain(<<Blank, "sari", "amol">>),
     provinceAt |-> [s \in Sides |-> Own(s)],
     cityAt |-> [s \in Sides |-> Own(s)],
     faults |-> {"net", "other"}]

\* A site without placeholder options that lacks "alborz" and "amol".
Sparse ==
    [Usual EXCEPT
        !.sought["Origin"] = Location("alborz", "karaj", FALSE),
        !.provinces = [m \in Sides |-> Plain(<<"mazandaran", "tehran">>)],
        !.citiesOf = "tehran" :> Plain(<<"tehran", "rey">>) @@ "mazandaran" :> Plain(<<"sari">>)
                     @@ Unset :> <<>>]

\* "alborz" is not offered, and "rey" is only part of a name that is: the placeholder
\* is taken for the one and "sari" for the other.
Loose ==
    [Usual EXCEPT
        !.sought["Origin"] = Location("alborz", "karaj", FALSE),
        !.sought["Destination"] = Location("mazandaran", "rey", FALSE)]

\* Values that are numbers, and options without any: choosing "tehran" clears its menu.
Numbered ==
    [Usual EXCEPT
        !.provinces = [m \in Sides |->
            <<[text |-> Blank, value |-> Blank], [text |-> "mazandaran", value |-> "1"],
              [text |-> "tehran", value |-> IF m = "Origin" THEN NoValue ELSE "2"]>>],
        !.citiesOf["mazandaran"] =
            <<[text |-> "sari", value |-> "7"], [text |-> "amol", value |-> "8"]>>]

\* Next to the menus of each side there is one that any selector without a prefix finds;
\* only that one has the province of the origin.
ThirdMenu ==
    [Usual EXCEPT
        !.provinces = [m \in Sides |-> Plain(<<"mazandaran">>)] @@ "any" :> Plain(<<"tehran">>),
        !.provinceAt = [s \in Sides |-> <<<<s>>, <<"any">>>>],
        !.cityAt = [s \in Sides |-> <<<<s>>, <<"any">>>>],
        !.faults = {}]

\* Only selectors without a prefix match: the menus of both sides, or a shared one.
Unprefixed(found) ==
    [Usual EXCEPT
        !.provinceAt = [s \in Sides |-> <<found>>],
        !.cityAt = [s \in Sides |-> <<found>>],
        !.faults = {}]

MCCases ==
    {Usual, Sparse, Loose, Numbered, ThirdMenu,
     [ThirdMenu EXCEPT !.faults = {"net"}],
     [Usual EXCEPT !.faults = {"slow"}],
     [Sparse EXCEPT !.faults = {"net", "slow"}],
     Unprefixed(<<"Origin">>),
     Unprefixed(<<"Origin", "Destination">>),
     [Usual EXCEPT !.provinceAt = [s \in Sides |-> <<>>]]}

MCUsual == {Usual}
=============================================================================
