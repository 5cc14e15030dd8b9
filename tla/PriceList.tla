------------------------------ MODULE PriceList ------------------------------
(***************************************************************************)
(* The offers of the market page: fetchPrices of src/pages/MarketPage.tsx  *)
(* and the country filter of src/components/CountrySelect.tsx.  Offers are *)
(* fetched by a timer, on a change of tab and on PricingUpdate events; a   *)
(* fetch in progress keeps others from starting.                           *)
(***************************************************************************)
EXTENDS Naturals, FiniteSets

CONSTANTS Countries,
          ManyCountries,  \* the selector has a search field above this number
          MaxVersion      \* bound: changes of the offers

ASSUME VersionAssumption == MaxVersion \in Nat /\ ManyCountries \in Nat

VARIABLES
    market,      \* the backend's offers: countries with sellers, and a version
    fetches,     \* answers the page awaits
    inFlight,    \* pricesInFlightRef
    allPricing,
    countryFilter,
    selectOpen, query   \* CountrySelect: the text searched for finds these

priceVars == <<market, fetches, inFlight, allPricing, countryFilter, selectOpen, query>>

All == "all"
NoOffers == [version |-> 0, countries |-> {}]

PriceInit ==
    /\ market = NoOffers
    /\ fetches = {} /\ inFlight = FALSE
    /\ allPricing = NoOffers
    /\ countryFilter = All
    /\ selectOpen = FALSE /\ query = Countries

\* availablePrices: the rows of the table.
AvailablePrices ==
    {c \in allPricing.countries : countryFilter = All \/ countryFilter = c}

DistinctCountries == allPricing.countries

\* The selector is there for more than one country, and starts anew.
SelectShown == Cardinality(DistinctCountries) > 1
SearchShown == selectOpen /\ Cardinality(DistinctCountries) > ManyCountries
FilteredCountries == DistinctCountries \cap query

\* Mutant: the guard against a second fetch is left out.
FetchPrices_Stacks ==
    /\ Cardinality(fetches) < 2
    /\ inFlight' = TRUE
    /\ fetches' = fetches \cup {market}
    /\ UNCHANGED <<market, allPricing, countryFilter, selectOpen, query>>

\* fetchPrices, answered from what the backend offers now.
FetchPrices ==
    /\ ~inFlight
    /\ inFlight' = TRUE
    /\ fetches' = fetches \cup {market}
    /\ UNCHANGED <<market, allPricing, countryFilter, selectOpen, query>>

Listed(prices) ==
    /\ allPricing' = prices
    /\ IF Cardinality(prices.countries) > 1 THEN UNCHANGED <<selectOpen, query>>
       ELSE selectOpen' = FALSE /\ query' = Countries

\* Mutant: the flag is reset only when the answer is good.
PricesArrive_NoFinally ==
    \E prices \in fetches :
        /\ fetches' = fetches \ {prices}
        /\ \/ Listed(prices) /\ inFlight' = FALSE
           \/ UNCHANGED <<allPricing, selectOpen, query, inFlight>>
        /\ UNCHANGED <<market, countryFilter>>

\* The answer, or an error.
PricesArrive ==
    \E prices \in fetches :
        /\ fetches' = fetches \ {prices}
        /\ inFlight' = FALSE
        /\ \/ Listed(prices)
           \/ UNCHANGED <<allPricing, selectOpen, query>>
        /\ UNCHANGED <<market, countryFilter>>

OffersChange ==
    /\ market.version < MaxVersion
    /\ \E cs \in SUBSET Countries :
         market' = [version |-> market.version + 1, countries |-> cs]
    /\ UNCHANGED <<fetches, inFlight, allPricing, countryFilter, selectOpen, query>>

\* The selector's button; a click outside or Escape closes it too, and keeps
\* the text.
ToggleSelect ==
    /\ SelectShown
    /\ selectOpen' = ~selectOpen /\ query' = Countries
    /\ UNCHANGED <<market, fetches, inFlight, allPricing, countryFilter>>

CloseSelect ==
    /\ selectOpen /\ selectOpen' = FALSE
    /\ UNCHANGED <<market, fetches, inFlight, allPricing, countryFilter, query>>

Search ==
    /\ SearchShown
    /\ query' \in SUBSET Countries
    /\ UNCHANGED <<market, fetches, inFlight, allPricing, countryFilter, selectOpen>>

\* Offered while nothing is searched for, or what is in the option's own name.
SelectAll ==
    /\ selectOpen
    /\ countryFilter' = All /\ selectOpen' = FALSE
    /\ UNCHANGED <<market, fetches, inFlight, allPricing, query>>

SelectCountry ==
    /\ selectOpen
    /\ \E c \in FilteredCountries : countryFilter' = c
    /\ selectOpen' = FALSE
    /\ UNCHANGED <<market, fetches, inFlight, allPricing, query>>

PriceNext ==
    \/ FetchPrices \/ PricesArrive \/ OffersChange
    \/ ToggleSelect \/ CloseSelect \/ Search \/ SelectAll \/ SelectCountry

PriceTypeOK ==
    /\ market \in [version : 0..MaxVersion, countries : SUBSET Countries]
    /\ fetches \subseteq [version : 0..MaxVersion, countries : SUBSET Countries]
    /\ allPricing \in [version : 0..MaxVersion, countries : SUBSET Countries]
    /\ inFlight \in BOOLEAN /\ selectOpen \in BOOLEAN
    /\ countryFilter \in Countries \cup {All}
    /\ query \subseteq Countries
    /\ selectOpen => SelectShown

\* Refreshes never take the table back to older offers.
PricesNeverGoBack == [][allPricing'.version >= allPricing.version]_priceVars
=============================================================================
