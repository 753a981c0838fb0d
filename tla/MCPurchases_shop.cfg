SPECIFICATION Spec
CONSTANTS
  Players = {"ann", "bob"}
  House <- Houses
  TierCount = 2
  Candidate <- Listing
  Dev = "dev"
  Burn = "burn"
  OwnAddresses = {"x"}
  FilterUnit = 2
  Amounts = {0, 1, 2, 5}
  Bundles = {"T1"}
  BundleCost <- Costs
  Quantity <- Quantities
  RerollCost = 10
  Treats = {1}
  TreatOwner <- Owners
  Sweeteners = {"sweet"}
  Goodies = {"press"}
  GoodyBundles = {"box"}
  Price <- Prices
  Contents <- Inside
  Items = {"sugar"}
  MaxTotal = 2
  Multipliers = {1000, 500}
  Early = {"ann"}
  MaxBalance = 2
  MaxStock = 2
  MaxPrizes = 1
  Nobody = "nobody"
INVARIANTS TypeOK AddressCanBeIssued
PROPERTIES SharesByTier NobodyPaysThemselves
CHECK_DEADLOCK FALSE
