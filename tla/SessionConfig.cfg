CONSTANTS
    Children <- MCChildren
    MaxChildren = 3
    MaxVips = 3
    MaxNegotiatedRoutes = 3
    Containers <- MCContainers
    Leaves <- MCLeaves
    MaxElements = 4
SPECIFICATION SessionConfigSpec
INVARIANTS
    InfoIsReference
    XmlIsReference
    RoutesHaveAddress
