---------------------------- MODULE MainMigrations ----------------------------
(***************************************************************************)
(* The migrations of the schema main: one definition per file of            *)
(* commons/alembic/main, with what upgrade does and what downgrade does in   *)
(* the order of the code.  Updates of rows are the tables and columns that   *)
(* they read and write.  Parent schemas are left out.                        *)
(***************************************************************************)
EXTENDS Alembic

-----------------------------------------------------------------------------
r166ff2dcc48d_upgrade ==
  << ReturnIfTable("functionality"),
     CreateTable("functionality", [id |-> Id, name |-> NotNull(Text), value |-> NotNull(Text),
                                   description |-> Text]),
     CreateTable("treeitem", [type |-> NotNull(Text), id |-> Id, name |-> Text,
                              order |-> NotNull(Number), metadataURL |-> Text]),
     CreateTable("restrictionarea", [id |-> Id, name |-> Text, description |-> Text,
                                     readwrite |-> Bool]),
     AddColumn("restrictionarea", "area", Column("polygon")),
     CreateTable("static_shorturl", [id |-> Id, url |-> Column("text of 1000"),
                                     ref |-> NotNull(Unique(Text)), creator_email |-> Text,
                                     creation |-> Time, last_hit |-> Time, nb_hits |-> Number]),
     CreateTable("role", [id |-> Id, name |-> NotNull(Unique(Text)), description |-> Text]),
     AddColumn("role", "extent", Column("polygon")),
     Execute([role |-> {"name"}]),
     CreateTable("layer",
       [id |-> Key("treeitem")]
       @@ Of(Bool, {"public", "inMobileViewer", "inDesktopViewer", "isChecked", "isSingleTile",
                    "legend", "isLegendExpanded"})
       @@ Of(Real, {"minResolution", "maxResolution"})
       @@ Of(Text, {"icon", "layerType", "url", "imageType", "style", "dimensions", "matrixSet",
                    "wmsUrl", "wmsLayers", "queryLayers", "kml", "legendImage", "legendRule",
                    "disclaimer", "identifierAttributeField", "geoTable", "excludeProperties",
                    "timeMode"})),
     CreateTable("role_restrictionarea", Link("role", "restrictionarea")),
     CreateTable("tsearch", [id |-> Id, label |-> Text, layer_name |-> Text,
                             role_id |-> ForeignKey("role"), public |-> ServerDefault(Bool),
                             ts |-> Column("tsvector"), params |-> Text]),
     AddColumn("tsearch", "the_geom", Column("geometry")),
     Constrain(IndexOn("tsearch_ts_idx", "tsearch", {"ts"})),
     CreateTable("treegroup", [id |-> Key("treeitem")]),
     CreateTable("user", [id |-> Id, is_password_changed |-> Bool, role_id |-> NotNull(ForeignKey("role")),
                          username |-> NotNull(Unique(Text))]
                         @@ Of(NotNull(Text), {"type", "password", "email"})),
     Execute([user |-> {"type", "username", "email", "password", "role_id"}, role |-> {"id", "name"}]),
     CreateTable("role_functionality", Link("role", "functionality")),
     CreateTable("user_functionality", Link("user", "functionality")),
     CreateTable("layergroup", [id |-> Key("treegroup")]
                               @@ Of(Bool, {"isExpanded", "isInternalWMS", "isBaseLayer"})),
     CreateTable("layer_restrictionarea", Link("layer", "restrictionarea")),
     CreateTable("layergroup_treeitem", Link("treegroup", "treeitem")),
     CreateTable("theme", [id |-> Key("treegroup"), icon |-> Text, inMobileViewer |-> Bool,
                           inDesktopViewer |-> Bool]),
     CreateTable("theme_functionality", Link("theme", "functionality")),
     Execute([treeitem |-> {"type", "name", "order", "id"}, treegroup |-> {"id"}, layergroup |-> {"id"}]) >>

r166ff2dcc48d_downgrade ==
  ForEach(<<"theme_functionality", "theme", "layergroup_treeitem", "layer_restrictionarea", "layergroup",
            "user_functionality", "role_functionality", "user", "treegroup", "tsearch",
            "role_restrictionarea", "layer", "role", "static_shorturl", "restrictionarea", "treeitem",
            "functionality">>, LAMBDA t : <<DropTable(t)>>)

r166ff2dcc48d == Revision({}, r166ff2dcc48d_upgrade, r166ff2dcc48d_downgrade)

-----------------------------------------------------------------------------
(* The columns that move from layer to layerv1, under new names; and the columns of layerv1. *)
MovedToLayerV1 ==
  <<"isChecked", "icon", "layerType", "url", "imageType", "style", "dimensions", "matrixSet", "wmsUrl",
    "wmsLayers", "queryLayers", "kml", "isSingleTile", "legend", "legendImage", "legendRule",
    "isLegendExpanded", "minResolution", "maxResolution", "disclaimer", "identifierAttributeField",
    "excludeProperties", "timeMode">>

LayerV1Columns ==
  Of(Bool, {"is_checked", "is_single_tile", "legend", "is_legend_expanded"})
  @@ Of(Real, {"min_resolution", "max_resolution"})
  @@ Of(Text, {"icon", "layer_type", "url", "image_type", "style", "dimensions", "matrix_set", "wms_url",
               "wms_layers", "query_layers", "kml", "legend_image", "legend_rule", "disclaimer",
               "identifier_attribute_field", "time_mode"})

LayerV1Type(c) == CASE c \in {"isChecked", "isSingleTile", "legend", "isLegendExpanded"} -> Bool
                    [] c \in {"minResolution", "maxResolution"} -> Real
                    [] OTHER -> Text

r415746eb9f6_upgrade ==
  << ReturnIfTable("interface"),
     DropTable("user_functionality"),
     CreateTable("interface", [id |-> Id, name |-> Text, description |-> Text]),
     CreateTable("interface_layer", Link("interface", "layer")),
     CreateTable("interface_theme", Link("interface", "theme")),
     CreateTable("layerv1", [id |-> Key("layer"), exclude_properties |-> Text] @@ LayerV1Columns),
     Execute([treeitem |-> {"type"}, layer |-> {"id"} \cup ToSet(MovedToLayerV1),
              layerv1 |-> {"id", "exclude_properties"} \cup DOMAIN LayerV1Columns]) >>
  \o ForEach(MovedToLayerV1, LAMBDA c : <<DropColumn("layer", c)>>) \o
  << Execute([interface |-> {"id", "name"}, interface_layer |-> {"layer_id", "interface_id"},
              interface_theme |-> {"theme_id", "interface_id"},
              layer |-> {"inDesktopViewer", "inMobileViewer"}, theme |-> {"inDesktopViewer", "inMobileViewer"}]),
     DropColumn("layer", "inMobileViewer"), DropColumn("layer", "inDesktopViewer"),
     RenameColumn("layer", "geoTable", "geo_table"),
     DropColumn("theme", "inMobileViewer"), DropColumn("theme", "inDesktopViewer"),
     RenameColumn("treeitem", "metadataURL", "metadata_url"),
     RenameColumn("layergroup", "isExpanded", "is_expanded"),
     RenameColumn("layergroup", "isInternalWMS", "is_internal_wms"),
     RenameColumn("layergroup", "isBaseLayer", "is_base_layer"),
     CreateTable("layer_internal_wms", [id |-> Key("layer")]
                                       @@ Of(Text, {"layer", "image_type", "style", "time_mode"})),
     CreateTable("layer_external_wms", [id |-> Key("layer"), is_single_tile |-> Bool]
                                       @@ Of(Text, {"url", "layer", "image_type", "style", "time_mode"})),
     CreateTable("layer_wmts", [id |-> Key("layer")] @@ Of(Text, {"url", "layer", "style", "matrix_set"})),
     CreateTable("ui_metadata", [id |-> Id, item_id |-> NotNull(ForeignKey("treeitem"))]
                                @@ Of(Text, {"name", "value", "description"})),
     CreateTable("wmts_dimension", [id |-> Id, layer_id |-> NotNull(ForeignKey("layer_wmts"))]
                                   @@ Of(Text, {"name", "value", "description"})) >>

r415746eb9f6_downgrade ==
  << DropTable("wmts_dimension"), DropTable("ui_metadata"), DropTable("layer_wmts"),
     DropTable("layer_external_wms"), DropTable("layer_internal_wms"),
     AddColumn("layer", "inMobileViewer", Bool), AddColumn("layer", "inDesktopViewer", Bool),
     RenameColumn("layer", "geo_table", "geoTable"),
     AddColumn("theme", "inMobileViewer", Bool), AddColumn("theme", "inDesktopViewer", Bool),
     RenameColumn("treeitem", "metadata_url", "metadataURL"),
     RenameColumn("layergroup", "is_expanded", "isExpanded"),
     RenameColumn("layergroup", "is_internal_wms", "isInternalWMS"),
     RenameColumn("layergroup", "is_base_layer", "isBaseLayer"),
     Execute([interface |-> {"id", "name"}, interface_layer |-> {"layer_id", "interface_id"},
              interface_theme |-> {"theme_id", "interface_id"},
              layer |-> {"inDesktopViewer", "inMobileViewer"}, theme |-> {"inDesktopViewer", "inMobileViewer"}]) >>
  \o ForEach(Reverse(MovedToLayerV1), LAMBDA c : <<AddColumn("layer", c, LayerV1Type(c))>>) \o
  << Execute([layer |-> {"id"} \cup ToSet(MovedToLayerV1),
              layerv1 |-> {"id", "exclude_properties"} \cup DOMAIN LayerV1Columns]),
     DropTable("layerv1"), DropTable("interface_theme"), DropTable("interface_layer"), DropTable("interface"),
     CreateTable("user_functionality", Link("user", "functionality")) >>

r415746eb9f6 == Revision({"166ff2dcc48d"}, r415746eb9f6_upgrade, r415746eb9f6_downgrade)

-----------------------------------------------------------------------------
(* alembic adds a column marked as primary key without the key itself. *)
r54645a535ad6 == Revision({"415746eb9f6"},
  << DropConstraint("layergroup_treeitem_pkey", "layergroup_treeitem"),
     AddColumn("layergroup_treeitem", "id", Id), AddColumn("layergroup_treeitem", "ordering", Number),
     Execute([layergroup_treeitem |-> {"ordering", "treeitem_id"}, treeitem |-> {"id", "order"}]),
     AddColumn("theme", "ordering", Number),
     Execute([theme |-> {"ordering", "id"}, treeitem |-> {"id", "order"}]),
     DropColumn("treeitem", "order") >>,
  << AddColumn("treeitem", "order", Number),
     Execute([layergroup_treeitem |-> {"ordering", "treeitem_id"}, theme |-> {"ordering", "id"},
              treeitem |-> {"id", "order"}]),
     DropColumn("theme", "ordering"), DropColumn("layergroup_treeitem", "ordering"),
     DropColumn("layergroup_treeitem", "id"),
     Constrain(PrimaryKeyOn("layergroup_treeitem_pkey", "layergroup_treeitem",
                            {"treegroup_id", "treeitem_id"})) >>)

r1d5d4abfebd1 == Revision({"54645a535ad6"},
  << ReturnIfTable("restricted_role_theme"),
     AddColumn("theme", "public", NotNull(ServerDefault(Bool))),
     CreateTable("restricted_role_theme", Link("role", "theme")) >>,
  << DropTable("restricted_role_theme"), DropColumn("theme", "public") >>)

(* Both ways, the addresses of icons are rewritten in place. *)
r20137477bd02_addresses == << Execute([theme |-> {"icon"}, layerv1 |-> {"icon", "kml", "legend_image"}]) >>
r20137477bd02 == Revision({"1d5d4abfebd1"}, r20137477bd02_addresses, r20137477bd02_addresses)

r164ac0819a61 == Revision({"20137477bd02"},
  << AddColumn("layer_wmts", "image_type", Text) >>, << DropColumn("layer_wmts", "image_type") >>)

r5109242131ce ==
  LET tables == <<"layerv1", "layer_internal_wms", "layer_external_wms">>
  IN  Revision({"164ac0819a61"},
        ForEach(tables, LAMBDA t : <<AddColumn(t, "time_widget", Text), Execute(t :> {"time_widget"})>>),
        ForEach(tables, LAMBDA t : <<DropColumn(t, "time_widget")>>))

r32527659d57b ==
  LET move == Execute([layer |-> {"id", "exclude_properties"}, layerv1 |-> {"id", "exclude_properties"}])
  IN  Revision({"5109242131ce"},
        << AddColumn("layer", "exclude_properties", Text), move, DropColumn("layerv1", "exclude_properties") >>,
        << AddColumn("layerv1", "exclude_properties", Text), move, DropColumn("layer", "exclude_properties") >>)

(* Dropping interface_id drops the index that contains it; it is dropped before. *)
r53ba1a68d5fe == Revision({"5109242131ce"},
  << AddColumn("tsearch", "interface_id", ForeignKey("interface")), AddColumn("tsearch", "lang", Text),
     AddColumn("tsearch", "actions", Text), AddColumn("tsearch", "from_theme", ServerDefault(Bool)),
     Constrain(IndexOn("tsearch_search_index", "tsearch",
                       {"ts", "public", "role_id", "interface_id", "lang"})) >>,
  << DropConstraint("tsearch_search_index", "tsearch"),
     DropColumn("tsearch", "interface_id"), DropColumn("tsearch", "lang"),
     DropColumn("tsearch", "actions"), DropColumn("tsearch", "from_theme") >>)

r1418cb05921b == Merge({"32527659d57b", "53ba1a68d5fe"})

r2b8ed8c1df94 == Revision({"32527659d57b"},
  << Constrain(PrimaryKeyOn("layergroup_treeitem_pkey", "layergroup_treeitem", {"id"})) >>,
  << DropConstraint("layergroup_treeitem_pkey", "layergroup_treeitem") >>)

ra4f1aac9bda == Merge({"2b8ed8c1df94", "1418cb05921b"})

-----------------------------------------------------------------------------
(* The two tables of WMS layers become one, and their servers rows of their own: one for every
   value of is_single_tile, of which NULL and false become the same, so that a layer may find two. *)
LayerWmsData == [layer_internal_wms |-> {"id", "layer", "style", "image_type", "time_mode", "time_widget"},
                 layer_external_wms |-> {"id", "url", "layer", "style", "image_type", "is_single_tile",
                                         "time_mode", "time_widget"},
                 server_ogc |-> {"id", "name", "description", "url", "type", "image_type", "auth",
                                 "wfs_support", "is_single_tile"},
                 layer_wms |-> {"id", "server_ogc_id", "layer", "style", "time_mode", "time_widget"}]

r116b9b79fc4d_upgrade ==
  << CreateTable("server_ogc", [id |-> Id, name |-> NotNull(Text), wfs_support |-> ServerDefault(Bool),
                                is_single_tile |-> ServerDefault(Bool)]
                               @@ Of(Text, {"description", "url", "url_wfs", "type", "image_type", "auth"})),
     CreateTable("layer_wms", [id |-> Key("layer"), server_ogc_id |-> ForeignKey("server_ogc"),
                               layer |-> Text, style |-> Text]
                              @@ Of(NotNull(ServerDefault(Text)), {"time_mode", "time_widget"})),
     Copy("layer_internal_wms", "time_mode", "layer_wms", "time_mode"),
     Copy("layer_internal_wms", "time_widget", "layer_wms", "time_widget"),
     Copy("layer_external_wms", "url", "server_ogc", "name"),
     Copy("layer_external_wms", "time_mode", "layer_wms", "time_mode"),
     Copy("layer_external_wms", "time_widget", "layer_wms", "time_widget"),
     Write("layer_wms", {"id"}), Execute(LayerWmsData),
     DropTable("layer_external_wms"), DropTable("layer_internal_wms"),
     Execute([treeitem |-> {"type"}]) >>

r116b9b79fc4d_downgrade ==
  << CreateTable("layer_internal_wms", [id |-> Key("layer"), time_widget |-> ServerDefault(Text)]
                                       @@ Of(Text, {"layer", "image_type", "style", "time_mode"})),
     CreateTable("layer_external_wms", [id |-> Key("layer"), is_single_tile |-> Bool,
                                        time_widget |-> ServerDefault(Text)]
                                       @@ Of(Text, {"url", "layer", "image_type", "style", "time_mode"})),
     Execute(LayerWmsData),
     DropTable("layer_wms"), DropTable("server_ogc"),
     Execute([treeitem |-> {"type", "id"}, layer_internal_wms |-> {"id"}, layer_external_wms |-> {"id"}]) >>

r116b9b79fc4d == Revision({"a4f1aac9bda"}, r116b9b79fc4d_upgrade, r116b9b79fc4d_downgrade)

r22e6dfb556de == Revision({"2b8ed8c1df94"},
  << AddColumn("layergroup_treeitem", "description", Text), AddColumn("treeitem", "description", Text) >>,
  << DropColumn("layergroup_treeitem", "description"), DropColumn("treeitem", "description") >>)

r29f2a32859ec == Merge({"22e6dfb556de", "116b9b79fc4d"})

r6a412d9437b1 == Revision({"29f2a32859ec"},
  << RenameTable("server_ogc", "ogc_server"), RenameColumn("layer_wms", "server_ogc_id", "ogc_server_id") >>,
  << RenameTable("ogc_server", "server_ogc"), RenameColumn("layer_wms", "ogc_server_id", "server_ogc_id") >>)

(* A foreign key is dropped and created again, with or without ON DELETE CASCADE. *)
Recreate(name, t, c, ref, cascade) ==
  << DropConstraint(name, t), Constrain(Constraint("fk", name, t, {c}, ref, cascade)) >>

r951ff84bd8ec_keys(cascade) ==
  Recreate("layergroup_treeitem_treeitem_id_fkey", "layergroup_treeitem", "treeitem_id", "treeitem", cascade)
  \o Recreate("treegroup_id_fkey", "treegroup", "id", "treeitem", cascade)
  \o Recreate("ui_metadata_item_id_fkey", "ui_metadata", "item_id", "treeitem", cascade)
  \o Recreate("layer_id_fkey", "layer", "id", "treeitem", cascade)
  \o Recreate("layergroup_id_fkey", "layergroup", "id", "treegroup", cascade)
  \o Recreate("interface_layer_layer_id_fkey", "interface_layer", "layer_id", "layer", cascade)
  \o Recreate("layer_wms_id_fkey", "layer_wms", "id", "layer", cascade)

r951ff84bd8ec == Revision({"29f2a32859ec"}, r951ff84bd8ec_keys(TRUE), r951ff84bd8ec_keys(FALSE))

rdaf738d5bae4 == Merge({"6a412d9437b1", "951ff84bd8ec"})

rb60f2a505f42 == Revision({"daf738d5bae4"},
  << RenameTable("ui_metadata", "metadata") >>, << RenameTable("metadata", "ui_metadata") >>)

r8117bb9bba16 == Revision({"b60f2a505f42"},
  << RenameTable("wmts_dimension", "dimension"),
     DropConstraint("wmts_dimension_layer_id_fkey", "dimension"),
     Constrain(References("dimension_layer_id_fkey", "dimension", "layer_id", "layer")) >>,
  << DropConstraint("dimension_layer_id_fkey", "dimension"),
     Constrain(References("wmts_dimension_layer_id_fkey", "dimension", "layer_id", "layer_wmts")),
     RenameTable("dimension", "wmts_dimension") >>)

r7d271f4527cd == Revision({"8117bb9bba16"},
  << AddColumn("layerv1", "layer", Text),
     Execute([layerv1 |-> {"id", "layer"}, treeitem |-> {"id", "name"}]) >>,
  << DropColumn("layerv1", "layer") >>)

re7e03dedade3 == Revision({"8117bb9bba16"},
  << GiveValue("ogc_server", "url"), SetNull("ogc_server", "url", FALSE),
     Constrain(UniqueOn("name_unique_ogc_server", "ogc_server", {"name"})),
     SetNull("treeitem", "name", FALSE),
     Constrain(UniqueOn("type_name_unique_treeitem", "treeitem", {"type", "name"})) >>,
  << SetNull("ogc_server", "url", TRUE), DropConstraint("name_unique_ogc_server", "ogc_server"),
     SetNull("treeitem", "name", TRUE), DropConstraint("type_name_unique_treeitem", "treeitem"),
     Execute([ogc_server |-> {"url"}]) >>)

rec82a8906649_keys(cascade) ==
  Recreate("layer_wmts_id_fkey", "layer_wmts", "id", "layer", cascade)
  \o Recreate("layerv1_id_fkey", "layerv1", "id", "layer", cascade)
  \o Recreate("theme_id_fkey", "theme", "id", "treegroup", cascade)

rec82a8906649 == Revision({"e7e03dedade3"}, rec82a8906649_keys(TRUE), rec82a8906649_keys(FALSE))

r596ba21e3833 == Revision({"ec82a8906649"}, << Execute([ogc_server |-> {"url"}]) >>,
                                            << Execute([ogc_server |-> {"url"}]) >>)
ree25d267bf46 == Revision({"596ba21e3833"}, << Execute([interface |-> {"name"}]) >>,
                                            << Execute([interface |-> {"name"}]) >>)

re004f76e951a_columns ==
  << <<"layer_wmts", "url">>, <<"layer_wmts", "layer">>, <<"layer_wmts", "image_type">>,
     <<"layer_wms", "ogc_server_id">>, <<"layer_wms", "layer">>, <<"layer_wms", "time_mode">>,
     <<"layer_wms", "time_widget">>, <<"ogc_server", "image_type">>, <<"ogc_server", "type">>,
     <<"ogc_server", "auth">> >>

re004f76e951a_given ==
  {"time_mode", "time_widget", "image_type", "type", "auth"}

re004f76e951a == Revision({"ee25d267bf46"},
  Require(re004f76e951a_columns, {c \in ToSet(re004f76e951a_columns) : c[2] \in re004f76e951a_given}),
  ForEach(re004f76e951a_columns, LAMBDA c : <<SetNull(c[1], c[2], TRUE)>>))

r32b21aa1d0ed == Merge({"7d271f4527cd", "e004f76e951a"})

-----------------------------------------------------------------------------
(* The trigger by which the users of a role that is renamed follow it. *)
r9268a1dffac0 == Revision({"32b21aa1d0ed"},
  << CreateFunction("user", FALSE), CreateTrigger >>, << DropTrigger, DropFunction >>)

r6d87fdad275a == Revision({"9268a1dffac0"}, << Execute([metadata |-> {"name"}]) >>,
                                            << Execute([metadata |-> {"name"}]) >>)

rd8ef99bc227e_keys(cascade) ==
  ForEach(<< <<"role_functionality", "role">>, <<"role_functionality", "functionality">>,
             <<"theme_functionality", "theme">>, <<"theme_functionality", "functionality">> >>,
          LAMBDA k : Recreate(k[1] \o "_" \o k[2] \o "_id_fkey", k[1], k[2] \o "_id", k[2], cascade))

rd8ef99bc227e == Revision({"9268a1dffac0"}, rd8ef99bc227e_keys(TRUE), rd8ef99bc227e_keys(FALSE))

r94db7e7e5b21 == Merge({"6d87fdad275a", "d8ef99bc227e"})

rd48a63b348f1 == Revision({"94db7e7e5b21"}, << Execute([ogc_server |-> {"url"}]) >>,
                                            << Execute([ogc_server |-> {"url"}]) >>)

(* The users moved to the schema static: the same change on two branches. *)
r21f11066f8ec == Revision({"d48a63b348f1"},
  << CreateFunction("static_user", TRUE) >>, << CreateFunction("user", TRUE) >>)

r7530011a66a7 == Revision({"d8ef99bc227e"},
  << CreateFunction("static_user", TRUE) >>, << CreateFunction("user", TRUE) >>)

r809650bd04c3 == Revision({"21f11066f8ec"},
  << AddColumn("dimension", "field", Text) >>, << DropColumn("dimension", "field") >>)

rdba87f2647f9 == Merge({"7530011a66a7", "809650bd04c3"})

r338b57593823 == Revision({"dba87f2647f9"},
  << DropTrigger, DropFunction >>, << CreateFunction("static_user", TRUE), CreateTrigger >>)

rc75124553bf3 == Revision({"338b57593823"},
  << DropColumn("layergroup", "is_internal_wms"), DropColumn("layergroup", "is_base_layer") >>,
  << AddColumn("layergroup", "is_internal_wms", Bool), AddColumn("layergroup", "is_base_layer", Bool) >>)

re85afd327ab3_keys(cascade) ==
  Recreate("tsearch_role_id_fkey", "tsearch", "role_id", "role", cascade)
  \o Recreate("tsearch_interface_id_fkey", "tsearch", "interface_id", "interface", cascade)

re85afd327ab3 == Revision({"c75124553bf3"}, re85afd327ab3_keys(TRUE), re85afd327ab3_keys(FALSE))

r1de20166b274 == Revision({"e85afd327ab3"},
  << DropTable("layerv1") >>,
  << CreateTable("layerv1", [id |-> Cascade(Key("layer")), time_widget |-> Text, layer |-> Text]
                            @@ LayerV1Columns) >>)

r56dc90838d90 == Revision({"1de20166b274"},
  << Execute([layer_restrictionarea |-> {"layer_id"}, treeitem |-> {"id", "type"}]),
     Delete({"treeitem", "layer"}, {"layer_restrictionarea"}) >>, <<>>)

(* Interfaces are added and removed, with what refers to them, both ways. *)
r78fd093c8393_interfaces ==
  << Execute([interface |-> {"id", "name"}, interface_theme |-> {"interface_id"},
              interface_layer |-> {"interface_id"}]),
     Delete({"interface"}, {"interface_theme", "interface_layer"}) >>
r78fd093c8393 == Revision({"e85afd327ab3"}, r78fd093c8393_interfaces, r78fd093c8393_interfaces)

reeb345672454 == Merge({"78fd093c8393", "56dc90838d90"})

r028477929d13 == Revision({"eeb345672454"},
  << Write("role", {"name", "description"}) >>, << Execute([role |-> {"name"}]), Delete({"role"}, {}) >>)

r678f88c7ad5e == Revision({"028477929d13"},
  << CreateTable("layer_vectortiles", [id |-> Key("layer"), style |-> NotNull(Text), xyz |-> Text]) >>,
  << DropTable("layer_vectortiles") >>)

r16e43f8c0330 == Revision({"678f88c7ad5e"},
  << DropColumn("treeitem", "metadata_url") >>, << AddColumn("treeitem", "metadata_url", Text) >>)

-----------------------------------------------------------------------------
(* The keys of the association tables, in the order in which they are dropped. *)
r87f8330ed64e_links ==
  << <<"interface_layer", "interface">>, <<"interface_theme", "interface">>, <<"interface_theme", "theme">>,
     <<"layer_restrictionarea", "restrictionarea">>, <<"layer_restrictionarea", "layer">>,
     <<"restricted_role_theme", "theme">>, <<"restricted_role_theme", "role">>,
     <<"role_restrictionarea", "role">>, <<"role_restrictionarea", "restrictionarea">> >>

RecreateLink(link, cascade) ==
  Recreate(link[1] \o "_" \o link[2] \o "_id_fkey", link[1], link[2] \o "_id", link[2], cascade)

r87f8330ed64e_upgrade ==
  ForEach(r87f8330ed64e_links, LAMBDA link : RecreateLink(link, TRUE))
  \o << SetNull("theme", "ordering", FALSE) >>

(* mutant: the keys of the association tables keep what the upgrade gave them *)
r87f8330ed64e_downgrade_of_columns == << SetNull("theme", "ordering", TRUE), SetNull("ogc_server", "name", FALSE) >>

r87f8330ed64e_downgrade ==
  << SetNull("theme", "ordering", TRUE) >>
  \o ForEach(Reverse(r87f8330ed64e_links), LAMBDA link : RecreateLink(link, FALSE))
  \o << SetNull("ogc_server", "name", FALSE) >>

r87f8330ed64e == Revision({"16e43f8c0330"}, r87f8330ed64e_upgrade, r87f8330ed64e_downgrade)

ra00109812f89 == Revision({"87f8330ed64e"},
  << AddColumn("layer_wms", "valid", Bool), AddColumn("layer_wms", "invalid_reason", Text) >>,
  << DropColumn("layer_wms", "valid"), DropColumn("layer_wms", "invalid_reason") >>)

r52916d8fde8b == Revision({"a00109812f89"},
  << AddColumn("layer_vectortiles", "sql", Text) >>, << DropColumn("layer_vectortiles", "sql") >>)

r04f05bfbb05e == Revision({"52916d8fde8b"},
  << DropColumn("layergroup", "is_expanded") >>, << AddColumn("layergroup", "is_expanded", Bool) >>)

r44c91d82d419 == Revision({"04f05bfbb05e"},
  << CreateTable("log", [id |-> Id, date |-> NotNull(Zoned), element_id |-> NotNull(Number)]
                        @@ Of(NotNull(Text), {"action", "element_type", "element_name",
                                              "element_url_table", "username"})) >>,
  << DropTable("log") >>)

-----------------------------------------------------------------------------
(* The columns that become required, some of them after a default is given to the rows without value. *)
rb6b09f414fe8_columns ==
  << <<"dimension", "name">>, <<"interface", "name">>, <<"restrictionarea", "name">>, <<"layer", "public">>,
     <<"layergroup_treeitem", "ordering">>, <<"metadata", "name">>, <<"ogc_server", "wfs_support">>,
     <<"ogc_server", "is_single_tile">>, <<"restrictionarea", "readwrite">>, <<"tsearch", "label">>,
     <<"tsearch", "public">>, <<"tsearch", "from_theme">> >>

rb6b09f414fe8 == Revision({"44c91d82d419"},
  Require(rb6b09f414fe8_columns, {c \in ToSet(rb6b09f414fe8_columns) : c[2] \notin {"name", "label"}})
  \o << DropIndexIfAny("idx_restrictionarea_area", "restrictionarea"),
        Constrain(IndexOn("idx_restrictionarea_area", "restrictionarea", {"area"})) >>,
  ForEach(Reverse(rb6b09f414fe8_columns), LAMBDA c : <<SetNull(c[1], c[2], TRUE)>>))

ra4558f032d7d == Revision({"b6b09f414fe8"},
  << CreateTable("layer_cog", [id |-> Key("layer"), url |-> NotNull(Text)]) >>, << DropTable("layer_cog") >>)

r2e57710fecfe_servers ==
  << Write("ogc_server", {"name"}), Execute([ogc_server |-> {"name", "url"}, metadata |-> {"name", "value"}]) >>
r2e57710fecfe == Revision({"a4558f032d7d"}, r2e57710fecfe_servers, r2e57710fecfe_servers)

r834a3cfc02f2 == Revision({"2e57710fecfe"},
  << SetType("restrictionarea", "area", "multipolygon") >>, << SetType("restrictionarea", "area", "polygon") >>)

r33528a10237c_columns ==
  LET required == NotNull(ServerDefault(Text))
  IN  << <<"map_protocol", required>>, <<"query_url", Text>>, <<"query_protocol", required>>,
         <<"query_auth", required>>, <<"edit_url", Text>>, <<"edit_protocol", ServerDefault(Text)>>,
         <<"edit_auth", required>> >>

r33528a10237c == Revision({"834a3cfc02f2"},
  ForEach(r33528a10237c_columns, LAMBDA c : <<AddColumn("ogc_server", c[1], c[2])>>),
  ForEach(Reverse(r33528a10237c_columns), LAMBDA c : <<DropColumn("ogc_server", c[1])>>))
=============================================================================
